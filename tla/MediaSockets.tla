---------------------------- MODULE MediaSockets ----------------------------
(***************************************************************************)
(* The descriptors of the sessions: who opens and who closes the epoll     *)
(* descriptor, the RTSP socket and the UDP sockets of each medium          *)
(* (setup_transport(), cleanup_before_reconn(), destroy_rtsp_sess()), which *)
(* ports a SETUP asks the server to send to, and which medium an answer or *)
(* a datagram is taken for.  The sessions share the descriptors and ports  *)
(* of the process, and the kernel gives out a closed descriptor again.     *)
(* All sessions of the model use UDP.                                      *)
(***************************************************************************)
EXTENDS Integers, Sequences, FiniteSets, FiniteSetsExt

CONSTANTS
    Sessions,
    NumFds,         \* descriptors the process may have open
    NumPorts,       \* UDP ports that are free at the start, from port 2 on
    MaxConnects,    \* bound on the connections the sessions try
    MaxFailures     \* bound on how often setup_transport() fails

ASSUME SocketAssumption ==
    /\ NumFds \in Nat /\ NumPorts \in Nat /\ NumPorts % 2 = 0
    /\ MaxConnects \in Nat /\ MaxFailures \in Nat

VARIABLES
    file,           \* the kernel's table of open files, and their epoll sets
    state,          \* what each session's thread is doing
    connects,       \* connections tried so far
    ep_fd, rtsp_sd, \* the descriptors each session holds
    rtp_sd, rtcp_sd,
    rtp_port, rtcp_port,    \* the ports of each medium
    enable,         \* the media a SETUP was sent for
    described,      \* the media of the present connection's description
    asked,          \* the SETUP that waits for its answer, or NoRequest
    failed,         \* history: media whose setup_transport() failed since
                    \* the session connected
    forgot,         \* history: setup_transport() failed before it stored its
                    \* sockets, or a session ended that had UDP sockets
    failures        \* how often setup_transport() failed

fds == <<ep_fd, rtsp_sd, rtp_sd, rtcp_sd>>
vars == <<file, state, connects, fds, rtp_port, rtcp_port, enable, described,
          asked, failed, forgot, failures>>

-----------------------------------------------------------------------------
(* The operating system                                                    *)

Video == 0
Audio == 1
Media == {Video, Audio}

NoFd == -1
Fds == 0..(NumFds - 1)
Ports == 2..(NumPorts + 1)
NoPort == 0
NoMedium == -1
NoRequest == [media |-> NoMedium, rtp |-> NoPort, rtcp |-> NoPort]

Closed == [kind |-> "closed", of |-> "nobody", port |-> NoPort, watched |-> {}]
File(kind, s, port) == [kind |-> kind, of |-> s, port |-> port, watched |-> {}]

Unused(files) == {fd \in Fds : files[fd] = Closed}
PortsInUse(files) == {files[fd].port : fd \in Fds} \ {NoPort}
FreePorts(files) == Ports \ PortsInUse(files)

\* socket() or epoll_create(): the lowest descriptor that is free.
Opens(files, f) == [files EXCEPT ![Min(Unused(files))] = f]

\* close(), which also takes a descriptor out of every epoll set; closing -1
\* does nothing.
Closes(files, gone) ==
    [fd \in Fds |-> IF fd \in gone THEN Closed
                    ELSE [files[fd] EXCEPT !.watched = @ \ gone]]

\* epoll_ctl(EPOLL_CTL_ADD)
Watches(files, ep, new) == [files EXCEPT ![ep].watched = @ \cup new]

-----------------------------------------------------------------------------

TypeOK ==
    /\ file \in [Fds -> [kind : {"closed", "epoll", "tcp", "udp"}, of : Sessions \cup {"nobody"},
                         port : Ports \cup {NoPort}, watched : SUBSET Fds]]
    /\ state \in [Sessions -> {"start", "connecting", "up", "ended"}]
    /\ connects \in 0..MaxConnects
    /\ ep_fd \in [Sessions -> Fds \cup {NoFd}] /\ rtsp_sd \in [Sessions -> Fds \cup {NoFd}]
    /\ rtp_sd \in [Sessions -> [Media -> Fds \cup {NoFd}]]
    /\ rtcp_sd \in [Sessions -> [Media -> Fds \cup {NoFd}]]
    /\ rtp_port \in [Sessions -> [Media -> Ports \cup {NoPort}]]
    /\ rtcp_port \in [Sessions -> [Media -> Ports \cup {NoPort}]]
    /\ enable \in [Sessions -> SUBSET Media]
    /\ described \in [Sessions -> SUBSET Media]
    /\ asked \in [Sessions -> [media : Media \cup {NoMedium}, rtp : Ports \cup {NoPort},
                               rtcp : Ports \cup {NoPort}]]
    /\ failed \in [Sessions -> SUBSET Media]
    /\ forgot \in BOOLEAN
    /\ failures \in 0..MaxFailures

\* create_rtsp_sess() has set every descriptor to -1.
Init ==
    /\ file = [fd \in Fds |-> Closed]
    /\ state = [s \in Sessions |-> "start"]
    /\ connects = 0
    /\ ep_fd = [s \in Sessions |-> NoFd] /\ rtsp_sd = [s \in Sessions |-> NoFd]
    /\ rtp_sd = [s \in Sessions |-> [m \in Media |-> NoFd]]
    /\ rtcp_sd = [s \in Sessions |-> [m \in Media |-> NoFd]]
    /\ rtp_port = [s \in Sessions |-> [m \in Media |-> NoPort]]
    /\ rtcp_port = [s \in Sessions |-> [m \in Media |-> NoPort]]
    /\ enable = [s \in Sessions |-> {}]
    /\ described = [s \in Sessions |-> {}]
    /\ asked = [s \in Sessions |-> NoRequest]
    /\ failed = [s \in Sessions |-> {}]
    /\ forgot = FALSE
    /\ failures = 0

-----------------------------------------------------------------------------
(* The session thread                                                      *)

\* destroy_rtsp_sess() closes two descriptors and frees the session.
Destroy(s) ==
    /\ file' = Closes(file, {rtsp_sd[s], ep_fd[s]})
    /\ forgot' = (forgot \/ \E m \in Media : {rtp_sd[s][m], rtcp_sd[s][m]} # {NoFd})
    /\ state' = [state EXCEPT ![s] = "ended"]
    /\ ep_fd' = [ep_fd EXCEPT ![s] = NoFd]
    /\ rtsp_sd' = [rtsp_sd EXCEPT ![s] = NoFd]
    /\ rtp_sd' = [rtp_sd EXCEPT ![s] = [m \in Media |-> NoFd]]
    /\ rtcp_sd' = [rtcp_sd EXCEPT ![s] = [m \in Media |-> NoFd]]
    /\ enable' = [enable EXCEPT ![s] = {}]
    /\ asked' = [asked EXCEPT ![s] = NoRequest]
    /\ rtp_port' = [rtp_port EXCEPT ![s] = [m \in Media |-> NoPort]]
    /\ rtcp_port' = [rtcp_port EXCEPT ![s] = [m \in Media |-> NoPort]]
    /\ described' = [described EXCEPT ![s] = {}]
    /\ failed' = [failed EXCEPT ![s] = {}]
    /\ UNCHANGED <<connects, failures>>

\* Every descriptor of the session.
Held(s) == ({ep_fd[s], rtsp_sd[s]} \cup {rtp_sd[s][m] : m \in Media}
                \cup {rtcp_sd[s][m] : m \in Media}) \ {NoFd}

\* Mutant: the descriptors of the RTCP sockets are not set to -1.
CleanupKeepsRtcp(s) ==
    /\ file' = Closes(file, Held(s))
    /\ ep_fd' = [ep_fd EXCEPT ![s] = NoFd]
    /\ rtsp_sd' = [rtsp_sd EXCEPT ![s] = NoFd]
    /\ rtp_sd' = [rtp_sd EXCEPT ![s] = [m \in Media |-> NoFd]]
    /\ enable' = [enable EXCEPT ![s] = {}]
    /\ state' = [state EXCEPT ![s] = "start"]
    /\ described' = [described EXCEPT ![s] = {}]
    /\ failed' = [failed EXCEPT ![s] = {}]
    /\ asked' = [asked EXCEPT ![s] = NoRequest]
    /\ UNCHANGED <<connects, rtcp_sd, rtp_port, rtcp_port, forgot, failures>>

\* Mutant: the UDP sockets are not closed.
CleanupClosesRtspOnly(s) ==
    /\ file' = Closes(file, {ep_fd[s], rtsp_sd[s]})
    /\ ep_fd' = [ep_fd EXCEPT ![s] = NoFd]
    /\ rtsp_sd' = [rtsp_sd EXCEPT ![s] = NoFd]
    /\ rtp_sd' = [rtp_sd EXCEPT ![s] = [m \in Media |-> NoFd]]
    /\ rtcp_sd' = [rtcp_sd EXCEPT ![s] = [m \in Media |-> NoFd]]
    /\ enable' = [enable EXCEPT ![s] = {}]
    /\ state' = [state EXCEPT ![s] = "start"]
    /\ described' = [described EXCEPT ![s] = {}]
    /\ failed' = [failed EXCEPT ![s] = {}]
    /\ asked' = [asked EXCEPT ![s] = NoRequest]
    /\ UNCHANGED <<connects, rtp_port, rtcp_port, forgot, failures>>

\* cleanup_before_reconn(); the ports keep their values.
Cleanup(s) ==
    /\ file' = Closes(file, Held(s))
    /\ ep_fd' = [ep_fd EXCEPT ![s] = NoFd]
    /\ rtsp_sd' = [rtsp_sd EXCEPT ![s] = NoFd]
    /\ rtp_sd' = [rtp_sd EXCEPT ![s] = [m \in Media |-> NoFd]]
    /\ rtcp_sd' = [rtcp_sd EXCEPT ![s] = [m \in Media |-> NoFd]]
    /\ enable' = [enable EXCEPT ![s] = {}]
    /\ state' = [state EXCEPT ![s] = "start"]
    /\ described' = [described EXCEPT ![s] = {}]
    /\ failed' = [failed EXCEPT ![s] = {}]
    /\ asked' = [asked EXCEPT ![s] = NoRequest]
    /\ UNCHANGED <<connects, rtp_port, rtcp_port, forgot, failures>>

\* epoll_create() and socket(); the connection is under way.
OpenSockets(s) ==
    /\ state[s] = "start" /\ connects < MaxConnects
    /\ Cardinality(Unused(file)) >= 2
    /\ LET ep == Min(Unused(file))
           withEp == Opens(file, File("epoll", s, NoPort))
       IN  /\ ep_fd' = [ep_fd EXCEPT ![s] = ep]
           /\ rtsp_sd' = [rtsp_sd EXCEPT ![s] = Min(Unused(withEp))]
           /\ file' = Opens(withEp, File("tcp", s, NoPort))
    /\ state' = [state EXCEPT ![s] = "connecting"]
    /\ connects' = connects + 1
    /\ UNCHANGED <<rtp_sd, rtcp_sd, rtp_port, rtcp_port, enable, described, asked, failed, forgot, failures>>

\* No descriptor is left for epoll_create() or socket(): the session ends.
OpenFails(s) ==
    /\ state[s] = "start" /\ connects < MaxConnects
    /\ Cardinality(Unused(file)) < 2
    /\ Destroy(s)

\* The connection is made, its socket watched, and the server has answered
\* OPTIONS and DESCRIBE.
Connected(s) ==
    /\ state[s] = "connecting"
    /\ file' = Watches(file, ep_fd[s], {rtsp_sd[s]})
    /\ state' = [state EXCEPT ![s] = "up"]
    /\ \E d \in (SUBSET Media) \ {{}} : described' = [described EXCEPT ![s] = d]
    /\ UNCHANGED <<connects, fds, rtp_port, rtcp_port, enable, asked, failed, forgot, failures>>

ConnectFails(s) == state[s] = "connecting" /\ Cleanup(s)

\* set_block_mode() or monitor_sd_event() fails.
ConnectAborts(s) == state[s] = "connecting" /\ Destroy(s)

\* single_step() returned -1: the server has gone, or sent an empty datagram.
Reconnect(s) == state[s] = "up" /\ Cleanup(s)

\* TEARDOWN has been sent: the loop exits with enable = 0.
SessionEnds(s) == state[s] = "up" /\ Destroy(s)

-----------------------------------------------------------------------------
(* SETUP                                                                   *)

IsEven(p) == p % 2 = 0

\* Mutant: always the next port.
NextPort(p) == p + 1

Neighbour(p) == IF IsEven(p) THEN p + 1 ELSE p - 1

\* The port of the second socket: the neighbour of the first, or any other if
\* that one is in use.
SecondPorts(first) ==
    IF Neighbour(first) \notin PortsInUse(file)
    THEN {Neighbour(first)}
    ELSE FreePorts(file) \ {first}

\* Mutant: the first socket is the RTP socket, whatever its port.
StoreFirstIsRtp(s, m, sds, ports, f) ==
    /\ rtp_port' = [rtp_port EXCEPT ![s][m] = ports[1]]
    /\ rtcp_port' = [rtcp_port EXCEPT ![s][m] = ports[2]]
    /\ rtp_sd' = [rtp_sd EXCEPT ![s][m] = sds[IF IsEven(f) THEN 1 ELSE 2]]
    /\ rtcp_sd' = [rtcp_sd EXCEPT ![s][m] = sds[IF IsEven(f) THEN 2 ELSE 1]]

\* The sockets and ports become those of RTP and RTCP; f is the first port.
Store(s, m, sds, ports, f) ==
    LET i == IF IsEven(f) THEN 1 ELSE 2
    IN  /\ rtp_sd' = [rtp_sd EXCEPT ![s][m] = sds[i]]
        /\ rtcp_sd' = [rtcp_sd EXCEPT ![s][m] = sds[3 - i]]
        /\ rtp_port' = [rtp_port EXCEPT ![s][m] = ports[i]]
        /\ rtcp_port' = [rtcp_port EXCEPT ![s][m] = ports[3 - i]]

Udp(s, port) == File("udp", s, port)

\* Both sockets are bound and watched.
TransportSetUp(s, m) ==
    /\ Cardinality(Unused(file)) >= 2
    /\ \E first \in FreePorts(file) : \E second \in SecondPorts(first) :
          LET withFirst == Opens(file, Udp(s, first))
              sds == <<Min(Unused(file)), Min(Unused(withFirst))>>
          IN  /\ Store(s, m, sds, <<first, second>>, first)
              /\ file' = Watches(Opens(withFirst, Udp(s, second)), ep_fd[s], {sds[1], sds[2]})
    /\ UNCHANGED <<failed, forgot, failures>>

\* Mutant: the sockets are not closed.
TransportUndoneOpen(s, m) ==
    /\ Cardinality(Unused(file)) >= 2
    /\ \E first \in FreePorts(file) :
          /\ file' = Watches(Opens(file, Udp(s, first)), ep_fd[s], {Min(Unused(file))})
          /\ rtp_port' = [rtp_port EXCEPT ![s][m] = first]
    /\ failed' = [failed EXCEPT ![s] = @ \cup {m}]
    /\ failures < MaxFailures /\ failures' = failures + 1
    /\ UNCHANGED <<rtp_sd, rtcp_sd, rtcp_port, forgot>>

\* set_block_mode(), monitor_sd_event() or getpeername() fails: both sockets
\* are closed, the new ports stay.
TransportUndone(s, m) ==
    /\ Cardinality(Unused(file)) >= 2
    /\ \E first \in FreePorts(file) : \E second \in SecondPorts(first) :
          LET i == IF IsEven(first) THEN 1 ELSE 2
          IN  /\ rtp_port' = [rtp_port EXCEPT ![s][m] = <<first, second>>[i]]
              /\ rtcp_port' = [rtcp_port EXCEPT ![s][m] = <<first, second>>[3 - i]]
    /\ rtp_sd' = [rtp_sd EXCEPT ![s][m] = NoFd]
    /\ rtcp_sd' = [rtcp_sd EXCEPT ![s][m] = NoFd]
    /\ failed' = [failed EXCEPT ![s] = @ \cup {m}]
    /\ failures < MaxFailures /\ failures' = failures + 1
    /\ UNCHANGED <<file, forgot>>

\* socket(), bind() or getsockname() fails: what is open already stays open, and
\* the ports keep the values of an earlier connection.
TransportFails(s, m) ==
    /\ \/ file' = file                                      \* first socket()
       \/ /\ Unused(file) # {}
          /\ \/ file' = Opens(file, Udp(s, NoPort))         \* first bind()
             \/ \E first \in FreePorts(file) :
                   LET withFirst == Opens(file, Udp(s, first))
                   IN  \/ file' = withFirst                 \* getsockname(), socket()
                       \/ /\ Unused(withFirst) # {}         \* second bind(), getsockname()
                          /\ \E second \in SecondPorts(first) \cup {NoPort} :
                                file' = Opens(withFirst, Udp(s, second))
    /\ rtp_sd' = [rtp_sd EXCEPT ![s][m] = NoFd]
    /\ rtcp_sd' = [rtcp_sd EXCEPT ![s][m] = NoFd]
    /\ failed' = [failed EXCEPT ![s] = @ \cup {m}]
    /\ failures < MaxFailures /\ failures' = failures + 1
    /\ forgot' = (forgot \/ file' # file)
    /\ UNCHANGED <<rtp_port, rtcp_port>>

\* send_method_setup() asks for the first medium that was not asked for, with
\* whatever ports are stored now: it does not look at what setup_transport()
\* returned.
SendSetup(s) ==
    /\ state[s] = "up" /\ asked[s] = NoRequest
    /\ described[s] \ enable[s] # {}
    /\ LET m == Min(described[s] \ enable[s])
       IN  /\ TransportSetUp(s, m) \/ TransportUndone(s, m) \/ TransportFails(s, m)
           /\ enable' = [enable EXCEPT ![s] = @ \cup {m}]
           /\ asked' = [asked EXCEPT ![s] = [media |-> m, rtp |-> rtp_port'[s][m],
                                             rtcp |-> rtcp_port'[s][m]]]
    /\ UNCHANGED <<state, connects, ep_fd, rtsp_sd, described>>

\* The server accepts or refuses.  When it accepts, it repeats the client's
\* ports and adds its own, which are stored with AnswersFor.
Answered(s) ==
    /\ state[s] = "up" /\ asked[s] # NoRequest
    /\ asked' = [asked EXCEPT ![s] = NoRequest]
    /\ UNCHANGED <<file, state, connects, fds, rtp_port, rtcp_port, enable, described,
                   failed, forgot, failures>>

\* Mutant: the first medium that was asked for.
AnswersForFirst(s, port) == Min(enable[s])

\* The medium run_rtsp_state_machine() stores the ports of an answer with: the
\* first that has the client port the answer repeats.
AnswersFor(s, port) == Min({m \in Media : rtp_port[s][m] = port})

Next == \E s \in Sessions :
    \/ OpenSockets(s) \/ OpenFails(s) \/ Connected(s) \/ ConnectFails(s) \/ ConnectAborts(s)
    \/ Reconnect(s) \/ SessionEnds(s)
    \/ SendSetup(s) \/ Answered(s)

Spec == Init /\ [][Next]_vars
-----------------------------------------------------------------------------

\* Where do_sd_handler() and handle_rtp_sd() take an event of a descriptor.
Handler(s, sd) ==
    IF sd = rtsp_sd[s] THEN <<"rtsp", NoMedium>>
    ELSE IF \E m \in Media : sd = rtp_sd[s][m]
         THEN <<"rtp", Min({m \in Media : sd = rtp_sd[s][m]})>>
    ELSE IF \E m \in Media : sd = rtcp_sd[s][m]
         THEN <<"rtcp", Max({m \in Media : sd = rtcp_sd[s][m]})>>
    ELSE <<"none", NoMedium>>

\* A descriptor a session holds is open, was opened by that session for that
\* purpose, and is held once, whatever failed before and however often the
\* session reconnected.  So close() in cleanup_before_reconn() and
\* destroy_rtsp_sess() never closes what belongs to another session
\* (rtsp_cli.c:159-194, 367-368, rtsp_method.c:226-227, 318-324).
HoldsItsOwn ==
    \A s \in Sessions :
        LET has(sd, kind, port) ==
                sd # NoFd => /\ file[sd].kind = kind /\ file[sd].of = s
                             /\ file[sd].port = port
            held == <<ep_fd[s], rtsp_sd[s], rtp_sd[s][Video], rtcp_sd[s][Video],
                      rtp_sd[s][Audio], rtcp_sd[s][Audio]>>
        IN  /\ has(ep_fd[s], "epoll", NoPort)
            /\ has(rtsp_sd[s], "tcp", NoPort)
            /\ \A m \in Media : /\ has(rtp_sd[s][m], "udp", rtp_port[s][m])
                                /\ has(rtcp_sd[s][m], "udp", rtcp_port[s][m])
            /\ \A i, j \in 1..6 : i # j /\ held[i] = held[j] => held[i] = NoFd

\* A descriptor is lost only where the code loses it: when setup_transport()
\* fails before it stores its sockets (rtsp_method.c:235-270), or when a
\* session with UDP sockets is destroyed (rtsp_cli.c:367-368).  A connection
\* that fails, at any point, and any number of reconnections lose none.
NothingLost ==
    ~forgot => \A fd \in Fds : file[fd] # Closed =>
                   \E s \in Sessions : file[fd].of = s /\ fd \in Held(s)

\* A socket of the session on this port is open, the session's epoll descriptor
\* watches it, and its events are handled as such.
Listens(s, handled, port) ==
    \E fd \in file[ep_fd[s]].watched :
        /\ file[fd].kind = "udp" /\ file[fd].of = s /\ file[fd].port = port
        /\ Handler(s, fd) = handled

\* Wherever a SETUP told the server to send a medium, there is an open, watched
\* socket of this session on each of the two ports, whose events are handled as
\* that medium's RTP and RTCP, from the request on and until the connection is
\* given up (rtsp_method.c:353-355, 198-212, sd_handler.c:214-223, 247-258). A
\* medium whose setup_transport() failed is told to the server all the same: no
\* event of the session is ever handled as one of it, whoever has its ports now.
\* And what the event loop can be told of is something the session handles: no
\* socket that was forgotten or left behind is in its epoll set.
AskedPortsListen ==
    \A s \in Sessions : ep_fd[s] # NoFd =>
        /\ \A m \in enable[s] \ failed[s] :
              /\ Listens(s, <<"rtp", m>>, rtp_port[s][m])
              /\ Listens(s, <<"rtcp", m>>, rtcp_port[s][m])
              /\ asked[s].media = m => /\ Listens(s, <<"rtp", m>>, asked[s].rtp)
                                       /\ Listens(s, <<"rtcp", m>>, asked[s].rtcp)
        /\ \A fd \in file[ep_fd[s]].watched :
              /\ Handler(s, fd)[1] # "none"
              /\ Handler(s, fd)[2] \notin failed[s]

\* The server's ports of a medium that has its sockets are never stored with
\* another one that has its own: it takes a medium without sockets, whose port
\* of an earlier connection the kernel has given out again, to be mistaken
\* for it (rtsp_cli.c:444-460).
AnswerFindsMedium ==
    \A s \in Sessions :
        LET live == enable[s] \ failed[s]
        IN  asked[s].media \in live =>
                AnswersFor(s, asked[s].rtp) \in {asked[s].media} \cup (Media \ live)
=============================================================================
