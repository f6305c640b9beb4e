------------------------- MODULE MediaSocketsProofs -------------------------
(***************************************************************************)
(* What MediaSockets keeps for any number of sessions, descriptors and     *)
(* ports, and for any order of connections, failures and reconnections:    *)
(* the types, who holds which descriptor, that none is lost but where the  *)
(* code loses it, that every port a SETUP named is listened to, and that   *)
(* an answer is taken for its medium.                                      *)
(***************************************************************************)
EXTENDS MediaSockets, Integers, NaturalsInduction, WellFoundedInduction, FiniteSetTheorems, TLAPS

-----------------------------------------------------------------------------
(* Sets of natural numbers                                                 *)

\* A set of natural numbers has a least element.
LEMMA LeastNumber ==
  ASSUME NEW S \in SUBSET Nat, S # {}
  PROVE  \E x \in S : \A y \in S : x <= y
<1> DEFINE R == OpToRel(<, Nat)
<1>1. IsWellFoundedOn(R, Nat)
  BY NatLessThanWellFounded
<1>2. \A x, y \in Nat : <<y, x>> \in R <=> y < x
  BY DEF OpToRel
<1> HIDE DEF R
<1>3. PICK x \in S : \A y \in S : ~ (<<y, x>> \in R)
  BY <1>1, WFMin, Zenon
<1>4. \A y \in S : ~ (y < x)
  BY <1>2, <1>3, Zenon
<1>5. \A y \in S : x <= y
  BY <1>4
<1> QED BY <1>5

(* The inductive invariant, in the parts the proofs disturb one by one.    *)

FileRecord == [kind : {"closed", "epoll", "tcp", "udp"}, of : Sessions \cup {"nobody"},
               port : Ports \cup {NoPort}, watched : SUBSET Fds]

FileTable == [Fds -> FileRecord]

\* What a descriptor that is held stands for.
Is(sd, kind, s, port) ==
    sd # NoFd => file[sd].kind = kind /\ file[sd].of = s /\ file[sd].port = port

OwnFiles ==
    \A s \in Sessions :
        /\ Is(ep_fd[s], "epoll", s, NoPort)
        /\ Is(rtsp_sd[s], "tcp", s, NoPort)
        /\ \A m \in Media : /\ Is(rtp_sd[s][m], "udp", s, rtp_port[s][m])
                            /\ Is(rtcp_sd[s][m], "udp", s, rtcp_port[s][m])

\* The UDP descriptors of a session are different ones; those of other kinds
\* differ by what OwnFiles says of them.
HeldOnce ==
    \A s \in Sessions : \A m, n \in Media :
        /\ rtp_sd[s][m] # NoFd => rtp_sd[s][m] # rtcp_sd[s][n]
        /\ m # n /\ rtp_sd[s][m] # NoFd => rtp_sd[s][m] # rtp_sd[s][n]
        /\ m # n /\ rtcp_sd[s][m] # NoFd => rtcp_sd[s][m] # rtcp_sd[s][n]

\* What a session holds follows from how far it is.
Stages ==
    \A s \in Sessions :
        /\ (ep_fd[s] # NoFd) <=> state[s] \in {"connecting", "up"}
        /\ (rtsp_sd[s] # NoFd) <=> state[s] \in {"connecting", "up"}
        /\ state[s] # "up" => enable[s] = {} /\ asked[s] = NoRequest
        /\ \A m \in Media :
              /\ rtp_sd[s][m] # NoFd => m \in enable[s]
              /\ rtcp_sd[s][m] # NoFd => m \in enable[s]

\* The kernel binds a port once.
OnePort ==
    \A fd, gd \in Fds :
        file[fd].port # NoPort /\ file[fd].port = file[gd].port => fd = gd

\* A medium whose setup_transport() did not fail has its sockets, on ports; one
\* whose setup_transport() failed has none.
LiveMedia ==
    \A s \in Sessions :
        /\ \A m \in enable[s] \ failed[s] :
              /\ rtp_sd[s][m] # NoFd /\ rtcp_sd[s][m] # NoFd
              /\ rtp_port[s][m] # NoPort /\ rtcp_port[s][m] # NoPort
        /\ \A m \in failed[s] :
              m \in enable[s] /\ rtp_sd[s][m] = NoFd /\ rtcp_sd[s][m] = NoFd

\* What the descriptor of epoll watches.
Watched ==
    \A s \in Sessions : ep_fd[s] # NoFd =>
        /\ \A fd \in file[ep_fd[s]].watched :
              fd = rtsp_sd[s] \/ \E m \in Media : fd = rtp_sd[s][m] \/ fd = rtcp_sd[s][m]
        /\ \A m \in enable[s] \ failed[s] :
              {rtp_sd[s][m], rtcp_sd[s][m]} \subseteq file[ep_fd[s]].watched

\* The SETUP that waits for its answer named the ports stored now.
AskedNow ==
    \A s \in Sessions : asked[s] # NoRequest =>
        /\ asked[s].media \in enable[s]
        /\ asked[s].rtp = rtp_port[s][asked[s].media]
        /\ asked[s].rtcp = rtcp_port[s][asked[s].media]

SocketInv ==
    /\ TypeOK
    /\ OwnFiles /\ HeldOnce /\ Stages /\ OnePort /\ LiveMedia /\ Watched /\ AskedNow
    /\ NothingLost

-----------------------------------------------------------------------------
(* The operating system                                                    *)

\* A set of natural numbers has a least element, so Min() is one of them.
LEMMA MinInSet ==
    ASSUME NEW S \in SUBSET Nat, S # {}
    PROVE  Min(S) \in S /\ \A x \in S : Min(S) <= x
  BY LeastNumber DEF Min

\* Min() of media is one of the media.
LEMMA MinMedium ==
    ASSUME NEW S \in SUBSET Media, S # {}
    PROVE  Min(S) \in S /\ Min(S) \in Media
<1> S \in SUBSET Nat
  BY DEF Media, Video, Audio
<1> QED
  BY MinInSet

\* The descriptors that are free are finitely many.
LEMMA UnusedFinite ==
    ASSUME NEW files \in FileTable
    PROVE  IsFiniteSet(Unused(files)) /\ Unused(files) \in SUBSET Nat
<1>1. IsFiniteSet(Fds)
  BY FS_Interval, SocketAssumption DEF Fds
<1> QED
  BY <1>1, FS_Subset, SocketAssumption DEF Unused, Fds

\* A descriptor that is opened was free before, and is the only one that
\* changes.
LEMMA OpensOne ==
    ASSUME NEW files \in FileTable, Unused(files) # {},
           NEW f \in FileRecord, f # Closed,
           NEW fd, fd = Min(Unused(files))
    PROVE  /\ fd \in Fds /\ fd # NoFd /\ files[fd] = Closed
           /\ Opens(files, f) \in FileTable
           /\ Opens(files, f)[fd] = f
           /\ \A x \in Fds \ {fd} : Opens(files, f)[x] = files[x]
           /\ Unused(Opens(files, f)) = Unused(files) \ {fd}
<1>1. fd \in Unused(files)
  BY MinInSet, UnusedFinite
<1>2. fd \in Fds /\ files[fd] = Closed /\ fd # NoFd
  BY <1>1, SocketAssumption DEF Unused, Fds, NoFd
<1>3. Opens(files, f) = [files EXCEPT ![fd] = f]
  BY DEF Opens
<1>4. Opens(files, f) \in FileTable
  BY <1>2, <1>3 DEF FileTable
<1>5. Opens(files, f)[fd] = f /\ \A x \in Fds \ {fd} : Opens(files, f)[x] = files[x]
  BY <1>2, <1>3 DEF FileTable
<1>6. Unused(Opens(files, f)) = Unused(files) \ {fd}
  BY <1>2, <1>5 DEF Unused
<1> QED
  BY <1>2, <1>4, <1>5, <1>6

\* When two descriptors are free, there is a second one after the first.
LEMMA TwoUnused ==
    ASSUME NEW files \in FileTable, Cardinality(Unused(files)) >= 2
    PROVE  /\ Unused(files) # {}
           /\ \A x : Unused(files) \ {x} # {}
<1>1. IsFiniteSet(Unused(files))
  BY UnusedFinite
<1>2. Unused(files) # {}
  BY FS_EmptySet
<1>3. ASSUME NEW x, Unused(files) \ {x} = {}
      PROVE  FALSE
  <2>1. Unused(files) = {x}
    BY <1>2, <1>3
  <2>2. Cardinality(Unused(files)) = 1
    BY <2>1, FS_Singleton
  <2> QED
    BY <2>2
<1> QED
  BY <1>2, <1>3

\* close() leaves what it does not close as it was, but for what is watched,
\* and what it closes is in no epoll set.
LEMMA ClosesSome ==
    ASSUME NEW files \in FileTable, NEW gone
    PROVE  /\ Closes(files, gone) \in FileTable
           /\ \A x \in Fds :
                 /\ x \in gone => Closes(files, gone)[x] = Closed
                 /\ x \notin gone =>
                       /\ Closes(files, gone)[x].kind = files[x].kind
                       /\ Closes(files, gone)[x].of = files[x].of
                       /\ Closes(files, gone)[x].port = files[x].port
                       /\ Closes(files, gone)[x].watched = files[x].watched \ gone
                 /\ Closes(files, gone)[x] # Closed => x \notin gone /\ files[x] # Closed
<1> Closed \in FileRecord
  BY DEF Closed, FileRecord
<1>1. \A x \in Fds : Closes(files, gone)[x] =
          IF x \in gone THEN Closed ELSE [files[x] EXCEPT !.watched = @ \ gone]
  BY DEF Closes
<1>2. \A x \in Fds : files[x] \in FileRecord
  BY DEF FileTable
<1>3. ASSUME NEW x \in Fds, x \notin gone
      PROVE  /\ Closes(files, gone)[x] \in FileRecord
             /\ Closes(files, gone)[x].kind = files[x].kind
             /\ Closes(files, gone)[x].of = files[x].of
             /\ Closes(files, gone)[x].port = files[x].port
             /\ Closes(files, gone)[x].watched = files[x].watched \ gone
  <2>1. Closes(files, gone)[x] = [files[x] EXCEPT !.watched = files[x].watched \ gone]
    BY <1>1, <1>3
  <2> QED
    BY <1>2, <2>1 DEF FileRecord
<1>4. ASSUME NEW x \in Fds, x \notin gone, files[x] = Closed
      PROVE  Closes(files, gone)[x] = Closed
  BY <1>1, <1>4 DEF Closed
<1>5. Closes(files, gone) \in FileTable
  BY <1>1, <1>3 DEF FileTable, Closes
<1> QED
  BY <1>1, <1>3, <1>4, <1>5

\* epoll_ctl() changes what one descriptor watches and nothing else.
LEMMA WatchesSome ==
    ASSUME NEW files \in FileTable, NEW ep \in Fds, NEW new \in SUBSET Fds
    PROVE  /\ Watches(files, ep, new) \in FileTable
           /\ Watches(files, ep, new)[ep].watched = files[ep].watched \cup new
           /\ \A x \in Fds :
                 /\ Watches(files, ep, new)[x].kind = files[x].kind
                 /\ Watches(files, ep, new)[x].of = files[x].of
                 /\ Watches(files, ep, new)[x].port = files[x].port
                 /\ x # ep => Watches(files, ep, new)[x] = files[x]
<1>1. \A x \in Fds : files[x] \in FileRecord
  BY DEF FileTable
<1>2. [files[ep] EXCEPT !.watched = @ \cup new] \in FileRecord
  BY <1>1 DEF FileRecord
<1>3. Watches(files, ep, new) \in FileTable
  BY <1>2 DEF Watches, FileTable
<1>4. Watches(files, ep, new)[ep] = [files[ep] EXCEPT !.watched = @ \cup new]
  BY DEF Watches, FileTable
<1>5. \A x \in Fds : x # ep => Watches(files, ep, new)[x] = files[x]
  BY DEF Watches, FileTable
<1> QED
  BY <1>1, <1>3, <1>4, <1>5 DEF FileRecord

\* The second port of a pair is free too, and another one.
LEMMA SecondPortFree ==
    ASSUME NEW first \in FreePorts(file), NEW second \in SecondPorts(first)
    PROVE  second \in FreePorts(file) /\ second # first
<1>1. first \in Ports
  BY DEF FreePorts
<1>2. Neighbour(first) \in Ports /\ Neighbour(first) # first
  BY <1>1, SocketAssumption DEF Neighbour, IsEven, Ports
<1> QED
  BY <1>2 DEF SecondPorts, FreePorts

\* A record of the file table.
LEMMA FileType ==
    ASSUME NEW kind \in {"epoll", "tcp", "udp"}, NEW s \in Sessions,
           NEW port \in Ports \cup {NoPort}
    PROVE  /\ File(kind, s, port) \in FileRecord
           /\ File(kind, s, port).kind = kind /\ File(kind, s, port).of = s
           /\ File(kind, s, port).port = port /\ File(kind, s, port).watched = {}
           /\ File(kind, s, port) # Closed
  BY DEF File, FileRecord, Closed

\* Opening a descriptor for a port nobody has keeps the ports apart.
LEMMA OpensKeepsPorts ==
    ASSUME NEW files \in FileTable, Unused(files) # {},
           NEW s \in Sessions, NEW kind \in {"epoll", "tcp", "udp"},
           NEW port \in Ports \cup {NoPort},
           port \notin PortsInUse(files),
           \A fd, gd \in Fds :
               files[fd].port # NoPort /\ files[fd].port = files[gd].port => fd = gd
    PROVE  LET opened == Opens(files, File(kind, s, port))
           IN  \A fd, gd \in Fds :
                   opened[fd].port # NoPort /\ opened[fd].port = opened[gd].port => fd = gd
<1> DEFINE opened == Opens(files, File(kind, s, port))
           new == Min(Unused(files))
<1>1. new \in Fds /\ opened[new] = File(kind, s, port)
      /\ \A x \in Fds \ {new} : opened[x] = files[x]
  BY OpensOne, FileType
<1>2. opened[new].port = port
  BY <1>1, FileType
<1>3. \A x \in Fds : files[x].port # NoPort => files[x].port # port
  BY DEF PortsInUse
<1> HIDE DEF opened, new
<1>4. \A fd, gd \in Fds :
          opened[fd].port # NoPort /\ opened[fd].port = opened[gd].port => fd = gd
  BY <1>1, <1>2, <1>3
<1> QED
  BY <1>4 DEF opened

-----------------------------------------------------------------------------
(* The initial state                                                       *)

\* At the start no descriptor is open and every session is in its first stage.
LEMMA InitSocketInv == Init => SocketInv
<1> SUFFICES ASSUME Init PROVE SocketInv
  OBVIOUS
<1> USE DEF Init
<1>1. Closed \in FileRecord
  BY DEF Closed, FileRecord
<1>2. TypeOK
  <2>1. file \in FileTable
    BY <1>1 DEF FileTable
  <2>2. asked \in [Sessions -> [media : Media \cup {NoMedium}, rtp : Ports \cup {NoPort},
                               rtcp : Ports \cup {NoPort}]]
    BY DEF NoRequest
  <2>3. /\ rtp_sd \in [Sessions -> [Media -> Fds \cup {NoFd}]]
        /\ rtcp_sd \in [Sessions -> [Media -> Fds \cup {NoFd}]]
        /\ rtp_port \in [Sessions -> [Media -> Ports \cup {NoPort}]]
        /\ rtcp_port \in [Sessions -> [Media -> Ports \cup {NoPort}]]
    OBVIOUS
  <2>4. connects \in 0..MaxConnects /\ failures \in 0..MaxFailures
    BY SocketAssumption
  <2>5. forgot \in BOOLEAN
    OBVIOUS
  <2> QED
    BY <2>1, <2>2, <2>3, <2>4, <2>5 DEF TypeOK, FileTable, FileRecord
<1>3. OwnFiles /\ HeldOnce /\ Stages
  BY DEF OwnFiles, HeldOnce, Stages, Is, NoRequest, Media
<1>4. OnePort /\ LiveMedia /\ Watched /\ AskedNow
  BY DEF OnePort, LiveMedia, Watched, AskedNow, Closed
<1>5. NothingLost
  BY DEF NothingLost
<1> QED
  BY <1>2, <1>3, <1>4, <1>5 DEF SocketInv

-----------------------------------------------------------------------------
(* The session thread                                                      *)

\* What Cleanup and Destroy have in common: the session closes some of what
\* it holds and forgets all of it.
Release(s, gone, next) ==
    /\ gone \subseteq Held(s) \cup {NoFd} /\ {ep_fd[s], rtsp_sd[s]} \subseteq gone
    /\ file' = Closes(file, gone)
    /\ state' = [state EXCEPT ![s] = next]
    /\ ep_fd' = [ep_fd EXCEPT ![s] = NoFd]
    /\ rtsp_sd' = [rtsp_sd EXCEPT ![s] = NoFd]
    /\ rtp_sd' = [rtp_sd EXCEPT ![s] = [m \in Media |-> NoFd]]
    /\ rtcp_sd' = [rtcp_sd EXCEPT ![s] = [m \in Media |-> NoFd]]
    /\ enable' = [enable EXCEPT ![s] = {}]
    /\ asked' = [asked EXCEPT ![s] = NoRequest]
    /\ described' = [described EXCEPT ![s] = {}]
    /\ failed' = [failed EXCEPT ![s] = {}]
    /\ rtp_port' \in [Sessions -> [Media -> Ports \cup {NoPort}]]
    /\ rtcp_port' \in [Sessions -> [Media -> Ports \cup {NoPort}]]
    /\ \A t \in Sessions \ {s} : rtp_port'[t] = rtp_port[t] /\ rtcp_port'[t] = rtcp_port[t]
    /\ forgot' \in BOOLEAN
    /\ (~forgot' => ~forgot /\ Held(s) \subseteq gone)
    /\ UNCHANGED <<connects, failures>>

\* cleanup_before_reconn() closes all that the session holds and goes back to the start.
LEMMA CleanupReleases ==
    ASSUME SocketInv, NEW s \in Sessions, Cleanup(s), state[s] \in {"connecting", "up"}
    PROVE  Release(s, Held(s), "start")
<1>1. ep_fd[s] # NoFd /\ rtsp_sd[s] # NoFd
  BY DEF SocketInv, Stages
<1>2. {ep_fd[s], rtsp_sd[s]} \subseteq Held(s)
  BY <1>1 DEF Held
<1> QED
  BY <1>2 DEF Cleanup, Release, SocketInv, TypeOK

\* destroy_rtsp_sess() closes rtsp_sd and ep_fd only; what else the session held is forgot.
LEMMA DestroyReleases ==
    ASSUME SocketInv, NEW s \in Sessions, Destroy(s)
    PROVE  Release(s, {rtsp_sd[s], ep_fd[s]}, "ended")
<1> DEFINE gone == {rtsp_sd[s], ep_fd[s]}
<1>1. gone \subseteq Held(s) \cup {NoFd}
  BY DEF Held
<1>2. forgot' \in BOOLEAN
  BY DEF Destroy, SocketInv, TypeOK
<1>3. ASSUME ~forgot' PROVE ~forgot /\ Held(s) \subseteq gone
  BY <1>3 DEF Destroy, Held
<1>4. /\ rtp_port' \in [Sessions -> [Media -> Ports \cup {NoPort}]]
      /\ rtcp_port' \in [Sessions -> [Media -> Ports \cup {NoPort}]]
  BY DEF Destroy, SocketInv, TypeOK
<1>5. \A t \in Sessions \ {s} : rtp_port'[t] = rtp_port[t] /\ rtcp_port'[t] = rtcp_port[t]
  BY DEF Destroy, SocketInv, TypeOK
<1> QED
  BY <1>1, <1>2, <1>3, <1>4, <1>5 DEF Destroy, Release

\* What another session holds is not closed.
LEMMA HeldByOne ==
    ASSUME SocketInv, NEW s \in Sessions, NEW t \in Sessions, s # t
    PROVE  Held(s) \cap Held(t) = {}
<1>1. \A fd \in Held(s) : file[fd].of = s
  BY DEF SocketInv, OwnFiles, Is, Held
<1>2. \A fd \in Held(t) : file[fd].of = t
  BY DEF SocketInv, OwnFiles, Is, Held
<1> QED
  BY <1>1, <1>2

\* Closing some of what one session holds keeps the invariant of all of them.
LEMMA StepRelease ==
    ASSUME SocketInv, NEW s \in Sessions, NEW gone, NEW next \in {"start", "ended"},
           Release(s, gone, next)
    PROVE  SocketInv'
<1> USE DEF Release
<1>1. TypeOK /\ file \in FileTable
  BY DEF SocketInv, TypeOK, FileTable, FileRecord
<1>2. file' \in FileTable
  BY <1>1, ClosesSome
<1>3. TypeOK'
  BY <1>1, <1>2 DEF TypeOK, FileTable, FileRecord, NoRequest
<1>4. ASSUME NEW t \in Sessions \ {s}
      PROVE  /\ ep_fd'[t] = ep_fd[t] /\ rtsp_sd'[t] = rtsp_sd[t]
             /\ rtp_sd'[t] = rtp_sd[t] /\ rtcp_sd'[t] = rtcp_sd[t]
             /\ rtp_port'[t] = rtp_port[t] /\ rtcp_port'[t] = rtcp_port[t]
             /\ enable'[t] = enable[t] /\ asked'[t] = asked[t] /\ failed'[t] = failed[t]
             /\ state'[t] = state[t] /\ Held(t)' = Held(t)
  BY <1>1, <1>4 DEF TypeOK, Held
<1>5. /\ ep_fd'[s] = NoFd /\ rtsp_sd'[s] = NoFd
      /\ \A m \in Media : rtp_sd'[s][m] = NoFd /\ rtcp_sd'[s][m] = NoFd
      /\ enable'[s] = {} /\ asked'[s] = NoRequest /\ failed'[s] = {} /\ state'[s] = next
  BY <1>1 DEF TypeOK
<1>6. \A t \in Sessions \ {s} : \A fd \in Held(t) : fd \in Fds /\ fd \notin gone
  <2> SUFFICES ASSUME NEW t \in Sessions \ {s}, NEW fd \in Held(t)
               PROVE  fd \in Fds /\ fd \notin gone
    OBVIOUS
  <2>1. fd \in Fds /\ fd # NoFd
    BY <1>1 DEF TypeOK, Held
  <2>2. fd \notin Held(s)
    BY HeldByOne
  <2> QED
    BY <2>1, <2>2
<1>7. \A t \in Sessions \ {s} : \A fd \in Held(t) :
          /\ file'[fd].kind = file[fd].kind /\ file'[fd].of = file[fd].of
          /\ file'[fd].port = file[fd].port
          /\ file'[fd].watched = file[fd].watched \ gone
  BY <1>1, <1>6, ClosesSome
<1>8. ASSUME NEW t \in Sessions \ {s}
      PROVE  /\ ep_fd[t] # NoFd => ep_fd[t] \in Held(t)
             /\ rtsp_sd[t] # NoFd => rtsp_sd[t] \in Held(t)
             /\ \A m \in Media : /\ rtp_sd[t][m] # NoFd => rtp_sd[t][m] \in Held(t)
                                 /\ rtcp_sd[t][m] # NoFd => rtcp_sd[t][m] \in Held(t)
  BY DEF Held
<1>9. OwnFiles'
  <2> SUFFICES ASSUME NEW t \in Sessions
               PROVE  /\ Is(ep_fd[t], "epoll", t, NoPort)'
                      /\ Is(rtsp_sd[t], "tcp", t, NoPort)'
                      /\ \A m \in Media : /\ Is(rtp_sd[t][m], "udp", t, rtp_port[t][m])'
                                          /\ Is(rtcp_sd[t][m], "udp", t, rtcp_port[t][m])'
    BY DEF OwnFiles
  <2>1. CASE t = s
    BY <1>5, <2>1 DEF Is
  <2>2. CASE t # s
    <3>1. /\ Is(ep_fd[t], "epoll", t, NoPort) /\ Is(rtsp_sd[t], "tcp", t, NoPort)
          /\ \A m \in Media : /\ Is(rtp_sd[t][m], "udp", t, rtp_port[t][m])
                              /\ Is(rtcp_sd[t][m], "udp", t, rtcp_port[t][m])
      BY DEF SocketInv, OwnFiles
    <3>2. \A fd \in Held(t) : /\ file'[fd].kind = file[fd].kind
                              /\ file'[fd].of = file[fd].of
                              /\ file'[fd].port = file[fd].port
      BY <1>7, <2>2
    <3> HIDE DEF Release
    <3>3. Is(ep_fd[t], "epoll", t, NoPort)' /\ Is(rtsp_sd[t], "tcp", t, NoPort)'
      BY <1>4, <1>8, <2>2, <3>1, <3>2 DEF Is
    <3>4. ASSUME NEW m \in Media
          PROVE  /\ Is(rtp_sd[t][m], "udp", t, rtp_port[t][m])'
                 /\ Is(rtcp_sd[t][m], "udp", t, rtcp_port[t][m])'
      BY <1>4, <1>8, <2>2, <3>1, <3>2 DEF Is
    <3> QED
      BY <3>3, <3>4
  <2> QED
    BY <2>1, <2>2
<1>10. HeldOnce'
  BY <1>4, <1>5 DEF SocketInv, HeldOnce
<1>11. Stages'
  BY <1>4, <1>5 DEF SocketInv, Stages
<1>12. OnePort'
  <2>1. \A x \in Fds : file'[x].port # NoPort => file'[x].port = file[x].port
    BY <1>1, ClosesSome DEF Closed
  <2> QED
    BY <2>1 DEF SocketInv, OnePort
<1>13. LiveMedia'
  BY <1>4, <1>5 DEF SocketInv, LiveMedia
<1>14. Watched'
  <2> SUFFICES ASSUME NEW t \in Sessions, ep_fd'[t] # NoFd
               PROVE  /\ \A fd \in file'[ep_fd'[t]].watched :
                            fd = rtsp_sd'[t] \/ \E m \in Media : fd = rtp_sd'[t][m] \/ fd = rtcp_sd'[t][m]
                      /\ \A m \in enable'[t] \ failed'[t] :
                            {rtp_sd'[t][m], rtcp_sd'[t][m]} \subseteq file'[ep_fd'[t]].watched
    BY DEF Watched
  <2>1. t \in Sessions \ {s}
    BY <1>5
  <2>2. file'[ep_fd[t]].watched = file[ep_fd[t]].watched \ gone
    BY <1>4, <1>7, <1>8, <2>1
  <2>3. \A m \in enable[t] \ failed[t] : {rtp_sd[t][m], rtcp_sd[t][m]} \cap gone = {}
    <3> SUFFICES ASSUME NEW m \in enable[t] \ failed[t]
                 PROVE  rtp_sd[t][m] \notin gone /\ rtcp_sd[t][m] \notin gone
      OBVIOUS
    <3>1. m \in Media
      BY <1>1 DEF TypeOK
    <3>2. rtp_sd[t][m] # NoFd /\ rtcp_sd[t][m] # NoFd
      BY DEF SocketInv, LiveMedia
    <3> QED
      BY <1>6, <1>8, <2>1, <3>1, <3>2
  <2>4. /\ \A fd \in file[ep_fd[t]].watched :
              fd = rtsp_sd[t] \/ \E m \in Media : fd = rtp_sd[t][m] \/ fd = rtcp_sd[t][m]
        /\ \A m \in enable[t] \ failed[t] :
              {rtp_sd[t][m], rtcp_sd[t][m]} \subseteq file[ep_fd[t]].watched
    BY <1>4, <2>1 DEF SocketInv, Watched
  <2>5. file'[ep_fd'[t]].watched = file[ep_fd[t]].watched \ gone
    BY <1>4, <2>1, <2>2
  <2>6. \A m \in enable[t] \ failed[t] :
              {rtp_sd[t][m], rtcp_sd[t][m]} \subseteq file[ep_fd[t]].watched \ gone
    BY <2>3, <2>4
  <2> QED
    BY <1>4, <2>1, <2>4, <2>5, <2>6
<1>15. AskedNow'
  BY <1>4, <1>5 DEF SocketInv, AskedNow
<1>16. NothingLost'
  <2> SUFFICES ASSUME ~forgot', NEW fd \in Fds, file'[fd] # Closed
               PROVE  \E t \in Sessions : file'[fd].of = t /\ fd \in Held(t)'
    BY DEF NothingLost
  <2>1. fd \notin gone /\ file[fd] # Closed /\ file'[fd].of = file[fd].of
    BY <1>1, ClosesSome
  <2>2. PICK t \in Sessions : file[fd].of = t /\ fd \in Held(t)
    BY <2>1 DEF SocketInv, NothingLost
  <2>3. t # s
    BY <2>1, <2>2
  <2> QED
    BY <1>4, <2>1, <2>2, <2>3
<1> QED
  BY <1>3, <1>9, <1>10, <1>11, <1>12, <1>13, <1>14, <1>15, <1>16 DEF SocketInv

\* connect_server() opens two descriptors of a session that has none.
LEMMA StepOpenSockets ==
    ASSUME SocketInv, NEW s \in Sessions, OpenSockets(s)
    PROVE  SocketInv'
<1> DEFINE ep == Min(Unused(file))
           withEp == Opens(file, File("epoll", s, NoPort))
           sd == Min(Unused(withEp))
           withSd == Opens(withEp, File("tcp", s, NoPort))
<1>1. TypeOK /\ file \in FileTable
  BY DEF SocketInv, TypeOK, FileTable, FileRecord
<1>2. Unused(file) # {} /\ Unused(file) \ {ep} # {}
  BY <1>1, TwoUnused DEF OpenSockets
<1>3. /\ ep \in Fds /\ ep # NoFd /\ file[ep] = Closed
      /\ withEp \in FileTable /\ withEp[ep] = File("epoll", s, NoPort)
      /\ \A x \in Fds \ {ep} : withEp[x] = file[x]
      /\ Unused(withEp) = Unused(file) \ {ep}
  BY <1>1, <1>2, FileType, OpensOne
<1>4. /\ sd \in Fds /\ sd # NoFd /\ withEp[sd] = Closed
      /\ withSd \in FileTable /\ withSd[sd] = File("tcp", s, NoPort)
      /\ \A x \in Fds \ {sd} : withSd[x] = withEp[x]
  BY <1>2, <1>3, FileType, OpensOne
<1>5. /\ file' = withSd /\ ep_fd' = [ep_fd EXCEPT ![s] = ep]
      /\ rtsp_sd' = [rtsp_sd EXCEPT ![s] = sd]
      /\ state' = [state EXCEPT ![s] = "connecting"] /\ state[s] = "start"
      /\ connects < MaxConnects /\ connects' = connects + 1
      /\ UNCHANGED <<rtp_sd, rtcp_sd, rtp_port, rtcp_port, enable, described, asked,
                     failed, forgot, failures>>
  BY DEF OpenSockets
<1> HIDE DEF ep, withEp, sd, withSd
<1>6. sd # ep
  BY <1>3, <1>4, FileType
<1>7. /\ file' \in FileTable
      /\ file'[ep].kind = "epoll" /\ file'[ep].of = s /\ file'[ep].port = NoPort
      /\ file'[ep].watched = {}
      /\ file'[sd].kind = "tcp" /\ file'[sd].of = s /\ file'[sd].port = NoPort
      /\ file[ep] = Closed /\ file[sd] = Closed
      /\ \A x \in Fds \ {ep, sd} : file'[x] = file[x]
  BY <1>3, <1>4, <1>5, <1>6, FileType
<1>8. TypeOK'
  <2>1. connects' \in 0..MaxConnects
    BY <1>1, <1>5, SocketAssumption DEF TypeOK
  <2> QED
    BY <1>1, <1>3, <1>4, <1>5, <1>7, <2>1 DEF TypeOK, FileTable, FileRecord
<1>9. /\ ep_fd'[s] = ep /\ rtsp_sd'[s] = sd /\ state'[s] = "connecting"
      /\ \A t \in Sessions \ {s} : /\ ep_fd'[t] = ep_fd[t] /\ rtsp_sd'[t] = rtsp_sd[t]
                                   /\ state'[t] = state[t]
  BY <1>1, <1>5 DEF TypeOK
<1>10. \A t \in Sessions : \A fd \in Held(t) :
          fd \in Fds /\ fd # ep /\ fd # sd /\ file'[fd] = file[fd]
  <2> SUFFICES ASSUME NEW t \in Sessions, NEW fd \in Held(t)
               PROVE  fd \in Fds /\ fd # ep /\ fd # sd /\ file'[fd] = file[fd]
    OBVIOUS
  <2>1. fd \in Fds
    BY <1>1 DEF TypeOK, Held
  <2>2. file[fd].kind # "closed"
    BY DEF SocketInv, OwnFiles, Is, Held
  <2> QED
    BY <1>7, <2>1, <2>2 DEF Closed
<1>11. ep_fd[s] = NoFd /\ rtsp_sd[s] = NoFd /\ enable[s] = {}
       /\ \A m \in Media : rtp_sd[s][m] = NoFd /\ rtcp_sd[s][m] = NoFd
  BY <1>5 DEF SocketInv, Stages
<1>12. OwnFiles'
  <2> SUFFICES ASSUME NEW t \in Sessions
               PROVE  /\ Is(ep_fd[t], "epoll", t, NoPort)'
                      /\ Is(rtsp_sd[t], "tcp", t, NoPort)'
                      /\ \A m \in Media : /\ Is(rtp_sd[t][m], "udp", t, rtp_port[t][m])'
                                          /\ Is(rtcp_sd[t][m], "udp", t, rtcp_port[t][m])'
    BY DEF OwnFiles
  <2>1. /\ Is(ep_fd[t], "epoll", t, NoPort) /\ Is(rtsp_sd[t], "tcp", t, NoPort)
        /\ \A m \in Media : /\ Is(rtp_sd[t][m], "udp", t, rtp_port[t][m])
                            /\ Is(rtcp_sd[t][m], "udp", t, rtcp_port[t][m])
    BY DEF SocketInv, OwnFiles
  <2>2. \A m \in Media : /\ Is(rtp_sd[t][m], "udp", t, rtp_port[t][m])'
                         /\ Is(rtcp_sd[t][m], "udp", t, rtcp_port[t][m])'
    BY <1>5, <1>10, <2>1 DEF Is, Held
  <2>3. Is(ep_fd[t], "epoll", t, NoPort)' /\ Is(rtsp_sd[t], "tcp", t, NoPort)'
    <3>1. CASE t = s
      BY <1>7, <1>9, <3>1 DEF Is
    <3>2. CASE t # s
      BY <1>9, <1>10, <2>1, <3>2 DEF Is, Held
    <3> QED
      BY <3>1, <3>2
  <2> QED
    BY <2>2, <2>3
<1>13. HeldOnce' /\ LiveMedia' /\ AskedNow'
  BY <1>5 DEF SocketInv, HeldOnce, LiveMedia, AskedNow
<1>14. Stages'
  BY <1>3, <1>4, <1>5, <1>9 DEF SocketInv, Stages
<1>15. OnePort'
  BY <1>7 DEF SocketInv, OnePort
<1>16. Watched'
  <2> SUFFICES ASSUME NEW t \in Sessions, ep_fd'[t] # NoFd
               PROVE  /\ \A fd \in file'[ep_fd'[t]].watched :
                            fd = rtsp_sd'[t] \/ \E m \in Media : fd = rtp_sd[t][m] \/ fd = rtcp_sd[t][m]
                      /\ \A m \in enable[t] \ failed[t] :
                            {rtp_sd[t][m], rtcp_sd[t][m]} \subseteq file'[ep_fd'[t]].watched
    BY <1>5 DEF Watched
  <2>1. CASE t = s
    BY <1>7, <1>9, <1>11, <2>1
  <2>2. CASE t # s
    <3>1. ep_fd[t] \in Held(t)
      BY <1>9, <2>2 DEF Held
    <3>2. file'[ep_fd'[t]] = file[ep_fd[t]]
      BY <1>9, <1>10, <2>2, <3>1
    <3> QED
      BY <1>9, <2>2, <3>2 DEF SocketInv, Watched
  <2> QED
    BY <2>1, <2>2
<1>17. NothingLost'
  <2> SUFFICES ASSUME ~forgot, NEW fd \in Fds, file'[fd] # Closed
               PROVE  \E t \in Sessions : file'[fd].of = t /\ fd \in Held(t)'
    BY <1>5 DEF NothingLost
  <2>1. CASE fd \in {ep, sd}
    BY <1>3, <1>4, <1>7, <1>9, <2>1 DEF Held
  <2>2. CASE fd \notin {ep, sd}
    <3>1. PICK t \in Sessions : file[fd].of = t /\ fd \in Held(t)
      BY <1>7, <2>2 DEF SocketInv, NothingLost
    <3>2. fd \in Held(t)'
      BY <1>5, <1>9, <1>11, <3>1 DEF Held
    <3> QED
      BY <1>7, <2>2, <3>1, <3>2
  <2> QED
    BY <2>1, <2>2
<1> QED
  BY <1>8, <1>12, <1>13, <1>14, <1>15, <1>16, <1>17 DEF SocketInv

\* The RTSP socket is watched from now on.
LEMMA StepConnected ==
    ASSUME SocketInv, NEW s \in Sessions, Connected(s)
    PROVE  SocketInv'
<1> DEFINE ep == ep_fd[s]
<1>1. TypeOK /\ file \in FileTable
  BY DEF SocketInv, TypeOK, FileTable, FileRecord
<1>2. PICK d \in (SUBSET Media) \ {{}} : described' = [described EXCEPT ![s] = d]
  BY DEF Connected
<1>3. /\ file' = Watches(file, ep, {rtsp_sd[s]})
      /\ state[s] = "connecting" /\ state' = [state EXCEPT ![s] = "up"]
      /\ UNCHANGED <<connects, ep_fd, rtsp_sd, rtp_sd, rtcp_sd, rtp_port, rtcp_port, enable,
                     asked, failed, forgot, failures>>
  BY DEF Connected, fds
<1>4. ep \in Fds /\ rtsp_sd[s] \in Fds /\ enable[s] = {}
  BY <1>1, <1>3, ZenonT(40) DEF SocketInv, Stages, TypeOK
<1>5. /\ file' \in FileTable
      /\ file'[ep].watched = file[ep].watched \cup {rtsp_sd[s]}
      /\ \A x \in Fds : /\ file'[x].kind = file[x].kind /\ file'[x].of = file[x].of
                        /\ file'[x].port = file[x].port
                        /\ x # ep => file'[x] = file[x]
  BY <1>1, <1>3, <1>4, WatchesSome
<1>6. TypeOK'
  BY <1>1, <1>2, <1>3, <1>5 DEF TypeOK, FileTable, FileRecord
<1>7. OwnFiles'
  <2> SUFFICES ASSUME NEW t \in Sessions
               PROVE  /\ Is(ep_fd[t], "epoll", t, NoPort)'
                      /\ Is(rtsp_sd[t], "tcp", t, NoPort)'
                      /\ \A m \in Media : /\ Is(rtp_sd[t][m], "udp", t, rtp_port[t][m])'
                                          /\ Is(rtcp_sd[t][m], "udp", t, rtcp_port[t][m])'
    BY DEF OwnFiles
  <2>1. /\ Is(ep_fd[t], "epoll", t, NoPort) /\ Is(rtsp_sd[t], "tcp", t, NoPort)
        /\ \A m \in Media : /\ Is(rtp_sd[t][m], "udp", t, rtp_port[t][m])
                            /\ Is(rtcp_sd[t][m], "udp", t, rtcp_port[t][m])
    BY DEF SocketInv, OwnFiles
  <2>2. /\ ep_fd[t] \in Fds \cup {NoFd} /\ rtsp_sd[t] \in Fds \cup {NoFd}
        /\ \A m \in Media : /\ rtp_sd[t][m] \in Fds \cup {NoFd}
                            /\ rtcp_sd[t][m] \in Fds \cup {NoFd}
    BY <1>1 DEF TypeOK
  <2>3. Is(ep_fd[t], "epoll", t, NoPort)' /\ Is(rtsp_sd[t], "tcp", t, NoPort)'
    BY <1>3, <1>5, <2>1, <2>2 DEF Is
  <2>4. ASSUME NEW m \in Media
        PROVE  /\ Is(rtp_sd[t][m], "udp", t, rtp_port[t][m])'
               /\ Is(rtcp_sd[t][m], "udp", t, rtcp_port[t][m])'
    <3>1. /\ rtp_sd'[t][m] = rtp_sd[t][m] /\ rtcp_sd'[t][m] = rtcp_sd[t][m]
          /\ rtp_port'[t][m] = rtp_port[t][m] /\ rtcp_port'[t][m] = rtcp_port[t][m]
      BY <1>3
    <3> QED
      BY <1>5, <2>1, <2>2, <3>1 DEF Is
  <2> QED
    BY <2>3, <2>4
<1>8. HeldOnce' /\ LiveMedia' /\ AskedNow'
  BY <1>3 DEF SocketInv, HeldOnce, LiveMedia, AskedNow
<1>9. Stages'
  BY <1>1, <1>3 DEF SocketInv, Stages, TypeOK
<1>10. OnePort'
  BY <1>5 DEF SocketInv, OnePort
<1>11. Watched'
  <2> SUFFICES ASSUME NEW t \in Sessions, ep_fd'[t] # NoFd
               PROVE  /\ \A fd \in file'[ep_fd'[t]].watched :
                            fd = rtsp_sd'[t] \/ \E m \in Media : fd = rtp_sd'[t][m] \/ fd = rtcp_sd'[t][m]
                      /\ \A m \in enable'[t] \ failed'[t] :
                            {rtp_sd'[t][m], rtcp_sd'[t][m]} \subseteq file'[ep_fd'[t]].watched
    BY DEF Watched
  <2>0. /\ ep_fd[t] # NoFd
        /\ \A fd \in file[ep_fd[t]].watched :
              fd = rtsp_sd[t] \/ \E m \in Media : fd = rtp_sd[t][m] \/ fd = rtcp_sd[t][m]
        /\ \A m \in enable[t] \ failed[t] :
              {rtp_sd[t][m], rtcp_sd[t][m]} \subseteq file[ep_fd[t]].watched
    BY <1>3 DEF SocketInv, Watched
  <2>1. CASE t = s
    <3>1. file'[ep_fd'[t]].watched = file[ep_fd[t]].watched \cup {rtsp_sd[t]}
      BY <1>3, <1>5, <2>1
    <3>2. enable'[t] \ failed'[t] = {}
      BY <1>3, <1>4, <2>1
    <3>3. rtsp_sd' = rtsp_sd /\ rtp_sd' = rtp_sd /\ rtcp_sd' = rtcp_sd
      BY <1>3
    <3> QED
      BY <2>0, <3>1, <3>2, <3>3
  <2>2. CASE t # s
    <3>1. ep_fd[t] \in Fds /\ ep_fd[t] # ep
      BY <1>1, <1>3, <1>4, <2>0, <2>2 DEF SocketInv, OwnFiles, Is, TypeOK, Fds, NoFd
    <3>2. file'[ep_fd'[t]] = file[ep_fd[t]]
      BY <1>3, <1>5, <3>1
    <3> QED
      BY <1>3, <2>0, <3>2, ZenonT(40)
  <2> QED
    BY <2>1, <2>2
<1>12. NothingLost'
  <2> SUFFICES ASSUME ~forgot, NEW fd \in Fds, file'[fd] # Closed
               PROVE  \E t \in Sessions : file'[fd].of = t /\ fd \in Held(t)'
    BY <1>3 DEF NothingLost
  <2>1. file[fd] # Closed
    <3>1. file[ep].kind # "closed"
      BY <1>4 DEF SocketInv, OwnFiles, Is, Fds, NoFd
    <3> QED
      BY <1>5, <3>1 DEF Closed
  <2>2. PICK t \in Sessions : file[fd].of = t /\ fd \in Held(t)
    BY <2>1 DEF SocketInv, NothingLost
  <2>3. fd \in Held(t)'
    BY <1>3, <2>2 DEF Held
  <2> QED
    BY <1>5, <2>2, <2>3
<1> QED
  BY <1>6, <1>7, <1>8, <1>9, <1>10, <1>11, <1>12 DEF SocketInv

\* The answer to a SETUP.
LEMMA StepAnswered ==
    ASSUME SocketInv, NEW s \in Sessions, Answered(s)
    PROVE  SocketInv'
<1>1. /\ state[s] = "up" /\ asked' = [asked EXCEPT ![s] = NoRequest]
      /\ UNCHANGED <<file, state, connects, ep_fd, rtsp_sd, rtp_sd, rtcp_sd, rtp_port,
                     rtcp_port, enable, described, failed, forgot, failures>>
  BY DEF Answered, fds
<1>2. TypeOK'
  BY <1>1 DEF SocketInv, TypeOK, NoRequest
<1>3. OwnFiles' /\ HeldOnce' /\ OnePort' /\ LiveMedia' /\ Watched'
  BY <1>1 DEF SocketInv, OwnFiles, Is, HeldOnce, OnePort, LiveMedia, Watched
<1>4. Stages' /\ AskedNow'
  BY <1>1 DEF SocketInv, Stages, AskedNow, TypeOK
<1>5. NothingLost'
  BY <1>1 DEF SocketInv, NothingLost, Held
<1> QED
  BY <1>2, <1>3, <1>4, <1>5 DEF SocketInv

-----------------------------------------------------------------------------
(* SETUP                                                                   *)

\* The guard of SendSetup, and what it does whatever setup_transport() did.
Asks(s, m) ==
    /\ state[s] = "up" /\ asked[s] = NoRequest /\ m \in described[s] \ enable[s]
    /\ enable' = [enable EXCEPT ![s] = @ \cup {m}]
    /\ asked' = [asked EXCEPT ![s] = [media |-> m, rtp |-> rtp_port'[s][m],
                                      rtcp |-> rtcp_port'[s][m]]]
    /\ UNCHANGED <<state, connects, ep_fd, rtsp_sd, described>>

\* What the three outcomes of setup_transport() have in common: it stores the
\* descriptors r and c, which are new or NoFd, and the ports pr and pc, and
\* changes nothing of the files that were open.
Transport(s, m, r, c, pr, pc) ==
    /\ rtp_sd' = [rtp_sd EXCEPT ![s][m] = r] /\ rtcp_sd' = [rtcp_sd EXCEPT ![s][m] = c]
    /\ rtp_port' = [rtp_port EXCEPT ![s][m] = pr]
    /\ rtcp_port' = [rtcp_port EXCEPT ![s][m] = pc]
    /\ file' \in FileTable /\ OnePort'
    /\ \A x \in Fds : file[x] # Closed =>
          /\ file'[x].kind = file[x].kind /\ file'[x].of = file[x].of
          /\ file'[x].port = file[x].port
          /\ x # ep_fd[s] => file'[x].watched = file[x].watched
    /\ file'[ep_fd[s]].watched = file[ep_fd[s]].watched \cup ({r, c} \ {NoFd})
    /\ r # NoFd => /\ file[r] = Closed /\ r # c
                   /\ file'[r].kind = "udp" /\ file'[r].of = s /\ file'[r].port = pr
    /\ c # NoFd => /\ file[c] = Closed
                   /\ file'[c].kind = "udp" /\ file'[c].of = s /\ file'[c].port = pc
    /\ ~forgot' => /\ ~forgot
                   /\ \A x \in Fds : file'[x] # Closed => file[x] # Closed \/ x \in {r, c}
    /\ \/ failed' = failed /\ r # NoFd /\ c # NoFd /\ pr # NoPort /\ pc # NoPort
       \/ failed' = [failed EXCEPT ![s] = @ \cup {m}] /\ r = NoFd /\ c = NoFd
    /\ forgot' \in BOOLEAN /\ failures' \in 0..MaxFailures

\* Store takes the even port of a pair first.
LEMMA EvenFirst ==
    ASSUME NEW f, NEW a, NEW b
    PROVE  LET i == IF IsEven(f) THEN 1 ELSE 2
           IN  /\ IsEven(f) => <<a, b>>[i] = a /\ <<a, b>>[3 - i] = b
               /\ ~IsEven(f) => <<a, b>>[i] = b /\ <<a, b>>[3 - i] = a
<1> DEFINE i == IF IsEven(f) THEN 1 ELSE 2
<1>1. CASE IsEven(f)
  <2>1. i = 1 /\ 3 - i = 2
    BY <1>1
  <2> QED
    BY <1>1, <2>1
<1>2. CASE ~IsEven(f)
  <2>1. i = 2 /\ 3 - i = 1
    BY <1>2
  <2> QED
    BY <1>2, <2>1
<1> QED
  BY <1>1, <1>2

\* Both sockets are new, on ports that were free, and watched.
LEMMA SetUpTransports ==
    ASSUME SocketInv, NEW s \in Sessions, NEW m \in Media, state[s] = "up",
           TransportSetUp(s, m)
    PROVE  \E r, c \in Fds \cup {NoFd}, pr, pc \in Ports \cup {NoPort} :
               Transport(s, m, r, c, pr, pc)
<1>1. TypeOK /\ OnePort /\ file \in FileTable
  BY DEF SocketInv, TypeOK, FileTable, FileRecord
<1>0. PICK first \in FreePorts(file) : \E second \in SecondPorts(first) :
          LET withFirst == Opens(file, Udp(s, first))
              sds == <<Min(Unused(file)), Min(Unused(withFirst))>>
          IN  /\ Store(s, m, sds, <<first, second>>, first)
              /\ file' = Watches(Opens(withFirst, Udp(s, second)), ep_fd[s], {sds[1], sds[2]})
  BY DEF TransportSetUp
<1>2. PICK second \in SecondPorts(first) :
          LET withFirst == Opens(file, Udp(s, first))
              sds == <<Min(Unused(file)), Min(Unused(withFirst))>>
          IN  /\ Store(s, m, sds, <<first, second>>, first)
              /\ file' = Watches(Opens(withFirst, Udp(s, second)), ep_fd[s], {sds[1], sds[2]})
  BY <1>0
<1> DEFINE withFirst == Opens(file, Udp(s, first))
           one == Min(Unused(file))
           two == Min(Unused(withFirst))
           withBoth == Opens(withFirst, Udp(s, second))
           ep == ep_fd[s]
<1>3. Store(s, m, <<one, two>>, <<first, second>>, first)
      /\ file' = Watches(withBoth, ep, {one, two})
  BY <1>2
<1>4. UNCHANGED <<failed, forgot, failures>> /\ Cardinality(Unused(file)) >= 2
  BY DEF TransportSetUp
<1>5. /\ first \in Ports /\ second \in Ports /\ first # second
      /\ first \notin PortsInUse(file) /\ second \notin PortsInUse(file)
      /\ first # NoPort /\ second # NoPort
  BY SecondPortFree, SocketAssumption DEF FreePorts, Ports, NoPort
<1>6. Unused(file) # {} /\ Unused(file) \ {one} # {}
  BY <1>1, <1>4, TwoUnused
<1>7. /\ one \in Fds /\ one # NoFd /\ file[one] = Closed
      /\ withFirst \in FileTable /\ withFirst[one] = Udp(s, first)
      /\ \A x \in Fds \ {one} : withFirst[x] = file[x]
      /\ Unused(withFirst) = Unused(file) \ {one}
  BY <1>1, <1>5, <1>6, FileType, OpensOne DEF Udp
<1>8. /\ two \in Fds /\ two # NoFd /\ withFirst[two] = Closed
      /\ withBoth \in FileTable /\ withBoth[two] = Udp(s, second)
      /\ \A x \in Fds \ {two} : withBoth[x] = withFirst[x]
  BY <1>5, <1>6, <1>7, FileType, OpensOne DEF Udp
<1>9. \A fd, gd \in Fds :
          withFirst[fd].port # NoPort /\ withFirst[fd].port = withFirst[gd].port => fd = gd
  BY <1>1, <1>5, <1>6, OpensKeepsPorts DEF OnePort, Udp
<1>10. second \notin PortsInUse(withFirst)
  BY <1>5, <1>7, FileType DEF PortsInUse, Udp
<1>11. \A fd, gd \in Fds :
          withBoth[fd].port # NoPort /\ withBoth[fd].port = withBoth[gd].port => fd = gd
  BY <1>5, <1>6, <1>7, <1>9, <1>10, OpensKeepsPorts DEF Udp
<1> HIDE DEF withFirst, one, two, withBoth
<1>12. two # one
  <2>1. Udp(s, first) # Closed
    BY <1>5, FileType DEF Udp
  <2> QED
    BY <1>7, <1>8, <2>1
<1>13. ep \in Fds /\ file[ep] # Closed
  BY <1>1 DEF SocketInv, Stages, OwnFiles, Is, TypeOK, Closed
<1>14. /\ file' \in FileTable
       /\ file'[ep].watched = withBoth[ep].watched \cup {one, two}
       /\ \A x \in Fds : /\ file'[x].kind = withBoth[x].kind /\ file'[x].of = withBoth[x].of
                         /\ file'[x].port = withBoth[x].port
                         /\ x # ep => file'[x] = withBoth[x]
  BY <1>3, <1>7, <1>8, <1>13, WatchesSome
<1>15. OnePort'
  BY <1>11, <1>14 DEF OnePort
<1>16. \A x \in Fds \ {one, two} : withBoth[x] = file[x]
  BY <1>7, <1>8
<1>17. file[two] = Closed /\ withBoth[one] = Udp(s, first)
  BY <1>7, <1>8, <1>12
<1>18. /\ file'[one].kind = "udp" /\ file'[one].of = s /\ file'[one].port = first
       /\ file'[two].kind = "udp" /\ file'[two].of = s /\ file'[two].port = second
  BY <1>5, <1>7, <1>8, <1>14, <1>17, FileType DEF Udp
<1>19. \A x \in Fds : file[x] # Closed =>
          /\ file'[x].kind = file[x].kind /\ file'[x].of = file[x].of
          /\ file'[x].port = file[x].port
          /\ x # ep_fd[s] => file'[x].watched = file[x].watched
  BY <1>7, <1>14, <1>16, <1>17
<1>20. file'[ep].watched = file[ep].watched \cup {one, two}
  BY <1>7, <1>13, <1>14, <1>16, <1>17
<1>21. \A x \in Fds : file'[x] # Closed => file[x] # Closed \/ x \in {one, two}
  BY <1>13, <1>14, <1>16
<1>22. forgot' \in BOOLEAN /\ (~forgot' => ~forgot)
  BY <1>1, <1>4 DEF TypeOK
<1>23. failures' \in 0..MaxFailures /\ failed' = failed
  BY <1>1, <1>4 DEF TypeOK
<1>24. CASE IsEven(first)
  <2>1. /\ rtp_sd' = [rtp_sd EXCEPT ![s][m] = one] /\ rtcp_sd' = [rtcp_sd EXCEPT ![s][m] = two]
        /\ rtp_port' = [rtp_port EXCEPT ![s][m] = first]
        /\ rtcp_port' = [rtcp_port EXCEPT ![s][m] = second]
    <3> DEFINE i == IF IsEven(first) THEN 1 ELSE 2
    <3>1. /\ rtp_sd' = [rtp_sd EXCEPT ![s][m] = <<one, two>>[i]]
          /\ rtcp_sd' = [rtcp_sd EXCEPT ![s][m] = <<one, two>>[3 - i]]
          /\ rtp_port' = [rtp_port EXCEPT ![s][m] = <<first, second>>[i]]
          /\ rtcp_port' = [rtcp_port EXCEPT ![s][m] = <<first, second>>[3 - i]]
      BY <1>3, Zenon DEF Store
    <3>2. /\ <<one, two>>[i] = one /\ <<one, two>>[3 - i] = two
          /\ <<first, second>>[i] = first /\ <<first, second>>[3 - i] = second
      BY <1>24, EvenFirst
    <3> HIDE DEF i
    <3> QED
      BY <3>1, <3>2
  <2>2. Transport(s, m, one, two, first, second)
    BY <2>1, <1>5, <1>7, <1>8, <1>12, <1>14, <1>15, <1>17, <1>18, <1>19, <1>20, <1>21, <1>22,
       <1>23 DEF Transport
  <2> QED
    BY <1>5, <1>7, <1>8, <2>2
<1>25. CASE ~IsEven(first)
  <2>1. /\ rtp_sd' = [rtp_sd EXCEPT ![s][m] = two] /\ rtcp_sd' = [rtcp_sd EXCEPT ![s][m] = one]
        /\ rtp_port' = [rtp_port EXCEPT ![s][m] = second]
        /\ rtcp_port' = [rtcp_port EXCEPT ![s][m] = first]
    <3> DEFINE i == IF IsEven(first) THEN 1 ELSE 2
    <3>1. /\ rtp_sd' = [rtp_sd EXCEPT ![s][m] = <<one, two>>[i]]
          /\ rtcp_sd' = [rtcp_sd EXCEPT ![s][m] = <<one, two>>[3 - i]]
          /\ rtp_port' = [rtp_port EXCEPT ![s][m] = <<first, second>>[i]]
          /\ rtcp_port' = [rtcp_port EXCEPT ![s][m] = <<first, second>>[3 - i]]
      BY <1>3, Zenon DEF Store
    <3>2. /\ <<one, two>>[i] = two /\ <<one, two>>[3 - i] = one
          /\ <<first, second>>[i] = second /\ <<first, second>>[3 - i] = first
      BY <1>25, EvenFirst
    <3> HIDE DEF i
    <3> QED
      BY <3>1, <3>2
  <2>2. Transport(s, m, two, one, second, first)
    BY <2>1, <1>5, <1>7, <1>8, <1>12, <1>14, <1>15, <1>17, <1>18, <1>19, <1>20, <1>21, <1>22,
       <1>23 DEF Transport
  <2> QED
    BY <1>5, <1>7, <1>8, <2>2
<1> QED
  BY <1>24, <1>25

\* The sockets are closed again; the ports stay.
LEMMA UndoneTransports ==
    ASSUME SocketInv, NEW s \in Sessions, NEW m \in Media, TransportUndone(s, m)
    PROVE  \E r, c \in Fds \cup {NoFd}, pr, pc \in Ports \cup {NoPort} :
               Transport(s, m, r, c, pr, pc)
<1>1. TypeOK /\ OnePort /\ file \in FileTable
  BY DEF SocketInv, TypeOK, FileTable, FileRecord
<1>0. PICK first \in FreePorts(file) : \E second \in SecondPorts(first) :
          LET i == IF IsEven(first) THEN 1 ELSE 2
          IN  /\ rtp_port' = [rtp_port EXCEPT ![s][m] = <<first, second>>[i]]
              /\ rtcp_port' = [rtcp_port EXCEPT ![s][m] = <<first, second>>[3 - i]]
  BY DEF TransportUndone
<1>2. PICK second \in SecondPorts(first) :
          LET i == IF IsEven(first) THEN 1 ELSE 2
          IN  /\ rtp_port' = [rtp_port EXCEPT ![s][m] = <<first, second>>[i]]
              /\ rtcp_port' = [rtcp_port EXCEPT ![s][m] = <<first, second>>[3 - i]]
  BY <1>0
<1>3. \E pr, pc \in Ports \cup {NoPort} : /\ rtp_port' = [rtp_port EXCEPT ![s][m] = pr]
                                          /\ rtcp_port' = [rtcp_port EXCEPT ![s][m] = pc]
  <2>1. first \in Ports /\ second \in Ports
    BY SecondPortFree DEF FreePorts
  <2> DEFINE i == IF IsEven(first) THEN 1 ELSE 2
  <2>2. /\ rtp_port' = [rtp_port EXCEPT ![s][m] = <<first, second>>[i]]
        /\ rtcp_port' = [rtcp_port EXCEPT ![s][m] = <<first, second>>[3 - i]]
    BY <1>2
  <2>3. /\ <<first, second>>[i] \in {first, second}
        /\ <<first, second>>[3 - i] \in {first, second}
    BY EvenFirst
  <2> HIDE DEF i
  <2> QED
    BY <2>1, <2>2, <2>3
<1>4. PICK pr, pc \in Ports \cup {NoPort} : /\ rtp_port' = [rtp_port EXCEPT ![s][m] = pr]
                                            /\ rtcp_port' = [rtcp_port EXCEPT ![s][m] = pc]
  BY <1>3
<1>5. /\ rtp_sd' = [rtp_sd EXCEPT ![s][m] = NoFd] /\ rtcp_sd' = [rtcp_sd EXCEPT ![s][m] = NoFd]
      /\ failed' = [failed EXCEPT ![s] = @ \cup {m}]
      /\ failures < MaxFailures /\ failures' = failures + 1
      /\ UNCHANGED <<file, forgot>>
  BY DEF TransportUndone
<1>6. forgot' \in BOOLEAN /\ (~forgot' => ~forgot)
  BY <1>1, <1>5 DEF TypeOK
<1>7. failures' \in 0..MaxFailures
  BY <1>1, <1>5, SocketAssumption DEF TypeOK
<1>8. OnePort' /\ file' = file
  BY <1>1, <1>5 DEF OnePort
<1>9. Transport(s, m, NoFd, NoFd, pr, pc)
  BY <1>1, <1>4, <1>5, <1>6, <1>7, <1>8 DEF Transport
<1> QED
  BY <1>9

\* What was opened stays open, and nobody holds it.
LEMMA FailsTransports ==
    ASSUME SocketInv, NEW s \in Sessions, NEW m \in Media, state[s] = "up",
           TransportFails(s, m)
    PROVE  \E r, c \in Fds \cup {NoFd}, pr, pc \in Ports \cup {NoPort} :
               Transport(s, m, r, c, pr, pc)
<1>1. TypeOK /\ OnePort /\ file \in FileTable
  BY DEF SocketInv, TypeOK, FileTable, FileRecord
<1> DEFINE Grown(files) ==
              /\ files \in FileTable
              /\ \A x \in Fds : file[x] # Closed => files[x] = file[x]
              /\ \A fd, gd \in Fds :
                    files[fd].port # NoPort /\ files[fd].port = files[gd].port => fd = gd
<1>2. ASSUME NEW files, Grown(files), Unused(files) # {},
             NEW port \in Ports \cup {NoPort}, port \notin PortsInUse(files)
      PROVE  Grown(Opens(files, Udp(s, port)))
  <2> DEFINE fd == Min(Unused(files))
             more == Opens(files, Udp(s, port))
  <2>1. /\ more \in FileTable /\ fd \in Fds /\ files[fd] = Closed
        /\ \A x \in Fds \ {fd} : more[x] = files[x]
    BY <1>2, FileType, OpensOne DEF Udp
  <2>2. \A gd, hd \in Fds : more[gd].port # NoPort /\ more[gd].port = more[hd].port => gd = hd
    BY <1>2, OpensKeepsPorts DEF Udp
  <2> HIDE DEF fd, more
  <2>3. \A x \in Fds : file[x] # Closed => more[x] = file[x]
    BY <1>2, <2>1
  <2> QED
    BY <2>1, <2>2, <2>3 DEF more
<1>3. Grown(file)
  BY <1>1 DEF OnePort
<1>4. \A files : NoPort \notin PortsInUse(files)
  BY DEF PortsInUse
<1>5. Grown(file')
  <2> HIDE DEF Grown
  <2>1. CASE file' = file
    BY <1>3, <2>1
  <2>2. CASE Unused(file) # {} /\ file' = Opens(file, Udp(s, NoPort))
    BY <1>2, <1>3, <1>4, <2>2
  <2>3. ASSUME NEW first \in FreePorts(file), Unused(file) # {}
        PROVE  Grown(Opens(file, Udp(s, first)))
    BY <1>2, <1>3, <2>3 DEF FreePorts
  <2>4. ASSUME NEW first \in FreePorts(file), Unused(file) # {},
               Unused(Opens(file, Udp(s, first))) # {},
               NEW second \in SecondPorts(first) \cup {NoPort}
        PROVE  Grown(Opens(Opens(file, Udp(s, first)), Udp(s, second)))
    <3>1. CASE second = NoPort
      BY <1>2, <1>4, <2>3, <2>4, <3>1
    <3>2. CASE second \in SecondPorts(first)
      <4>1. second \in FreePorts(file) /\ second # first
        BY <3>2, SecondPortFree
      <4>2. second \in Ports /\ second \notin PortsInUse(file)
        BY <4>1 DEF FreePorts
      <4>3. Opens(file, Udp(s, first)) = [file EXCEPT ![Min(Unused(file))] = Udp(s, first)]
        BY DEF Opens
      <4>4. Udp(s, first).port = first
        BY DEF Udp, File
      <4>5. \A x \in Fds : Opens(file, Udp(s, first))[x].port \in {file[x].port, first}
        BY <1>1, <4>3, <4>4 DEF FileTable
      <4>6. second \notin PortsInUse(Opens(file, Udp(s, first)))
        BY <4>1, <4>2, <4>5 DEF PortsInUse
      <4> QED
        BY <1>2, <2>3, <2>4, <4>2, <4>6
    <3> QED
      BY <2>4, <3>1, <3>2
  <2> QED
    BY <2>1, <2>2, <2>3, <2>4 DEF TransportFails
<1>6. /\ rtp_sd' = [rtp_sd EXCEPT ![s][m] = NoFd] /\ rtcp_sd' = [rtcp_sd EXCEPT ![s][m] = NoFd]
      /\ failed' = [failed EXCEPT ![s] = @ \cup {m}]
      /\ failures < MaxFailures /\ failures' = failures + 1
      /\ forgot' = (forgot \/ file' # file)
      /\ UNCHANGED <<rtp_port, rtcp_port>>
  BY DEF TransportFails
<1>7. /\ rtp_port' = [rtp_port EXCEPT ![s][m] = rtp_port[s][m]]
      /\ rtcp_port' = [rtcp_port EXCEPT ![s][m] = rtcp_port[s][m]]
      /\ rtp_port[s][m] \in Ports \cup {NoPort} /\ rtcp_port[s][m] \in Ports \cup {NoPort}
  BY <1>1, <1>6 DEF TypeOK
<1>8. forgot' \in BOOLEAN /\ (~forgot' => ~forgot /\ file' = file)
  BY <1>1, <1>6 DEF TypeOK
<1>9. failures' \in 0..MaxFailures
  BY <1>1, <1>6, SocketAssumption DEF TypeOK
<1>10. OnePort'
  BY <1>5 DEF OnePort
<1>11. ep_fd[s] \in Fds /\ file[ep_fd[s]] # Closed
  BY <1>1 DEF SocketInv, Stages, OwnFiles, Is, TypeOK, Closed
<1>12. file'[ep_fd[s]].watched = file[ep_fd[s]].watched \cup ({NoFd, NoFd} \ {NoFd})
  BY <1>5, <1>11
<1>13. Transport(s, m, NoFd, NoFd, rtp_port[s][m], rtcp_port[s][m])
  BY <1>5, <1>6, <1>7, <1>8, <1>9, <1>10, <1>12 DEF Transport
<1> QED
  BY <1>7, <1>13

\* SETUP is sent for a medium, whatever setup_transport() did.
LEMMA StepTransport ==
    ASSUME SocketInv, NEW s \in Sessions, NEW m \in Media, Asks(s, m),
           NEW r \in Fds \cup {NoFd}, NEW c \in Fds \cup {NoFd},
           NEW pr \in Ports \cup {NoPort}, NEW pc \in Ports \cup {NoPort},
           Transport(s, m, r, c, pr, pc)
    PROVE  SocketInv'
<1> DEFINE ep == ep_fd[s]
<1>1. TypeOK /\ file \in FileTable
  BY DEF SocketInv, TypeOK, FileTable, FileRecord
<1>2. /\ rtp_sd'[s][m] = r /\ rtcp_sd'[s][m] = c
      /\ rtp_port'[s][m] = pr /\ rtcp_port'[s][m] = pc
      /\ \A t \in Sessions, n \in Media : t # s \/ n # m =>
            /\ rtp_sd'[t][n] = rtp_sd[t][n] /\ rtcp_sd'[t][n] = rtcp_sd[t][n]
            /\ rtp_port'[t][n] = rtp_port[t][n] /\ rtcp_port'[t][n] = rtcp_port[t][n]
  BY <1>1 DEF Transport, TypeOK
<1>3. /\ enable'[s] = enable[s] \cup {m} /\ m \notin enable[s]
      /\ asked'[s] = [media |-> m, rtp |-> pr, rtcp |-> pc] /\ state[s] = "up"
      /\ \A t \in Sessions \ {s} : enable'[t] = enable[t] /\ asked'[t] = asked[t]
      /\ UNCHANGED <<state, connects, ep_fd, rtsp_sd, described>>
  BY <1>1, <1>2 DEF Asks, TypeOK
<1>4. /\ \A t \in Sessions \ {s} : failed'[t] = failed[t]
      /\ \/ failed'[s] = failed[s] /\ r # NoFd /\ c # NoFd /\ pr # NoPort /\ pc # NoPort
         \/ failed'[s] = failed[s] \cup {m} /\ r = NoFd /\ c = NoFd
  BY <1>1 DEF Transport, TypeOK
<1>5. rtp_sd[s][m] = NoFd /\ rtcp_sd[s][m] = NoFd
  BY <1>3 DEF SocketInv, Stages
<1>6. /\ \A x \in Fds : file[x] # Closed =>
            /\ file'[x].kind = file[x].kind /\ file'[x].of = file[x].of
            /\ file'[x].port = file[x].port
            /\ x # ep => file'[x].watched = file[x].watched
      /\ file'[ep].watched = file[ep].watched \cup ({r, c} \ {NoFd})
  BY DEF Transport
<1>7. /\ r # NoFd => /\ file[r] = Closed /\ r # c /\ r \in Fds
                     /\ file'[r].kind = "udp" /\ file'[r].of = s /\ file'[r].port = pr
      /\ c # NoFd => /\ file[c] = Closed /\ c \in Fds
                     /\ file'[c].kind = "udp" /\ file'[c].of = s /\ file'[c].port = pc
  BY DEF Transport
<1>8. file' \in FileTable /\ OnePort' /\ forgot' \in BOOLEAN /\ failures' \in 0..MaxFailures
  BY DEF Transport
<1>9. ~forgot' => /\ ~forgot
                  /\ \A x \in Fds : file'[x] # Closed => file[x] # Closed \/ x \in {r, c}
  BY DEF Transport
<1>10. TypeOK'
  <2>1. /\ rtp_sd' \in [Sessions -> [Media -> Fds \cup {NoFd}]]
        /\ rtcp_sd' \in [Sessions -> [Media -> Fds \cup {NoFd}]]
        /\ rtp_port' \in [Sessions -> [Media -> Ports \cup {NoPort}]]
        /\ rtcp_port' \in [Sessions -> [Media -> Ports \cup {NoPort}]]
    BY <1>1 DEF Transport, TypeOK
  <2>2. failed' \in [Sessions -> SUBSET Media] /\ enable' \in [Sessions -> SUBSET Media]
    <3>1. /\ failed \in [Sessions -> SUBSET Media] /\ enable \in [Sessions -> SUBSET Media]
          /\ failed[s] \cup {m} \in SUBSET Media /\ enable[s] \cup {m} \in SUBSET Media
      BY <1>1 DEF TypeOK
    <3>2. enable' = [enable EXCEPT ![s] = enable[s] \cup {m}]
      BY DEF Asks
    <3>3. failed' = failed \/ failed' = [failed EXCEPT ![s] = failed[s] \cup {m}]
      BY DEF Transport
    <3> QED
      BY <3>1, <3>2, <3>3
  <2>3. asked' \in [Sessions -> [media : Media \cup {NoMedium}, rtp : Ports \cup {NoPort},
                                 rtcp : Ports \cup {NoPort}]]
    BY <1>1, <1>2 DEF Asks, TypeOK
  <2>4. /\ file' \in [Fds -> [kind : {"closed", "epoll", "tcp", "udp"},
                              of : Sessions \cup {"nobody"},
                              port : Ports \cup {NoPort}, watched : SUBSET Fds]]
        /\ forgot' \in BOOLEAN /\ failures' \in 0..MaxFailures
    BY <1>8 DEF FileTable, FileRecord
  <2>5. /\ state' \in [Sessions -> {"start", "connecting", "up", "ended"}]
        /\ connects' \in 0..MaxConnects
        /\ ep_fd' \in [Sessions -> Fds \cup {NoFd}] /\ rtsp_sd' \in [Sessions -> Fds \cup {NoFd}]
        /\ described' \in [Sessions -> SUBSET Media]
    BY <1>1, <1>3 DEF TypeOK
  <2> QED
    BY <2>1, <2>2, <2>3, <2>4, <2>5 DEF TypeOK
<1>11. ASSUME NEW t \in Sessions, NEW fd \in Held(t)
       PROVE  /\ fd \in Fds /\ fd # NoFd /\ file[fd] # Closed /\ fd # r /\ fd # c
              /\ file'[fd].kind = file[fd].kind /\ file'[fd].of = file[fd].of
              /\ file'[fd].port = file[fd].port
  <2>1. fd \in Fds /\ fd # NoFd
    BY <1>1 DEF TypeOK, Held
  <2>2. file[fd].kind # "closed"
    BY DEF SocketInv, OwnFiles, Is, Held
  <2>3. file[fd] # Closed
    BY <2>2 DEF Closed
  <2> QED
    BY <1>6, <1>7, <2>1, <2>3
<1>12. \A t \in Sessions :
          /\ ep_fd[t] # NoFd => ep_fd[t] \in Held(t)
          /\ rtsp_sd[t] # NoFd => rtsp_sd[t] \in Held(t)
          /\ \A n \in Media : /\ rtp_sd[t][n] # NoFd => rtp_sd[t][n] \in Held(t)
                              /\ rtcp_sd[t][n] # NoFd => rtcp_sd[t][n] \in Held(t)
  BY DEF Held
<1>13. OwnFiles'
  <2> SUFFICES ASSUME NEW t \in Sessions
               PROVE  /\ Is(ep_fd[t], "epoll", t, NoPort)'
                      /\ Is(rtsp_sd[t], "tcp", t, NoPort)'
                      /\ \A n \in Media : /\ Is(rtp_sd[t][n], "udp", t, rtp_port[t][n])'
                                          /\ Is(rtcp_sd[t][n], "udp", t, rtcp_port[t][n])'
    BY DEF OwnFiles
  <2>1. /\ Is(ep_fd[t], "epoll", t, NoPort) /\ Is(rtsp_sd[t], "tcp", t, NoPort)
        /\ \A n \in Media : /\ Is(rtp_sd[t][n], "udp", t, rtp_port[t][n])
                            /\ Is(rtcp_sd[t][n], "udp", t, rtcp_port[t][n])
    BY DEF SocketInv, OwnFiles
  <2>2. Is(ep_fd[t], "epoll", t, NoPort)' /\ Is(rtsp_sd[t], "tcp", t, NoPort)'
    BY <1>3, <1>11, <1>12, <2>1 DEF Is
  <2>3. ASSUME NEW n \in Media
        PROVE  /\ Is(rtp_sd[t][n], "udp", t, rtp_port[t][n])'
               /\ Is(rtcp_sd[t][n], "udp", t, rtcp_port[t][n])'
    <3>1. CASE t = s /\ n = m
      BY <1>2, <1>7, <3>1 DEF Is
    <3>2. CASE t # s \/ n # m
      BY <1>2, <1>11, <1>12, <2>1, <3>2 DEF Is
    <3> QED
      BY <3>1, <3>2
  <2> QED
    BY <2>2, <2>3
<1>14. HeldOnce'
  <2> SUFFICES ASSUME NEW t \in Sessions, NEW n \in Media, NEW k \in Media
               PROVE  /\ rtp_sd'[t][n] # NoFd => rtp_sd'[t][n] # rtcp_sd'[t][k]
                      /\ n # k /\ rtp_sd'[t][n] # NoFd => rtp_sd'[t][n] # rtp_sd'[t][k]
                      /\ n # k /\ rtcp_sd'[t][n] # NoFd => rtcp_sd'[t][n] # rtcp_sd'[t][k]
    BY DEF HeldOnce
  <2>1. /\ rtp_sd[t][n] # NoFd => rtp_sd[t][n] # rtcp_sd[t][k]
        /\ n # k /\ rtp_sd[t][n] # NoFd => rtp_sd[t][n] # rtp_sd[t][k]
        /\ n # k /\ rtcp_sd[t][n] # NoFd => rtcp_sd[t][n] # rtcp_sd[t][k]
    BY DEF SocketInv, HeldOnce
  <2>2. \A j \in Media : /\ rtp_sd[t][j] # NoFd => rtp_sd[t][j] # r /\ rtp_sd[t][j] # c
                         /\ rtcp_sd[t][j] # NoFd => rtcp_sd[t][j] # r /\ rtcp_sd[t][j] # c
    BY <1>11, <1>12
  <2>3. CASE t # s
    BY <1>2, <2>1, <2>3
  <2>4. CASE t = s /\ n # m /\ k # m
    BY <1>2, <2>1, <2>4
  <2>5. CASE t = s /\ n = m /\ k # m
    BY <1>2, <2>2, <2>5
  <2>6. CASE t = s /\ n # m /\ k = m
    BY <1>2, <2>2, <2>6
  <2>7. CASE t = s /\ n = m /\ k = m
    BY <1>2, <1>7, <2>7
  <2> QED
    BY <2>3, <2>4, <2>5, <2>6, <2>7
<1>15. Stages'
  <2> SUFFICES ASSUME NEW t \in Sessions
               PROVE  /\ (ep_fd'[t] # NoFd) <=> state'[t] \in {"connecting", "up"}
                      /\ (rtsp_sd'[t] # NoFd) <=> state'[t] \in {"connecting", "up"}
                      /\ state'[t] # "up" => enable'[t] = {} /\ asked'[t] = NoRequest
                      /\ \A n \in Media : /\ rtp_sd'[t][n] # NoFd => n \in enable'[t]
                                          /\ rtcp_sd'[t][n] # NoFd => n \in enable'[t]
    BY DEF Stages
  <2>1. /\ (ep_fd'[t] # NoFd) <=> state'[t] \in {"connecting", "up"}
        /\ (rtsp_sd'[t] # NoFd) <=> state'[t] \in {"connecting", "up"}
    BY <1>3 DEF SocketInv, Stages
  <2>2. state'[t] # "up" => enable'[t] = {} /\ asked'[t] = NoRequest
    BY <1>3 DEF SocketInv, Stages
  <2>3. ASSUME NEW n \in Media
        PROVE  /\ rtp_sd'[t][n] # NoFd => n \in enable'[t]
               /\ rtcp_sd'[t][n] # NoFd => n \in enable'[t]
    <3>1. enable[t] \subseteq enable'[t]
      BY <1>3
    <3>2. CASE t = s /\ n = m
      BY <1>3, <3>2
    <3>3. CASE t # s \/ n # m
      BY <1>2, <3>1, <3>3 DEF SocketInv, Stages
    <3> QED
      BY <3>2, <3>3
  <2> QED
    BY <2>1, <2>2, <2>3
<1>16. LiveMedia'
  <2>1. ASSUME NEW t \in Sessions, NEW n \in enable'[t] \ failed'[t]
        PROVE  /\ rtp_sd'[t][n] # NoFd /\ rtcp_sd'[t][n] # NoFd
               /\ rtp_port'[t][n] # NoPort /\ rtcp_port'[t][n] # NoPort
    <3>1. CASE t = s /\ n = m
      BY <1>2, <1>4, <2>1, <3>1
    <3>2. CASE t # s \/ n # m
      <4>1. n \in enable[t] \ failed[t] /\ n \in Media
        BY <1>1, <1>3, <1>4, <2>1, <3>2 DEF TypeOK
      <4> QED
        BY <1>2, <3>2, <4>1 DEF SocketInv, LiveMedia
    <3> QED
      BY <3>1, <3>2
  <2>2. ASSUME NEW t \in Sessions, NEW n \in failed'[t]
        PROVE  n \in enable'[t] /\ rtp_sd'[t][n] = NoFd /\ rtcp_sd'[t][n] = NoFd
    <3>1. CASE t = s /\ n = m
      <4>1. m \notin failed[s]
        BY <1>3 DEF SocketInv, LiveMedia
      <4> QED
        BY <1>2, <1>3, <1>4, <2>2, <3>1, <4>1
    <3>2. CASE t # s \/ n # m
      <4>1. n \in failed[t] /\ n \in Media
        BY <1>1, <1>4, <2>2, <3>2 DEF TypeOK
      <4>2. n \in enable[t] /\ rtp_sd[t][n] = NoFd /\ rtcp_sd[t][n] = NoFd
        BY <4>1 DEF SocketInv, LiveMedia
      <4>3. enable[t] \subseteq enable'[t]
        BY <1>3
      <4> QED
        BY <1>2, <3>2, <4>1, <4>2, <4>3
    <3> QED
      BY <3>1, <3>2
  <2> QED
    BY <2>1, <2>2 DEF LiveMedia
<1>17. Watched'
  <2> SUFFICES ASSUME NEW t \in Sessions, ep_fd'[t] # NoFd
               PROVE  /\ \A fd \in file'[ep_fd'[t]].watched :
                            fd = rtsp_sd'[t] \/ \E n \in Media : fd = rtp_sd'[t][n] \/ fd = rtcp_sd'[t][n]
                      /\ \A n \in enable'[t] \ failed'[t] :
                            {rtp_sd'[t][n], rtcp_sd'[t][n]} \subseteq file'[ep_fd'[t]].watched
    BY DEF Watched
  <2>1. /\ ep_fd'[t] = ep_fd[t] /\ rtsp_sd'[t] = rtsp_sd[t]
        /\ ep_fd[t] \in Fds /\ file[ep_fd[t]] # Closed
    BY <1>3, <1>11, <1>12
  <2>2. /\ \A fd \in file[ep_fd[t]].watched :
              fd \in Fds /\ (fd = rtsp_sd[t] \/ \E n \in Media : fd = rtp_sd[t][n] \/ fd = rtcp_sd[t][n])
        /\ \A n \in enable[t] \ failed[t] :
              {rtp_sd[t][n], rtcp_sd[t][n]} \subseteq file[ep_fd[t]].watched
    <3>1. file[ep_fd[t]].watched \in SUBSET Fds
      BY <1>1, <2>1 DEF FileTable, FileRecord
    <3> QED
      BY <1>3, <2>1, <3>1 DEF SocketInv, Watched
  <2>3. CASE t # s
    <3>1. ep_fd[t] # ep
      BY <1>3, <2>1, <2>3 DEF SocketInv, OwnFiles, Is, Stages
    <3>2. file'[ep_fd[t]].watched = file[ep_fd[t]].watched
      BY <1>6, <2>1, <3>1
    <3>3. enable'[t] = enable[t] /\ failed'[t] = failed[t]
      BY <1>3, <1>4, <2>3
    <3>4. \A n \in Media : rtp_sd'[t][n] = rtp_sd[t][n] /\ rtcp_sd'[t][n] = rtcp_sd[t][n]
      BY <1>2, <2>3
    <3>5. enable[t] \subseteq Media
      BY <1>1 DEF TypeOK
    <3> QED
      BY <2>1, <2>2, <3>2, <3>3, <3>4, <3>5
  <2>4. CASE t = s
    <3>1. file'[ep_fd[t]].watched = file[ep_fd[t]].watched \cup ({r, c} \ {NoFd})
      BY <1>6, <2>4
    <3>2. ASSUME NEW fd \in file[ep_fd[t]].watched
          PROVE  fd = rtsp_sd[t] \/ \E n \in Media : fd = rtp_sd'[t][n] \/ fd = rtcp_sd'[t][n]
      <4>1. fd # NoFd
        BY <2>2, SocketAssumption DEF Fds, NoFd
      <4>2. \A n \in Media : fd = rtp_sd[t][n] \/ fd = rtcp_sd[t][n] => n # m
        BY <1>5, <2>4, <4>1
      <4> QED
        BY <1>2, <2>2, <4>2
    <3>3. \A fd \in {r, c} : \E n \in Media : fd = rtp_sd'[t][n] \/ fd = rtcp_sd'[t][n]
      BY <1>2, <2>4
    <3>4. ASSUME NEW n \in enable'[t] \ failed'[t]
          PROVE  {rtp_sd'[t][n], rtcp_sd'[t][n]} \subseteq file'[ep_fd[t]].watched
      <4>1. CASE n = m
        BY <1>2, <1>4, <2>4, <3>1, <4>1
      <4>2. CASE n # m
        <5>1. n \in enable[t] \ failed[t] /\ n \in Media
          BY <1>1, <1>3, <1>4, <2>4, <4>2 DEF TypeOK
        <5> QED
          BY <1>2, <2>2, <3>1, <4>2, <5>1
      <4> QED
        BY <4>1, <4>2
    <3> QED
      BY <2>1, <3>1, <3>2, <3>3, <3>4
  <2> QED
    BY <2>3, <2>4
<1>18. AskedNow'
  <2> SUFFICES ASSUME NEW t \in Sessions, asked'[t] # NoRequest
               PROVE  /\ asked'[t].media \in enable'[t]
                      /\ asked'[t].rtp = rtp_port'[t][asked'[t].media]
                      /\ asked'[t].rtcp = rtcp_port'[t][asked'[t].media]
    BY DEF AskedNow
  <2>1. CASE t = s
    BY <1>2, <1>3, <2>1
  <2>2. CASE t # s
    <3>1. /\ asked[t].media \in enable[t]
          /\ asked[t].rtp = rtp_port[t][asked[t].media]
          /\ asked[t].rtcp = rtcp_port[t][asked[t].media]
      BY <1>3, <2>2 DEF SocketInv, AskedNow
    <3>2. enable[t] \subseteq Media
      BY <1>1 DEF TypeOK
    <3> QED
      BY <1>2, <1>3, <2>2, <3>1, <3>2
  <2> QED
    BY <2>1, <2>2
<1>19. NothingLost'
  <2> SUFFICES ASSUME ~forgot', NEW fd \in Fds, file'[fd] # Closed
               PROVE  \E t \in Sessions : file'[fd].of = t /\ fd \in Held(t)'
    BY DEF NothingLost
  <2>1. CASE fd \in {r, c}
    <3>1. fd # NoFd
      BY SocketAssumption DEF Fds, NoFd
    <3>2. file'[fd].of = s
      BY <1>7, <2>1, <3>1
    <3>3. fd \in Held(s)'
      BY <1>2, <2>1, <3>1 DEF Held
    <3> QED
      BY <3>2, <3>3
  <2>2. CASE fd \notin {r, c}
    <3>1. file[fd] # Closed /\ ~forgot
      BY <1>9, <2>2
    <3>2. PICK t \in Sessions : file[fd].of = t /\ fd \in Held(t)
      BY <3>1 DEF SocketInv, NothingLost
    <3>3. fd \in Held(t)'
      <4>1. /\ fd # NoFd
            /\ \/ fd \in {ep_fd[t], rtsp_sd[t]}
               \/ \E n \in Media : fd \in {rtp_sd[t][n], rtcp_sd[t][n]}
        BY <3>2 DEF Held
      <4>2. CASE fd \in {ep_fd[t], rtsp_sd[t]}
        BY <1>3, <4>1, <4>2 DEF Held
      <4>3. ASSUME NEW n \in Media, fd \in {rtp_sd[t][n], rtcp_sd[t][n]}
            PROVE  fd \in Held(t)'
        <5>1. t # s \/ n # m
          BY <1>5, <4>1, <4>3
        <5> QED
          BY <1>2, <4>1, <4>3, <5>1 DEF Held
      <4> QED
        BY <4>1, <4>2, <4>3
    <3> QED
      BY <1>6, <3>1, <3>2, <3>3
  <2> QED
    BY <2>1, <2>2
<1> QED
  BY <1>8, <1>10, <1>13, <1>14, <1>15, <1>16, <1>17, <1>18, <1>19 DEF SocketInv

\* send_method_setup() keeps the invariant, whichever of the three outcomes
\* setup_transport() has.
LEMMA StepSendSetup ==
    ASSUME SocketInv, NEW s \in Sessions, SendSetup(s)
    PROVE  SocketInv'
<1> DEFINE m == Min(described[s] \ enable[s])
<1>1. described[s] \ enable[s] \in SUBSET Media
  BY DEF SocketInv, TypeOK
<1>2. m \in described[s] \ enable[s] /\ m \in Media
  BY <1>1, MinMedium DEF SendSetup
<1>3. /\ state[s] = "up" /\ asked[s] = NoRequest
      /\ TransportSetUp(s, m) \/ TransportUndone(s, m) \/ TransportFails(s, m)
      /\ enable' = [enable EXCEPT ![s] = @ \cup {m}]
      /\ asked' = [asked EXCEPT ![s] = [media |-> m, rtp |-> rtp_port'[s][m],
                                        rtcp |-> rtcp_port'[s][m]]]
      /\ UNCHANGED <<state, connects, ep_fd, rtsp_sd, described>>
  BY DEF SendSetup
<1> HIDE DEF m
<1>4. Asks(s, m)
  BY <1>2, <1>3 DEF Asks
<1>5. \E r, c \in Fds \cup {NoFd}, pr, pc \in Ports \cup {NoPort} :
          Transport(s, m, r, c, pr, pc)
  BY <1>2, <1>3, SetUpTransports, UndoneTransports, FailsTransports
<1> QED
  BY <1>2, <1>4, <1>5, StepTransport

\* Every step keeps the invariant: one case per action.
LEMMA StepSocketInv == SocketInv /\ [Next]_vars => SocketInv'
<1> SUFFICES ASSUME SocketInv, [Next]_vars PROVE SocketInv'
  OBVIOUS
<1>1. ASSUME NEW s \in Sessions, OpenSockets(s) PROVE SocketInv'
  BY <1>1, StepOpenSockets
<1>2. ASSUME NEW s \in Sessions, OpenFails(s) PROVE SocketInv'
  BY <1>2, DestroyReleases, StepRelease DEF OpenFails
<1>3. ASSUME NEW s \in Sessions, Connected(s) PROVE SocketInv'
  BY <1>3, StepConnected
<1>4. ASSUME NEW s \in Sessions, ConnectFails(s) \/ Reconnect(s) PROVE SocketInv'
  BY <1>4, CleanupReleases, StepRelease DEF ConnectFails, Reconnect
<1>5. ASSUME NEW s \in Sessions, ConnectAborts(s) \/ SessionEnds(s) PROVE SocketInv'
  BY <1>5, DestroyReleases, StepRelease DEF ConnectAborts, SessionEnds
<1>6. ASSUME NEW s \in Sessions, SendSetup(s) PROVE SocketInv'
  BY <1>6, StepSendSetup
<1>7. ASSUME NEW s \in Sessions, Answered(s) PROVE SocketInv'
  BY <1>7, StepAnswered
<1>8. CASE UNCHANGED vars
  <2>1. UNCHANGED <<file, state, connects, ep_fd, rtsp_sd, rtp_sd, rtcp_sd, rtp_port, rtcp_port,
                    enable, described, asked, failed, forgot, failures>>
    BY <1>8 DEF vars, fds
  <2> QED
    BY <2>1 DEF SocketInv, TypeOK, OwnFiles, Is, HeldOnce, Stages, OnePort, LiveMedia, Watched,
                AskedNow, NothingLost, Held
<1> QED
  BY <1>1, <1>2, <1>3, <1>4, <1>5, <1>6, <1>7, <1>8 DEF Next

-----------------------------------------------------------------------------
(* The theorems                                                            *)

\* The inductive invariant holds in every reachable state.
LEMMA SocketsInvariant == Spec => []SocketInv
  BY InitSocketInv, StepSocketInv, PTL DEF Spec

\* Every variable keeps its type, whatever number of sessions, descriptors
\* and ports there is.
THEOREM SocketTypes == Spec => []TypeOK
<1>1. SocketInv => TypeOK
  BY DEF SocketInv
<1> QED
  BY <1>1, SocketsInvariant, PTL

\* What a session holds is its own and is held once, so the close() of a
\* reconnection or of the end of a session never hits another one's file
\* (cleanup_before_reconn(), destroy_rtsp_sess()).
THEOREM DescriptorsAreOwn == Spec => []HoldsItsOwn
<1>1. SocketInv => HoldsItsOwn
  <2> SUFFICES ASSUME SocketInv, NEW s \in Sessions
               PROVE  LET has(sd, kind, port) ==
                              sd # NoFd => /\ file[sd].kind = kind /\ file[sd].of = s
                                           /\ file[sd].port = port
                          held == <<ep_fd[s], rtsp_sd[s], rtp_sd[s][Video], rtcp_sd[s][Video],
                                    rtp_sd[s][Audio], rtcp_sd[s][Audio]>>
                      IN  /\ has(ep_fd[s], "epoll", NoPort)
                          /\ has(rtsp_sd[s], "tcp", NoPort)
                          /\ \A m \in Media : /\ has(rtp_sd[s][m], "udp", rtp_port[s][m])
                                              /\ has(rtcp_sd[s][m], "udp", rtcp_port[s][m])
                          /\ \A i, j \in 1..6 : i # j /\ held[i] = held[j] => held[i] = NoFd
    BY DEF HoldsItsOwn
  <2> DEFINE held == <<ep_fd[s], rtsp_sd[s], rtp_sd[s][Video], rtcp_sd[s][Video],
                       rtp_sd[s][Audio], rtcp_sd[s][Audio]>>
  <2>1. /\ Is(ep_fd[s], "epoll", s, NoPort) /\ Is(rtsp_sd[s], "tcp", s, NoPort)
        /\ \A m \in Media : /\ Is(rtp_sd[s][m], "udp", s, rtp_port[s][m])
                            /\ Is(rtcp_sd[s][m], "udp", s, rtcp_port[s][m])
    BY DEF SocketInv, OwnFiles
  <2>2. \A i, j \in 1..6 : i # j /\ held[i] = held[j] => held[i] = NoFd
    <3>1. Video \in Media /\ Audio \in Media /\ Video # Audio
      BY DEF Media, Video, Audio
    <3>2. \A m, n \in Media :
              /\ rtp_sd[s][m] # NoFd => rtp_sd[s][m] # rtcp_sd[s][n]
              /\ m # n /\ rtp_sd[s][m] # NoFd => rtp_sd[s][m] # rtp_sd[s][n]
              /\ m # n /\ rtcp_sd[s][m] # NoFd => rtcp_sd[s][m] # rtcp_sd[s][n]
      BY DEF SocketInv, HeldOnce
    <3>3. /\ ep_fd[s] # NoFd => /\ ep_fd[s] # rtsp_sd[s]
                                /\ \A m \in Media : ep_fd[s] # rtp_sd[s][m] /\ ep_fd[s] # rtcp_sd[s][m]
          /\ rtsp_sd[s] # NoFd => \A m \in Media : /\ rtsp_sd[s] # rtp_sd[s][m]
                                                   /\ rtsp_sd[s] # rtcp_sd[s][m]
      BY <2>1 DEF Is
    <3>4. \A i \in 1..6 : i \in {1, 2, 3, 4, 5, 6}
      OBVIOUS
    <3> QED
      BY <3>1, <3>2, <3>3, <3>4
  <2> QED
    BY <2>1, <2>2 DEF Is
<1> QED
  BY <1>1, SocketsInvariant, PTL

\* No file stays open that no session holds, unless setup_transport() or
\* destroy_rtsp_sess() left it.
THEOREM NoDescriptorIsLost == Spec => []NothingLost
<1>1. SocketInv => NothingLost
  BY DEF SocketInv
<1> QED
  BY <1>1, SocketsInvariant, PTL

\* The descriptor of a port is the one that listens on it, and what a session
\* holds for a purpose is handled as that.
LEMMA HandledAsHeld ==
    ASSUME SocketInv, NEW s \in Sessions, NEW m \in Media
    PROVE  /\ rtp_sd[s][m] # NoFd => Handler(s, rtp_sd[s][m]) = <<"rtp", m>>
           /\ rtcp_sd[s][m] # NoFd => Handler(s, rtcp_sd[s][m]) = <<"rtcp", m>>
<1>1. ASSUME NEW n \in Media
      PROVE  Min({n}) = n /\ Max({n}) = n
  BY <1>1 DEF Min, Max, Media, Video, Audio
<1>2. \A k, n \in Media :
          /\ rtp_sd[s][k] # NoFd => rtp_sd[s][k] # rtcp_sd[s][n]
          /\ k # n /\ rtp_sd[s][k] # NoFd => rtp_sd[s][k] # rtp_sd[s][n]
          /\ k # n /\ rtcp_sd[s][k] # NoFd => rtcp_sd[s][k] # rtcp_sd[s][n]
  BY DEF SocketInv, HeldOnce
<1>3. /\ rtp_sd[s][m] # NoFd => rtp_sd[s][m] # rtsp_sd[s]
      /\ rtcp_sd[s][m] # NoFd => rtcp_sd[s][m] # rtsp_sd[s]
  BY DEF SocketInv, OwnFiles, Is
<1>4. ASSUME rtp_sd[s][m] # NoFd
      PROVE  Handler(s, rtp_sd[s][m]) = <<"rtp", m>>
  <2>1. {n \in Media : rtp_sd[s][m] = rtp_sd[s][n]} = {m}
    BY <1>2, <1>4
  <2> QED
    BY <1>1, <1>3, <1>4, <2>1 DEF Handler
<1>5. ASSUME rtcp_sd[s][m] # NoFd
      PROVE  Handler(s, rtcp_sd[s][m]) = <<"rtcp", m>>
  <2>1. {n \in Media : rtcp_sd[s][m] = rtcp_sd[s][n]} = {m}
    BY <1>2, <1>5
  <2>2. \A n \in Media : rtcp_sd[s][m] # rtp_sd[s][n]
    BY <1>2, <1>5
  <2> QED
    BY <1>1, <1>3, <1>5, <2>1, <2>2 DEF Handler
<1> QED
  BY <1>4, <1>5

\* As long as a medium is asked for, an open socket of it is watched on each of the
\* two ports the server was told, and its events are handled as that medium's; none is
\* taken for a medium whose setup_transport() failed, and the event loop hears of
\* nothing it does not know.
THEOREM AskedPortsAreServed == Spec => []AskedPortsListen
<1>1. SocketInv => AskedPortsListen
  <2> SUFFICES ASSUME SocketInv, NEW s \in Sessions, ep_fd[s] # NoFd
               PROVE  /\ \A m \in enable[s] \ failed[s] :
                            /\ Listens(s, <<"rtp", m>>, rtp_port[s][m])
                            /\ Listens(s, <<"rtcp", m>>, rtcp_port[s][m])
                            /\ asked[s].media = m => /\ Listens(s, <<"rtp", m>>, asked[s].rtp)
                                                     /\ Listens(s, <<"rtcp", m>>, asked[s].rtcp)
                      /\ \A fd \in file[ep_fd[s]].watched :
                            /\ Handler(s, fd)[1] # "none"
                            /\ Handler(s, fd)[2] \notin failed[s]
    BY DEF AskedPortsListen
  <2>1. ASSUME NEW m \in enable[s] \ failed[s]
        PROVE  /\ Listens(s, <<"rtp", m>>, rtp_port[s][m])
               /\ Listens(s, <<"rtcp", m>>, rtcp_port[s][m])
    <3>1. m \in Media
      BY DEF SocketInv, TypeOK
    <3>2. rtp_sd[s][m] # NoFd /\ rtcp_sd[s][m] # NoFd
      BY DEF SocketInv, LiveMedia
    <3>3. Is(rtp_sd[s][m], "udp", s, rtp_port[s][m]) /\ Is(rtcp_sd[s][m], "udp", s, rtcp_port[s][m])
      BY <3>1 DEF SocketInv, OwnFiles
    <3>4. rtp_sd[s][m] \in file[ep_fd[s]].watched /\ rtcp_sd[s][m] \in file[ep_fd[s]].watched
      BY DEF SocketInv, Watched
    <3>5. /\ Handler(s, rtp_sd[s][m]) = <<"rtp", m>>
          /\ Handler(s, rtcp_sd[s][m]) = <<"rtcp", m>>
      BY <3>1, <3>2, HandledAsHeld
    <3> QED
      BY <3>2, <3>3, <3>4, <3>5 DEF Listens, Is
  <2>2. ASSUME NEW m \in enable[s] \ failed[s], asked[s].media = m
        PROVE  asked[s].rtp = rtp_port[s][m] /\ asked[s].rtcp = rtcp_port[s][m]
    <3>1. m \in Media
      BY DEF SocketInv, TypeOK
    <3>2. NoMedium \notin Media /\ NoRequest.media = NoMedium
      BY DEF NoRequest, NoMedium, Media, Video, Audio
    <3>3. asked[s] # NoRequest
      BY <2>2, <3>1, <3>2
    <3> QED
      BY <2>2, <3>3 DEF SocketInv, AskedNow
  <2>3. ASSUME NEW fd \in file[ep_fd[s]].watched
        PROVE  Handler(s, fd)[1] # "none" /\ Handler(s, fd)[2] \notin failed[s]
    <3>1. fd \in Fds /\ fd # NoFd
      BY <2>3, SocketAssumption DEF SocketInv, TypeOK, Fds, NoFd
    <3>2. fd = rtsp_sd[s] \/ \E m \in Media : fd = rtp_sd[s][m] \/ fd = rtcp_sd[s][m]
      BY <2>3 DEF SocketInv, Watched
    <3>3. CASE fd = rtsp_sd[s]
      <4>1. Handler(s, fd) = <<"rtsp", NoMedium>>
        BY <3>3 DEF Handler
      <4>2. NoMedium \notin failed[s]
        <5>1. NoMedium \notin Media
          BY DEF NoMedium, Media, Video, Audio
        <5>2. failed[s] \in SUBSET Media
          BY DEF SocketInv, TypeOK
        <5> QED
          BY <5>1, <5>2
      <4> QED
        BY <4>1, <4>2
    <3>4. ASSUME NEW m \in Media, fd = rtp_sd[s][m] \/ fd = rtcp_sd[s][m]
          PROVE  Handler(s, fd)[1] # "none" /\ Handler(s, fd)[2] \notin failed[s]
      <4>1. m \notin failed[s]
        BY <3>1, <3>4 DEF SocketInv, LiveMedia
      <4>2. Handler(s, fd) = <<"rtp", m>> \/ Handler(s, fd) = <<"rtcp", m>>
        BY <3>1, <3>4, HandledAsHeld
      <4> QED
        BY <4>1, <4>2
    <3> QED
      BY <3>2, <3>3, <3>4
  <2> QED
    BY <2>1, <2>2, <2>3
<1> QED
  BY <1>1, SocketsInvariant, PTL

\* The server's ports are never stored with another medium that has its own
\* sockets: their client ports differ.
THEOREM AnswersFindTheirMedium == Spec => []AnswerFindsMedium
<1>1. SocketInv => AnswerFindsMedium
  <2> SUFFICES ASSUME SocketInv, NEW s \in Sessions, asked[s].media \in enable[s] \ failed[s]
               PROVE  AnswersFor(s, asked[s].rtp) \in
                          {asked[s].media} \cup (Media \ (enable[s] \ failed[s]))
    BY DEF AnswerFindsMedium
  <2> DEFINE m == asked[s].media
             S == {n \in Media : rtp_port[s][n] = asked[s].rtp}
  <2>1. m \in Media /\ asked[s] # NoRequest
    BY DEF SocketInv, TypeOK, NoRequest, NoMedium, Media, Video, Audio
  <2>2. m \in S
    BY <2>1 DEF SocketInv, AskedNow
  <2>3. Min(S) \in S
    BY <2>2, MinMedium
  <2>4. ASSUME NEW n \in S, n \in enable[s] \ failed[s], n # m
        PROVE  FALSE
    <3>1. /\ rtp_sd[s][m] # NoFd /\ rtp_sd[s][n] # NoFd /\ rtp_port[s][m] # NoPort
      BY <2>4 DEF SocketInv, LiveMedia
    <3>2. rtp_port[s][n] = rtp_port[s][m]
      BY <2>2
    <3>3. /\ file[rtp_sd[s][m]].port = rtp_port[s][m] /\ rtp_sd[s][m] \in Fds
          /\ file[rtp_sd[s][n]].port = rtp_port[s][n] /\ rtp_sd[s][n] \in Fds
      BY <2>1, <3>1 DEF SocketInv, OwnFiles, Is, TypeOK
    <3>4. rtp_sd[s][n] = rtp_sd[s][m]
      BY <3>1, <3>2, <3>3 DEF SocketInv, OnePort
    <3> QED
      BY <2>1, <2>4, <3>1, <3>4 DEF SocketInv, HeldOnce
  <2>5. Min(S) \in {m} \cup (Media \ (enable[s] \ failed[s]))
    BY <2>3, <2>4
  <2> QED
    BY <2>5 DEF AnswersFor
<1> QED
  BY <1>1, SocketsInvariant, PTL
=============================================================================
