# librtspcli in TLA+

Specifications of librtspcli, a small RTSP client library in C: a program opens
a channel to an RTSP server (`open_chn`), the library negotiates the session in
a thread of its own, receives video over UDP or interleaved in the RTSP
connection, puts frames together and gives them to the program's `store_frm`
callback; `close_chn` ends the session. The specifications are translated from
the C code; the line numbers they and `PROJECT.json` quote are those of the
repository (`src/`, `inc/`).

Modules are checked with TLC (`tlc -config X.cfg M`) and proved with TLAPS
(`tlapm M.tla` for each module `...Proofs`).

## The system

| part | state | operations | interacts with |
|---|---|---|---|
| Session thread, state machine (`rtsp_cli.c`) | `struct rtsp_sess`: `todo`, `handling_state`, `rtsp_state`, `cur_cseq`, supported methods, `sdp_info`, `rtp_rtcp[].enable`, keepalive counter | `rtsp_sess_thrd`, `start_playing`, `single_step`, `cleanup_before_reconn`, `run_rtsp_state_machine`, `create_`/`destroy_rtsp_sess` | calls the methods, the queue and the handlers; shares the session with the application's thread, without a lock |
| RTSP methods (`rtsp_method.c`) | none of its own | `send_method_*`, `produce_rtsp_req`, `setup_transport` | number requests, append them to the queue, choose the next medium, open sockets |
| Send queue (`send_queue.c`) | `send_queue`, a linked list; EPOLLOUT interest | `check_send_queue`, `consume_send_buf` | appended to by two threads, emptied by the session thread |
| Socket handlers (`sd_handler.c`) | `last_data`: bytes kept from the last `recv()` | `handle_rtsp_sd`, `recv_from_rtsp_sd`, `handle_intlvd_data`, `handle_rtp_sd` | call the parser, the state machine, the depacketiser |
| RTP depacketiser (`rtp.c`) | `frm_info`: one frame buffer per session | `handle_rtp_pkt` | calls `store_frm` |
| Parser (`parser.c`) | none | response line, headers, SDP | fills `struct rtsp_resp` |
| User interface (`librtspcli.c`) | global session list and its mutex | `open_chn`, `close_chn`, `chn_playing`, `init_`/`deinit_rtsp_cli` | runs in the application's threads on the session's fields |
| Wrappers (`util.c`) | none | `connect_nonb`, `monitor_`/`update_sd_event` | sockets and epoll |
| RTCP (`rtcp.c`), logging (`log.c`), list (`list.h`), demo | none | RTCP's handlers are empty | |

The hard behaviours, which `PROJECT.json` lists one by one as hazards:

* **two threads on one session**: `close_chn()` writes `todo`, `handling_state`
  and `cur_cseq` and appends to the queue while the session thread does too;
* **reconnection**: `cleanup_before_reconn()` resets a list of fields by hand;
  what it leaves (`send_queue`, `last_data`, `frm_info`) lives on;
* **answers out of step**: the state machine looks at `todo`, not at what was
  asked, and matches answers by `cur_cseq` alone;
* **time**: a keepalive every interval, a limit on the unanswered ones, answers
  that come late, servers that fall silent;
* **a byte stream** cut anywhere, read once per edge-triggered event;
* **packets** lost, doubled, reordered, of two media in one buffer;
* **ownership**: who frees a session, closes its sockets, removes it from the
  list, and when.

What makes each part right: the session asks for one thing at a time, moves on
answers to what it asked, sets up all media before it is ready, starts over from
nothing after a lost connection, notices a dead peer, and ends when told; the
queue keeps requests whole and in order; receiving hands over the server's
messages whole, once, in order; the depacketiser gives whole frames and confines
damage; a session is freed once, after its last use; a socket is closed once,
by whoever opened it.

## Modules

| module | models | specified by |
|---|---|---|
| `RtspSession` | session thread, methods, queue, `close_chn()`, with server and connection | `RtspProtocol` |
| `RtspProtocol` | what a session promises: the phases of the negotiation | |
| `RtspSessionProofs`, `SendQueueProofs`, `SessionListProofs`, `MediaSocketsProofs`, `RtpFrameProofs`, `StreamRecvProofs`, `RespParserProofs` | the theorems about these modules | |
| `LinkedListProofs` | lemmas about `LinkedList` that the two users of `list.h` share: its writes, and what a walk meets | |
| `SendQueue` | `send_queue` as memory: two threads, one pointer write at a time | the sequence in `QueueIntact` |
| `SessionList` | the life of sessions: `open_chn`, ending threads, `deinit_rtsp_cli`, user IDs, one list and one mutex | `SessionRegistry` |
| `SessionRegistry` | each channel enters the list once, at the end, and leaves it once | |
| `LinkedList` | `list.h`: the pointers an operation reads and the writes it makes | |
| `MediaSockets` | descriptors and ports of all sessions: `setup_transport()`, clean-up, destruction | |
| `StreamRecv` | `recv_from_rtsp_sd()`, `handle_intlvd_data()`, byte by byte | `MessageStream` |
| `MessageStream` | messages handed over whole, once, in order | |
| `RespParser` | one response from its text to the URI of the next SETUP | the declarative part of the module |
| `RtpFrame` | `handle_rtp_pkt()`, with packetiser and network | `FrameStream` |
| `FrameStream` | frames handed over whole, in order | |
| `MC...` | values of the constants for TLC | |

`RtspSession` is the centre; each of the others opens one thing that it takes as
given. Its `send_queue` is a sequence: `SendQueue` asks when the list of pointers
is one. Its response is a record: `StreamRecv` makes the response's text from
bytes, `RespParser` the record from the text. Its `Connect`, `Cleanup` and `Number`
open and close descriptors in `MediaSockets`. It lives from `Create` to `Free` in
`SessionList`. The packets that `StreamRecv` hands over are those that `RtpFrame`
handles. `SendQueue` and `SessionList` are built on `LinkedList`. The modules are
checked apart because the parts share little state: what one takes from another is
what the other's properties promise.

### RtspSession

The session thread is a `pc` over the stretches of its loop. A stretch ends
where the thread next reads or writes a field that `close_chn()` writes too:
`connect` (epoll, socket, `connect_nonb`), `loop` (`start_playing` or the keepalive
test, one per turn), `dispatch` (the switch on `todo`, which another thread may
have changed), `number` (the CSeq is drawn, the medium chosen), `append` (the
request joins the queue), `sendq` (`check_send_queue`), `wait` (`epoll_wait`),
`teardown` (the test that ends the session), `handle` (the events: a response,
end of file, a send), `settle` (`handling_state` back to INIT). `close_chn()` is
`CloseChn` (`todo`), `CloseMarksDoing` (`handling_state`), `CloseLoadsCSeq` and
`CloseStoresCSeq` (`sess_cseq()`'s read and write), `CloseAppends`.

A request is its method, CSeq and medium; a response adds what the parser hands
to the state machine: the CSeq (0 for a refusal, whose headers are not parsed),
the methods of `Public`, the enabled media of the SDP. The server answers in
order. Epoll's edge is the variable `edge`: `recv()` is called only after
something new arrived, or after `update_sd_event()`, which makes the kernel look
again (`Rearm`). Time is the flag `due`, set by `Tick` when a keepalive interval
has passed.

Faults are chosen by the constant `Faults` and counted: the connection refused
(`refuse`), a system call failing while it is made (`abort`), closed by the server
(`fin`), reset (`rst`), an error answer (`error`), a server that falls silent
(`mute`), a failing send or receive (`io`), a partial send (`short`), an allocation
that fails (`nomem`).

`clean` is a history variable: the last reconnection left no request in the
queue. The code takes that for granted and does not see to it (a request left over
puts every later answer one step behind, see below), so the properties of the negotiation are stated for it (`Clean`, which also says
that `close_chn()` was not called).

### StreamRecv

Bytes, with the values the code compares (`$`, CR, LF). One pass of the loop of
`recv_from_rtsp_sd()` is one action; the code before the loop is `NothingKept`,
`CompletePacket`, `KeepMore`. `Cuts` says which parts of a message TCP may cut:
the header of a packet, its payload, a response; a segment may always end
between messages and hold several. The network moves only while the thread is
outside of `recv_from_rtsp_sd()`: inside, it looks at its buffer only. Sizes are
16-bit numbers of two bytes, as on the wire.

### RtpFrame

`handle_rtp_pkt()` is one action, since one thread calls it on one packet at a
time. A payload is a token <<frame, NALU, part>>; start codes and rebuilt NALU
headers are tokens too, so that the content of a frame is what the callback
gets. A packet of an unsupported kind gives the frame any type, because the code
never sets it. Order on the network is that of the server, unless `Faults` says
otherwise; `hurt` is a history variable of the tokens that were hit.

`Marked` allows the marker bit on audio packets; the run leaves it off, because
the code then stores a frame without audio and cuts the video frame around it.

### LinkedList, SendQueue

An operation of `list.h` is two things: the pointers it reads, all at its start,
and the sequence of single writes that follows (`ListAdd`, `ListDel`). A module
performs the writes one by one. Writes take effect in the order of the program and
are seen at once: what a compiler or a processor may reorder is not modelled.

In `SendQueue` an entry is a piece of memory that is allocated for a request
(`MakeRequest`), linked (`ReadTail`, `WriteNext`, `LinkEntry`) by the session
thread or by an application thread in `close_chn()`, and taken by the session thread
(`SendFirst`, `ReadNeighbours`, `WriteNext`, `FreeSent`). Freed memory is given out
again. `clash` is a history variable: two appends were under way at once, or an
append read the entry that was being deleted, or the head while its neighbours were
being rewritten. `QueueIntact` and `LinkedIsSent` are about the executions before
that; `TakesLiveEntries` holds in all of them. An execution stops at its first
fault (a write to memory that is not owned), since C gives what follows no meaning.

What decides whether the thread gets to send is here too. `CloseChn` writes `todo`
(`teardown`) and `MakeRequest` queues the TEARDOWN later; a request of the thread itself
overwrites `todo`. `Leave` is the test of `single_step()`, TEARDOWN and an empty queue;
`Destroy` frees the session, `UseFreed` is `close_chn()` going on with it. `SocketBlocks` and
`SocketOpens` are a socket with EPOLLERR or EPOLLHUP, or one that is full, and what ends
it, a reconnection included, which keeps the queue and resets `todo`.

### SessionList, SessionRegistry

Agents are the application's thread in `open_chn()`, the thread of each session and
the caller of `deinit_rtsp_cli()`. `Create` is everything up to and with
`pthread_create()`, so that the thread runs before the session is in the list;
`BeginInsert` to `EndInsert` is the append under `list_mutex`. `destroy_rtsp_sess()` is
`BeginDestroy` and `Search` (the walk, without the mutex, one entry at a time),
`BeginRemove` to `EndRemove` (under it) and `Free`. `DeinitBegins` and `DeinitGoesOn` are
the walk of `deinit_rtsp_cli()` with the successor it reads ahead, and the end of
the mutex. What touches memory or a mutex that is gone is a `fault`, named for where
it happens, and ends the execution. A stale user ID (`UseStaleId`) is the
application's fault "user"; when the address has been given to another session the
call goes to that one.

`overlap` is a history variable: two `destroy_rtsp_sess()` ran at once, or deinit was
called while a session's thread was alive. The refinement (`RegistrySpec`) maps the
pointers to the channels a walk meets and holds with overlap too, up to the fault.

### MediaSockets

The process has a table of open files; `socket()` takes the lowest free descriptor
and `close()` frees it for anybody. A port is free, or in use by one socket. Each
session has the fields of the C struct: `ep_fd`, `rtsp_sd`, `rtp_sd`, `rtcp_sd`, the
ports and `enable`. `setup_transport()` has three outcomes: `TransportSetUp`,
`TransportFails` (an error before the descriptors are stored, in any of the calls: what
was opened, one socket or both, bound or not, stays open and is forgotten) and `TransportUndone` (an error after that: both are closed).
`SendSetup` goes on in each of them, as the code does, and asks for the ports stored
at that time. The server repeats the client's ports; `AnswersFor` is the search of
`run_rtsp_state_machine()`. OPTIONS and DESCRIBE are folded into `Connected`, and a
SETUP with no medium left is not sent here (`RtspSession` has it). All sessions use
UDP; an interleaved one opens no media sockets.

### RespParser

A text is a sequence of lines, of the kinds that the parser tells apart, each with
what its value says, 0 being that `sscanf()` finds nothing; the last line may lack its end.
`Malformed` and `Fails` are the places where a header that cannot be read ends
the parsing, `Content` has the one for a Content-Length. `get_next_line()` is `NextLine`:
NULL at the end of an unended text and in front of an empty line, the empty string
behind the last line end. Each loop of `parser.c` is a `pc`, one turn an action. The
description is a piece of memory with a state (none, live, freed), so that the session
may be left with a pointer to a freed one. Reading from NULL, or from a freed
description, is `Fault`. `Respond` and `Setup` are what `run_rtsp_state_machine()` and
`make_rtsp_uri()` do with the result. The properties say, from the text alone and
without its order of reading, what must come out: the CSeq of the last header that has
one, the fields of the Transport if there is only one, the description behind the
first Content-Length that is long or unreadable, if it is long. A second Content-Length hides a third right behind it, but only
in a response without a description; `OneLength` leaves out those texts in
`FaultsExactly`. `TextsAssumption` says that a text has a line and that one without a
last line end does not end in an empty line; nothing else is assumed of it.

## Runs

### Runs that pass

| run | question | bounds |
|---|---|---|
| `MCRtspSession` `lossy` | types; one request at a time; ready only with all media set up; a description behind every SETUP; the inductive invariant. `close_chn()` may run at every point | 1 fault of any kind but a refusal, 2 media, 1.5 million states |
| `refusing` | only OK answers to what was asked advance the session; it implements `RtspProtocol` | four sets of methods, four descriptions, 2 refusals or lost connections, 550 000 states |
| `alive` | a session gets to play, a dead peer is noticed while playing, a live one is not counted out | 2 faults of 5 kinds, 2 media, 66 000 states |
| `MCStreamRecv` `whole` | receiving implements `MessageStream`; nothing is left over; all is handed over | 5 messages of 3 kinds, cut in payloads |
| `cuts` | packets come out whole and in order though responses are cut too and the connection is lost once; indices stay in range | 3 messages on each of 2 connections, 840 000 states |
| `MCRtpFrame` `frames` | frames are stored whole, with their types and in order, until a fault; a fault hurts only the frames it hits and the one after a hurt marker, and all others fit into the buffer | 3 frames of 1 to 3 packets, 1 other packet, 2 faults of 4 kinds, 38 000 states |
| `MCSendQueue` `race` | the queue is first in, first out and complete unless operations clash; what is linked is sent, but for a TEARDOWN that comes as the thread leaves; a freed entry is never taken | 1 application thread, 4 requests, 3 entries, 251 000 states |
| `MCSessionList` `ends` | the list is whole and holds no freed session; one end at a time is safe; deinit frees all; `SessionRegistry`; nobody waits for ever | 3 channels, 2 entries, 150 000 states |
| `MCMediaSockets` `ports` | descriptors are the session's own; where they are lost; each port asked for has an open, watched socket whose events find their medium; an answer finds it too | 2 sessions, 8 descriptors, 4 ports, 3 connections, 1 failing `setup_transport()`, 881 000 states |
| `MCRespParser` `texts` | what the session takes is what the text says; which texts are read past their end; the parser comes to an end | 37 000 texts: 4 headers, 4 lines of description, 3 fields of Transport, 334 000 states |

Why these bounds are enough. Two media are all the code has. `KEEPALIVE_CNT` is 3
in the code and 2 or 1 here: with 1 there is a keepalive below the limit and one at
it, with 2 one can be answered and the next not. CSeqs wrap at 8, and a negotiation
with both media takes five requests, so that they wrap while the session plays or
after close. A fault can fall between any two steps; the second one of `refusing` and
`alive` falls into the recovery from the first. Queues have no bound of their own:
while the session negotiates they hold a request or two, and `KEEPALIVE_CNT` limits
the keepalives. `StreamRecv`'s packets hold a `$` in their payload, a response of
`whole` is longer than a header, and in `cuts` it is the four bytes that
`rtsp_msg_complete()` asks for, so that every cut of it is tried; three messages give
one that is kept, one that completes it and one that follows; the buffer is larger
than all that can arrive in a run. `RtpFrame`'s frames cover a parameter set
followed by a fragmented picture, a frame of fragments and a single packet, and the
largest reaches MAX_FRM_SZ when the reserved header is added.

Deadlock is not checked: a session ends, a server may stop sending.

In `race` one append by the application, three requests of the thread and three
entries make every pair of operations meet, at an empty queue, at its last entry and
with others behind, and make memory be used again. In `ends` three channels give a
walk that has an entry in front of and one behind its own; with two entries the
third channel's session takes the memory of one that ended (three entries passed
too). In `ports` two sessions need six descriptors each when both media are up and
share eight and four ports, so that descriptors and ports run out, and closed ones
go to the other session; three connections are a reconnection of one session with
the other connected. In `texts` four headers hold each that the state machine reads
in every order, with one that ends the parsing; each of the others that may do so comes
in front of and behind a CSeq; and four lines of description an m= line, its attributes and what
comes between or after.

### Fairness

`RtspSession`'s `FairSpec` has weak fairness of the session thread and of
`close_chn()` once it is called (threads are scheduled), of the server unless it
is mute (`mute` is a fault) and of `Tick` (time passes). No fault has to happen
and `close_chn()` need not be called; `connect_nonb()` has a timeout and
`epoll_wait()` one too, so no call of the thread blocks forever. `StreamRecv`:
what is sent arrives, and the thread handles it; the server need not send.
`RtpFrame`: the server sends its video and the thread reads. `SendQueue`: each
thread goes on with an append or deletion it began, and the session thread, while it is
in its loop and for as long as the socket takes data, with a queue that is not empty,
since `check_send_queue()` asks for EPOLLOUT. Nothing makes anybody produce a request,
and nothing makes a blocked socket open again: `LinkedIsSent` assumes that it takes data
from some time on (`<>[]writable`), and lets a TEARDOWN go that is linked when the
thread has made its last test. `SessionList`: some agent that began to open or destroy a session
makes a step; no channel has to be opened, no session has to end. `RespParser`: the
thread runs.

`Prompt` is an assumption on a server and not on the code: it answers within a
keepalive interval, as long as it is there. `KeepalivesUnanswered` needs it: an
answer that comes after the next keepalive was numbered no longer matches
`cur_cseq` (`rtsp_cli.c:409`), is dropped, and its keepalive stays counted.

`StartsPlaying` makes an exception that the code forces: a connection that is
reset while the session negotiates is never noticed, because an event with EPOLLERR or EPOLLHUP is skipped and nothing times out before the
session plays.

### Runs that find a disagreement

Each checks one sentence of a comment or an assertion and ends in a
counterexample; `PROJECT.json` has the quotations and the lines.

* `v_close`: `close_chn()` writes `todo`, the session thread writes its own next
  request over it, and the thread never ends ("stop thread and free resource").
* `v_assert`: a segment that ends inside an interleaved header fails the
  `assert()` of `handle_intlvd_data()`.

### What else the models show

For these the properties above make an exception, and name it.

* A medium counts as set up when its SETUP is built. After the video's SETUP is
  refused, the audio's answer makes the session ready without video (`MediaSetUp`
  fails with "error" in `Faults`).
* Answers later than a keepalive interval stay counted as unanswered, and a slow
  server is declared dead (`KeepalivesUnanswered` fails without `Prompt`).
* A request left in the queue by a lost connection puts the next connection's
  answers one step behind, for good: it never plays (`StartsPlaying` fails
  without `Clean`).
* A thread that tests the empty queue between `close_chn()`'s write of `todo` and
  its append ends without sending the TEARDOWN; if it ends at once, `close_chn()` uses
  the session when it is freed (`Leave`, `UseFreed` in `SendQueue`).
* Appends of two threads at once, or an append while the last entry is deleted,
  lose requests from the queue or leave one that is reached in one direction only;
  what was linked may then never be sent (`SendQueue` with `clash`).
* Two sessions that end at once, or `deinit_rtsp_cli()` with running threads, read
  freed sessions, delete an entry twice or lock a destroyed mutex (`SessionList`
  with `overlap`). With three channels a walk may also miss its own session, because
  an entry it stands on was freed and used again: that session is not freed.
* A session whose thread ends before it is in the list stays there, without a
  thread, until `deinit_rtsp_cli()`; one whose epoll events cannot be allocated is
  never freed.
* `destroy_rtsp_sess()` leaves the UDP sockets open, and so does `setup_transport()`
  when it fails early; the SETUP is sent all the same, for port 0 or for the ports
  of the last connection (`forgot`, `failed` in `MediaSockets`).
* The control attribute of a medium is lost behind any line but `a=rtpmap` and
  `b=AS` (a `c=` line, an `a=fmtp`), and a default track is asked for.
* A Content-Type without a description, and a description whose last line is an
  attribute of a medium, are read from NULL; a description that fails to parse is
  freed and stays in the session (`FaultsExactly`).
* Frames that a lost marker joins are appended to one another without a test and overrun
  `frm_buf` if they are large enough (`FrameFits` is about frames that nothing hit).
* Part of a packet kept in `last_data`, and part of a frame kept in `frm_info`,
  survive a reconnection and swallow or join what comes first on the new connection
  (`stale` in `StreamRecv`, `hurt` in `RtpFrame`); the bytes of a response in several
  segments are counted twice (`EndOfText`).
* A marker on an audio packet stores a frame without audio, and cuts the video frame
  it falls into (`Marked` in `RtpFrame`).

## Proofs

All theorems hold for every value of the constants; the assumptions are those that
the modules name for their constants (`KEEPALIVE_CNT` positive, more than one CSeq,
list heads and NULL no entries, `Nobody` no channel, an even number of ports, ...),
and for some theorems the ones given below. There is no bound on keepalives,
channels, threads, entries, descriptors, ports, frames, packets or faults. TLC checked the safety properties
first, on the instances above.

| module | theorem | states | besides the constants' assumptions |
|---|---|---|---|
| `RtspSessionProofs` | `TypeCorrect` | `[]TypeOK` | |
| | `SessionInvariant` | `[](TypeOK /\ SessionInv)` | |
| | `LockstepHolds` | `[]Lockstep` | |
| | `SetupNeedsDescription` | `[]SetupHasDescription` | |
| | `AnswersAdvance` | `AdvancesOnAnswer` | |
| | `ImplementsProtocol` | `ProtocolSpec`, the refinement | |
| | `ReadyIsSetUp` | `[]MediaSetUp` | no error answers |
| | `KeepalivesCount` | `[]KeepalivesUnanswered` | `Prompt`, `NothingDropped` |
| | `OnlyTheMuteAreDead` | `DeadIsMute`, an action property | `Prompt`, `NothingDropped` |
| `SendQueueProofs` | `QueueTypes` | `[]TypeOK` | |
| | `NoEntryTwice` | `[]TakesLiveEntries` | |
| | `OnlyClashesFault` | `[]FaultsNeedClash`: a clash, or the session is gone | |
| | `QueueIsIntact` | `[]QueueIntact` | |
| `SessionListProofs` | `ListHolds` | `[](TypeOK /\ ListInv /\ AloneInv)` | |
| | `ListTypes` | `[]TypeOK` | |
| | `ListChangesAtOnce` | `[][RegistryStep]_vars` | |
| | `OneEndSafe` | `[]OneEndIsSafe` | |
| | `DeinitLeavesNone` | `[]DeinitFreesAll` | |
| | `ListIsIntact` | `[]ListIntact` | |
| | `ListIsRegistry` | `RegistrySpec`, the refinement | |
| `MediaSocketsProofs` | `SocketTypes` | `[]TypeOK` | |
| | `DescriptorsAreOwn` | `[]HoldsItsOwn` | |
| | `NoDescriptorIsLost` | `[]NothingLost` | |
| | `AskedPortsAreServed` | `[]AskedPortsListen` | |
| | `AnswersFindTheirMedium` | `[]AnswerFindsMedium` | |
| `RtpFrameProofs` | `FrameTypes` | `[]TypeOK` | |
| | `DamageIsConfined` | `[]Resynchronises` | only video has the marker (`~Marked`) |
| | `FramesFit` | `[]FrameFits` | `~Marked`, each frame fits behind the header |
| | `FramesInOrder` | `FrameSpec`, the refinement | `~Marked` |
| `StreamRecvProofs` | `TypeCorrect` | `[]TypeOK` | only payloads are cut, `[]Steady` |
| | `WholeMessages` | `StreamSpec`, the refinement | the same |
| | `NothingIsLeftOver` | `[]NothingLeftOver` | the same |
| | `AssertIsTrue` | `[]AssertHolds` | the same |
| | `PacketsAreFiltered` | `[]PacketsFiltered` | no header is cut, `[]Roomy` |
| | `AssertIsTrueWhenCut` | `[](~stale => AssertHolds)` | no header is cut, `[]Roomy` |
| `RespParserProofs` | `TypeInvariance` | `[]TypeOK` | |
| | `HeadersAreUnderstood` | `[]HeadersUnderstood` | |
| | `SetupFollowsControl` | `[]SetupAsksForControl` | |
| | `FaultsAreKnown` | `[]FaultsExactly` | |

Each module proves one inductive invariant (two in `SendQueue`, `SessionList` and
`StreamRecv`) from
an `Init...` lemma and one `Step...` lemma or case per action.

### RtspSession

`Lockstep` and `AdvancesOnAnswer` do not prove themselves: that an answer is to
what the session asked depends on every message in flight. `SessionInv` has three
parts. `ProtocolInv` says which `todo` goes with which state, description and
transports, at whatever point `close_chn()` writes TEARDOWN in between; it needs
the request that the thread is about to number (`pc = "number"`), since the branch
for SETUP reads the description a second time there. `LockstepInv` bounds
what is outstanding by `handling`, the request under construction included.
`AnswerInv` says that while a clean session negotiates, all that is in the queue
or under way asks for `todo` under `cur_cseq`, and that a refusal has CSeq 0.
`LockstepInv` gives that nothing is in flight when `todo` or `cur_cseq` changes,
which makes `AnswerInv` inductive; the two together give `AdvancesOnAnswer`
(with `cur_cseq` # 0: the wrap of the CSeq to 0 is the one case where a refusal
passes for an answer, and the property says so). The run `lossy` checks `SessionInv`.
The refinement uses `ProtocolInv`: choosing the medium is `RequestMedium`, a
response is `LearnMethods`, `Describe`, `BecomeReady` or `Play`, a reconnection is
`Drop`; the other steps stutter.

`MediaSetUp` compares what the session counts (a SETUP that was built) with what the
server has set up. `TransportInv` adds to `SessionInv` that each medium counted is set up
by the server or has its SETUP in the queue or under way, and that all are set up
when nothing is outstanding. The assumption `"error" \notin Faults` is needed:
after a refusal the code does get ready too early, which is a fact about the code
that the README lists under "What else the models show".

`KeepaliveInv` says of a session that plays that all outstanding requests are
keepalives under `cur_cseq`, and that, with a prompt server that is not silent, a
keepalive falls due only when the last one was answered. Without `Prompt` a late answer
stays counted; `NothingDropped` leaves out the three faults after which an answer
never comes on a connection that stays up (a refusal is parsed without CSeq, a partial send
loses a request, a failing allocation loses one before it is queued). They are what
the run `alive` leaves out too. The other faults stay possible at every step.

### SendQueue

`QueueInv` holds in all interleavings up to the first fault, those that lose entries included. The
point is which pointers a race can damage. `prev` pointers and the list's order can be
anything after a clash; `NextInv` says what survives: every `next` leads to an entry that
is linked and not freed, and no two lead to the same one, but for the two of a deletion
whose first write is done. `FirstInv` says that the first entry's `prev` is the head; so what the
deletion reads as neighbours is right, and nothing leads to the freed entry any more. That gives
`TakesLiveEntries`. `AloneInv` is for executions without a clash: `TailInv` says that the `prev` of the
head is the last entry, in whatever stage the one append is, and so that appending
writes to memory that is there: no fault without a clash, unless the session was freed
under `close_chn()`, which has nothing to do with the pointers.

`OrderInv`, also for executions without a clash, names the sequence of entries that the
`next` pointers lead round through and says that what was linked is what was sent
followed by its requests; the first of it is sent already from `SendFirst` to the write
that takes it out (`BeingTaken`). `Backward` says the same of the `prev` pointers, but for
two of them while an operation is half done (`Excused`). A step leaves the sequence as it is
(`QueueStays`), puts an entry behind it (`OrderLinkEntry`) or takes the first one off
(`OrderDeleting`). When no operation is going on, `Walk` meets this sequence
(`WalkIsRound`), which makes it `QueueIntact`.

### SessionList

`ListInv` holds in all executions. `RingInv` says that the members (sessions inserted
and not yet unlinked) are a ring whenever nobody is inside of the mutex, and how far its
holder has got with its pointers otherwise (`Inserting`, `Removing`). A ring is stated without
recursion: the `next` of each member leads to a member or the head, `prev` is its
inverse, and there is a rank that rises along `next`, so that the pointers close at the head only. The
rank after an insertion or a removal is given explicitly in the proof. `AloneInv` is
for executions without `overlap`: at most one agent ends a session, a walk stands on a
member or on the head, what a thread looks for is its own session, and `deinit_rtsp_cli()`
has the head's successor in hand and the one behind it in `ahead`. It gives `OneEndIsSafe` and, since the walk
of deinit ends when the first one is the head, `DeinitFreesAll`. `RegistryStep` says
that members come one by one with the last write of an insertion and go one by one with
that of a removal, in all executions.

For `ListIntact` and `RegistrySpec` the walk itself is needed, which is a recursive
function. `WalkFacts` and `WalkMeetsAll` in `LinkedListProofs` say what it computes:
pointers that rise along a rank lead round through one sequence (`ClimbEnds`, `OneRound`),
which is no longer than there are entries (`AtMostEntries`, the pigeonhole), and the walk
is that sequence. With the rank of `Ring` this gives `ListingInv`: a walk meets exactly
`Reached`, the members without the one that `list_del()` already leads past, each once.
The last write of an insertion then appends one entry (`RoundAppend`) and the second
write of a removal takes one out (`RoundWithout`); all others leave the walk as it is,
since the pointers lead round through one sequence only.

### MediaSockets

`SocketInv` says who holds what. `OwnFiles`: each stored descriptor is an open file of
the session, of the kind and port stored with it. `HeldOnce`: no descriptor is
stored twice. `Stages`: what is stored in each stage of a session. `OnePort`: no port
has two sockets. `LiveMedia`: a medium that did not fail has both its sockets, and one that
failed has none. `Watched`: epoll watches them and nothing unknown. `AskedNow`: the SETUP that waits
for its answer named the two ports stored now. Together they give the sockets that `AskedPortsListen` asks for. `NothingLost` is part of it. Sessions, descriptors and
ports are any number; that `socket()` finds the lowest free descriptor needs the
least element of a set of numbers (`MinInSet`), and closing is one lemma for all who close
(`StepRelease`).

### RtpFrame

Frames, NALUs, fragments, other packets and faults are any number. `OrderInv`: packets that
no fault hit keep their place, among themselves and to what is to be sent; a
packet on its way that nothing hurt is there once. `Apart` says what the one frame
buffer has to do with a frame whose packets are unhurt: once the marker of the frame
before it is through, the buffer holds exactly what the latest of its packets makes of
the frame (`UpTo`), whatever happens to the frames around it. This is what makes
`Resynchronises` inductive. `InTurn` and `Unharmed` are for executions without a fault:
the stored frames are the first ones, in order, and the buffer what is through of the
next. A marker on an audio packet cuts the frame around it (see "What else the models
show"), and with it these properties are false; therefore `~Marked`, as in the run.
`FramesFit` is about the `memcpy()` of each packet, the one with the marker included
(`Overruns` looks at what the packet makes of the buffer before the marker empties it). It needs that each
frame fits, for the code does not compare; then `Apart` bounds what is there when a packet of an unhurt
frame comes, whatever was left in the buffer by damaged ones (`NextFills`).

A frame is a sequence of sequences flattened. What `FlattenSeq` computes for every
sequence is proved (`FlattenAppend`) by induction over the set of numbers for which it
holds (`SetInduction`, from the least element of its complement).

### StreamRecv

`Steady` says that no connection was lost inside of a packet, and that never more waits in
the socket than one `recv()` takes. It and `Cuts \subseteq {"payload"}` are what the code
takes for granted. Without the first, the rest of a packet in `last_data` swallows bytes of
the next connection; without the second, a full `recv_buf` ends anywhere; with headers or
responses cut, the `assert()` fails (`v_assert`) or a response is lost. Segments may still
end in every byte of a payload and between messages, and hold any number of messages.

The proof looks at a connection as one stream of bytes `F`, in which the messages sent end
at `e`, the first one not handed over starts at `b`, and what `recv()` returned ends at `g`;
in every state there are such, and none of them is a variable. `Laid` says that the
messages lie in `F` one after the other, `WireInv` that what is under way and what has
arrived follow `g`, and that all of it that ends a segment is `Resting`: behind a message,
or in a packet with its header complete. `KeptInv` says that `last_data` holds how the packet
at `b` begins, header included, and not all of it; `PhaseInv` and `TextInv` where in `F`
`recv_buf`, `ptr` and `new` are. `HandedInv` says that what was handed over is how the
messages sent begin, and that at most one response of the rest is under way: the
client asks for one thing at a time.

The invariant decides what the code has to guess from the bytes it sees. `Reach`: past the
start of a message there is all of it or a packet's header at least. So a `$` at `new` is a
packet whose size can be read (`AtPacket`), a `$` behind it ends a response that is complete, all other
bytes belong to the one response (`AtByte`), and what is in `last_data` can be measured
(`KeptFacts`). Each message handed over is then `sent[Len(handed) + 1]` (`Handing`),
which is the refinement, and at rest `Resting` and `b` leave no byte over.

`PacketsFiltered` is about what the above leaves out: responses are cut anywhere, and a
connection is lost in the middle of one. The code then hands over parts of responses, joins
text of two connections and counts sizes twice, and still must lose no packet and its place
in none. Its one hypothesis on the state is `Roomy`: `last_data` and what `recv()` got fit
into a buffer together, so that one `recv()` takes all that waits. The code relies on that
without a check (its `memcpy()` of text has no bound), and in the instance of `cuts` TLC
finds `Roomy` true in every state. No constant gives it, since text that is kept from one
lost connection after the other adds up.

The second invariant leaves out what was handed over of the responses, where messages and
units no longer agree. `BaseInv` holds wherever the stream is cut: sizes, indices and what is
kept between two receives. `FilterInv` says up to which place `q` of the stream the loop has
looked. Either `q` is where a message ends or inside of a response, and `last_data` holds no
part of a packet (`AtText`); or `last_data` holds the stretch of the stream from where a
packet begins up to `q`, its header and not all of it (`InPacket`). The packets handed over
are those of the messages that end before `q`, and no byte from `new` to `ptr` is a `$`.
What `last_data` holds of text is not said, only that it begins with no `$`: so neither what
is counted twice nor what is left of a lost connection can be taken for a packet
(`TextTaken`, `KeptOrText`), and text handed over adds nothing to the packets
(`HandUnit`). A `$` that the loop finds is then the first byte of a packet whose header is
there (`AtUnread`), and its size is the right one (`PacketUnread`). A connection that
is lost with no part of a packet kept starts again from `q = 0` (`FilterReset`).
The packets of a sequence are counted by `PacketsIn`, a recursive function whose
values are proved to exist and to be the only ones (`FiltersExist`, `FiltersUnique`).

### RespParser

Texts are any, of any length; `ParserInv` has one part per place of the loops.
`HeadersInv`: `resp` holds what the headers in front of `line` say (`RespFrom`), and none
of them stops the loop, by being the Content-Type or by being unreadable. `ContentInv`: all headers that are seen are read, the
Content-Type is passed, and the first length that is long or unreadable is still to come, or
a long one was passed in a response without a description. `SdpInv` and `AttributesInv`: the description holds what
its lines in front of the position say (`SdpFrom`), and none of those was bad. `Outcome`
and `RespondInv`: the description is not there, or complete, or freed and bad.
`SessionInv`: the session has it when it builds its next SETUP. Each turn of a loop moves
the position by one line and adds that line to `RespFrom` or `SdpFrom`; that there is a
line to be read, or else one of the texts of `Astray`, is `FaultsExactly`. The fields of
a Transport are a loop of their own, and what it returns is proved by counting the fields
that it has passed (`TransportGives`).

Three properties were too simple before they were proved, which no text of the run
shows: a second Content-Length does not start a description again, of two Transports each
overwrites some fields of the other, and a length may hide the next one. The definitions
say now what the code does with such texts.

### What is not proved

* Liveness (fairness and ENABLED are out of the prover's reach): `StartsPlaying`,
  `DeadPeerDetected`, the ends of walks and parsers, delivery. The runs check it.
* The sizes of `StreamRecv` where responses are cut: `Roomy` is a hypothesis there, which is
  the bound itself, and nothing is proved without it. `TypeOK` does not hold for every value of the
  constants: the size of an incomplete response is counted twice, and only a buffer larger
  than all that arrives keeps the index inside. `MessagesAssumption` does not bound that sum.
* What becomes of a packet whose header is cut, or of which a part was kept from a lost
  connection: the code loses it, as `v_assert` and `stale` say, and there is nothing to prove.

Induction over data is done by hand where it was needed: the library's induction theorems
take an operator, but a set of numbers that has 0 and with each number the next is all
of them (`SetInduction`, `CountTo`), and the set is made of the numbers for which the statement holds.

## Not modelled

* Text that no property tells apart: the wording of requests, dates, user agents,
  the status table, logging. Values of headers are their meaning, not their digits.
* The parser's failing allocations, the attribute lists that are never freed, an
  `a=control` with no value behind a blank, and buffers that are too small for a
  header. A response cut by TCP is read by `RespParser` as a text that ends early, but
  what lies in the buffer behind the bytes counted twice is not.
* The addresses that a SETUP answer fills in (its ports are), and PAUSE,
  GET_PARAMETER, SET_PARAMETER, which nothing asks for.
* Memory models weaker than sequential consistency, and whatever happens after a
  fault.
* Interleaved and UDP sessions in one instance of `MediaSockets`, and more than one
  failing `setup_transport()`.
* RTCP (its handlers are empty; no RTCP packet is ever queued), logging, the
  demo, and SIGPIPE, which only the demo handles.
* Running out of buffer: `recv_buf` full (100 KiB at one event), and what is overwritten
  behind `frm_buf`; frames larger than `MAX_FRM_SZ` are not sent in the runs.

## Plan

The modules planned are written, and all are proved about: every safety property that a run
checks is stated by a theorem, under the assumptions of the table. What remains with TLC is liveness.
