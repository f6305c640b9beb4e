------------------------------ MODULE SendQueue -----------------------------
(***************************************************************************)
(* The send queue of one session, as memory.  The session thread appends   *)
(* its requests (produce_rtsp_req, rtsp_method.c) and takes the first one  *)
(* when the socket is writable (consume_send_buf, send_queue.c); a thread  *)
(* of the application appends a TEARDOWN from within close_chn().  No lock *)
(* guards the list, so every pointer read and every pointer write is a     *)
(* step of its own.  Freed memory may be allocated again.  The session     *)
(* thread ends, and frees the session with the list's head, when it finds  *)
(* todo at TEARDOWN and the queue empty.                                   *)
(***************************************************************************)
EXTENDS LinkedList

CONSTANTS
    Thread,         \* the session thread
    Apps,           \* threads of the application that call close_chn()
    MaxRequests     \* bound on the requests made in a behaviour

ASSUME QueueAssumption ==
    /\ Thread \notin Apps
    /\ MaxRequests \in Nat \ {0}

VARIABLES
    links,          \* the pointers of the list head and of all entries
    request,        \* the request an allocated send_buf holds, or NoRequest
    pc,             \* what each thread is doing
    entry,          \* the entry a thread is working on
    todo,           \* the pointer writes a thread has still to do
    called,         \* application threads whose close_chn() was called
    closing,        \* of these: those that have not made their request yet
    teardown,       \* the session's todo is RTSP_METHOD_TEARDOWN
    writable,       \* the socket takes data: no EPOLLERR, EPOLLHUP, full buffer
    thread,         \* how far the session thread is: its loop, or its end
    made,           \* history: number of requests made so far
    teardowns,      \* history: those of them that close_chn() made
    linked,         \* history: requests whose list_add_tail() returned, in order
    sent,           \* history: requests handed to send(), in order
    clash,          \* history: two list operations met at the same pointers
    fault           \* a thread touched memory it does not own any longer

session == <<closing, teardown, writable, thread, teardowns>>
vars == <<links, request, pc, entry, todo, called, made, linked, sent,
          clash, fault, session>>

NoRequest == 0
Threads == {Thread} \cup Apps
Allocated == {e \in Entries : request[e] # NoRequest}
Valid(p) == (p = ListHead /\ thread # "ended") \/ p \in Allocated

QueueTypeOK ==
    /\ links \in Links
    /\ request \in [Entries -> 0..MaxRequests]
    /\ pc \in [Threads -> {"idle", "append", "adding", "sent", "deleting"}]
    /\ entry \in [Threads -> Entries \cup {NULL}]
    /\ \A t \in Threads : todo[t] \in Seq(Writes) /\ Len(todo[t]) <= 4
    /\ called \subseteq Apps
    /\ made \in 0..MaxRequests
    /\ linked \in Seq(1..MaxRequests)
    /\ sent \in Seq(1..MaxRequests)
    /\ clash \in BOOLEAN
    /\ fault \in BOOLEAN

TypeOK ==
    /\ QueueTypeOK
    /\ closing \subseteq called
    /\ {teardown, writable} \subseteq BOOLEAN
    /\ thread \in {"running", "leaving", "ended"}
    /\ teardowns \subseteq 1..made

Init ==
    /\ links = EmptyList
    /\ request = [e \in Entries |-> NoRequest]
    /\ pc = [t \in Threads |-> "idle"]
    /\ entry = [t \in Threads |-> NULL]
    /\ todo = [t \in Threads |-> << >>]
    /\ called = {}
    /\ made = 0
    /\ linked = << >>
    /\ sent = << >>
    /\ clash = FALSE
    /\ fault = FALSE
    /\ closing = {}
    /\ teardown = FALSE
    /\ writable = TRUE
    /\ thread = "running"
    /\ teardowns = {}

-----------------------------------------------------------------------------

\* The entry, or the head, that the append of thread t puts its entry behind:
\* the last pointer it writes is that one's.
Behind(t) == todo[t][Len(todo[t])].at

\* Two appends are in progress, or an append behind the entry that is being
\* deleted, or behind the head while an entry is being deleted: the pointers
\* one of the operations read are those the other writes.
Clashing ==
    \E t \in Threads : pc[t] = "adding" /\
        \/ \E u \in Threads \ {t} : pc[u] = "adding"
        \/ pc[Thread] = "deleting" /\ Behind(t) \in {entry[Thread], ListHead}

NoteClash == clash' = (clash \/ Clashing')

\* close_chn() begins: once in each application thread, with an ID that is
\* not stale.
CloseChn(t) ==
    /\ t \in Apps \ called
    /\ thread # "ended"
    /\ called' = called \cup {t}
    /\ closing' = closing \cup {t}
    /\ teardown' = TRUE
    /\ UNCHANGED <<links, request, pc, entry, todo, made, linked, sent, clash,
                   fault, writable, thread, teardowns>>

\* alloc_send_buf() and the text of the request, in memory only t knows: the
\* session thread's next request, for which it wrote todo (start_playing() and
\* the keepalive), or the TEARDOWN of close_chn().
MakeRequest(t) ==
    /\ pc[t] = "idle"
    /\ made < MaxRequests
    /\ IF t = Thread THEN thread = "running" ELSE t \in closing /\ thread # "ended"
    /\ teardown' = (teardown /\ t # Thread)
    /\ closing' = closing \ {t}
    /\ teardowns' = IF t = Thread THEN teardowns ELSE teardowns \cup {made + 1}
    /\ \E e \in Entries \ Allocated :
          /\ request' = [request EXCEPT ![e] = made + 1]
          /\ links' = [links EXCEPT ![e] = [f \in Fields |-> NULL]]
          /\ entry' = [entry EXCEPT ![t] = e]
    /\ made' = made + 1
    /\ pc' = [pc EXCEPT ![t] = "append"]
    /\ UNCHANGED <<todo, called, linked, sent, clash, fault, writable, thread>>

\* list_add_tail() reads head->prev.
ReadTail(t) ==
    /\ pc[t] = "append"
    /\ thread # "ended"
    /\ todo' = [todo EXCEPT ![t] = ListAddTail(links, entry[t])]
    /\ pc' = [pc EXCEPT ![t] = "adding"]
    /\ UNCHANGED <<links, request, entry, called, made, linked, sent, fault, session>>
    /\ NoteClash

\* Mutant: the last entry stays, as if list_is_singular() were asked.
MoreThanOne(l) == ~ListEmpty(l) /\ l[ListHead]["next"] # l[ListHead]["prev"]

\* list_empty() in consume_send_buf()
SomethingToSend(l) == ~ListEmpty(l)

\* The EPOLLOUT that check_send_queue() asked for: list_empty(),
\* list_first_entry() and send_buf_data(); whatever send() returns, the entry is
\* deleted.
SendFirst ==
    /\ pc[Thread] = "idle"
    /\ thread = "running"
    /\ writable
    /\ SomethingToSend(links)
    /\ LET first == links[ListHead]["next"]
       IN  IF first \in Allocated
           THEN /\ sent' = Append(sent, request[first])
                /\ entry' = [entry EXCEPT ![Thread] = first]
                /\ pc' = [pc EXCEPT ![Thread] = "sent"]
                /\ fault' = fault
           ELSE /\ fault' = TRUE
                /\ UNCHANGED <<sent, entry, pc>>
    /\ UNCHANGED <<links, request, todo, called, made, linked, clash, session>>

\* list_del() reads the pointers of the entry.
ReadNeighbours ==
    /\ pc[Thread] = "sent"
    /\ todo' = [todo EXCEPT ![Thread] = ListDel(links, entry[Thread])]
    /\ pc' = [pc EXCEPT ![Thread] = "deleting"]
    /\ UNCHANGED <<links, request, entry, called, made, linked, sent, fault, session>>
    /\ NoteClash

\* The next write of list_add_tail() or list_del().
WritePointer(t) ==
    /\ todo[t] # << >>
    /\ LET w == Head(todo[t])
       IN  IF Valid(w.at)
           THEN links' = Put(links, w) /\ fault' = fault
           ELSE links' = links /\ fault' = TRUE
    /\ todo' = [todo EXCEPT ![t] = Tail(@)]
    /\ UNCHANGED <<request, called, made, sent, clash, session>>

\* A write after which the operation goes on, or only the free is left.
WriteNext(t) ==
    /\ Len(todo[t]) > 1 \/ pc[t] = "deleting"
    /\ WritePointer(t)
    /\ UNCHANGED <<pc, entry, linked>>

\* prev->next = new: the request is in the list and list_add_tail() returns.
LinkEntry(t) ==
    /\ Len(todo[t]) = 1
    /\ pc[t] = "adding"
    /\ WritePointer(t)
    /\ linked' = Append(linked, request[entry[t]])
    /\ pc' = [pc EXCEPT ![t] = "idle"]
    /\ entry' = [entry EXCEPT ![t] = NULL]

\* list_del() returns, and free_send_buf() frees the entry.
FreeSent ==
    /\ pc[Thread] = "deleting"
    /\ todo[Thread] = << >>
    /\ request' = [request EXCEPT ![entry[Thread]] = NoRequest]
    /\ pc' = [pc EXCEPT ![Thread] = "idle"]
    /\ entry' = [entry EXCEPT ![Thread] = NULL]
    /\ UNCHANGED <<links, todo, called, made, linked, sent, clash, fault, session>>

-----------------------------------------------------------------------------
\* What the end of the thread leaves as it is.
queue == <<links, request, pc, entry, todo, called, made, linked, sent, clash>>

\* Mutant: the thread leaves as soon as todo is TEARDOWN.
LeavesAtOnce(l) == TRUE
\* "wait until all buffer in queue are sent out"
MayLeave(l) == ListEmpty(l)

\* single_step() finds todo at TEARDOWN and an empty queue: enable = 0.  The
\* events of this step are still handled; none of them is an EPOLLOUT, which
\* check_send_queue() asks for when it finds something in the queue.
Leave ==
    /\ pc[Thread] = "idle"
    /\ thread = "running"
    /\ teardown
    /\ MayLeave(links)
    /\ thread' = "leaving"
    /\ UNCHANGED <<queue, fault, closing, teardown, writable, teardowns>>

\* destroy_rtsp_sess() frees the session; what is still in the queue is leaked.
Destroy ==
    /\ thread = "leaving"
    /\ thread' = "ended"
    /\ UNCHANGED <<queue, fault, closing, teardown, writable, teardowns>>

\* close_chn() goes on to use a session that is gone.
UseFreed(t) ==
    /\ thread = "ended"
    /\ t \in closing \/ pc[t] = "append"
    /\ fault' = TRUE
    /\ UNCHANGED <<queue, session>>

\* The server, or the network, stops taking data; EPOLLERR and EPOLLHUP are
\* skipped, so nothing is sent on such a socket.
SocketBlocks ==
    /\ writable
    /\ writable' = FALSE
    /\ UNCHANGED <<queue, fault, closing, teardown, thread, teardowns>>

\* The server reads again; or, between two steps of the thread, the connection
\* was made anew: todo is NONE then, and the queue is what it was.
SocketOpens ==
    /\ ~writable
    /\ writable' = TRUE
    /\ teardown' \in {teardown, FALSE}
    /\ teardown' # teardown => pc[Thread] = "idle" /\ thread = "running"
    /\ UNCHANGED <<queue, fault, closing, thread, teardowns>>

Consume == SendFirst \/ ReadNeighbours \/ FreeSent
Produce(t) == ReadTail(t) \/ WriteNext(t) \/ LinkEntry(t)

\* What follows a fault is not defined by the language: nothing is claimed of it.
Next ==
    /\ ~fault
    /\ \/ Consume
       \/ \E t \in Threads : MakeRequest(t) \/ Produce(t)
       \/ \E t \in Apps : CloseChn(t) \/ UseFreed(t)
       \/ Leave \/ Destroy
       \/ SocketBlocks \/ SocketOpens

\* The threads run: a list operation that began goes on, and as long as the
\* session thread is in its loop and the socket takes data, a queue that is not
\* empty gets its EPOLLOUT (check_send_queue).  Nothing makes a thread produce
\* another request, and nothing makes a socket that blocks open again.
Fairness ==
    /\ WF_vars(~fault /\ Consume)
    /\ \A t \in Threads : WF_vars(~fault /\ Produce(t))

Spec == Init /\ [][Next]_vars
FairSpec == Spec /\ Fairness

-----------------------------------------------------------------------------

InRange(s) == {s[i] : i \in DOMAIN s}

\* The entry at the head is never freed memory: consume_send_buf() does not
\* send, delete and free an entry twice (send_queue.c:97-101), not even when
\* appends and deletions write over each other's pointers.
TakesLiveEntries ==
    ~ListEmpty(links) /\ ~fault => links[ListHead]["next"] \in Allocated

\* No list operation is going on.
Quiet == \A t \in Threads : pc[t] \in {"idle", "append"}

Queued == [i \in DOMAIN Walk(links, "next") |-> request[Walk(links, "next")[i]]]

\* As long as no two appends are made at once, no append meets the deletion of
\* the last entry and the session is there, the queue is first in, first out, and
\* complete: when no operation is going on the list holds, in both directions, the
\* requests that were linked and not yet sent (rtsp_method.c:109,
\* send_queue.c:96-101), and nothing freed was touched.  The deletion of an entry
\* that others follow does no harm to an append.
QueueIntact ==
    ~clash /\ thread # "ended" =>
        /\ ~fault
        /\ Quiet => /\ linked = sent \o Queued
                    /\ Holds(links, Walk(links, "next"))

\* As long as no operations clash, a request that is linked is sent once the
\* socket takes data for good, whatever it did before.  The thread's end is no
\* excuse for a request of its own: it waits until these are sent out
\* (rtsp_cli.c:132).  It is one for the TEARDOWN that it is all about, which
\* close_chn() may link after the thread's test (rtsp_cli.c:131-135).
LinkedIsSent ==
    [](~clash) /\ <>[]writable =>
        \A r \in 1..MaxRequests :
            r \in InRange(linked) ~>
                \/ r \in InRange(sent)
                \/ r \in teardowns /\ thread # "running"
=============================================================================
