----------------------------- MODULE SessionList ----------------------------
(***************************************************************************)
(* The life of sessions: open_chn() and create_rtsp_sess() in threads of   *)
(* the application, destroy_rtsp_sess() at the end of each session thread  *)
(* and in deinit_rtsp_cli(), chn_playing() and close_chn() with the        *)
(* address of the session as the user's ID.  rtsp_sess_list is written     *)
(* under list_mutex and walked without it, pointer by pointer.             *)
(* An entry of the list is the memory of a session; freed memory may be    *)
(* allocated for another one.                                              *)
(***************************************************************************)
EXTENDS LinkedList, SequencesExt

CONSTANTS
    Channels,       \* the calls of open_chn()
    Nobody          \* no channel, no holder of the mutex

ASSUME ChannelsAssumption == Nobody \notin Channels

VARIABLES
    links,          \* the pointers of rtsp_sess_list and of every entry
    owner,          \* the channel whose session lies in an entry, or Nobody
    addr,           \* where the session of a channel lies; its user ID
    mutex,          \* the agent that holds list_mutex, Nobody, or Destroyed
    pc,             \* what each agent is doing
    tmp,            \* cursor of the walk in destroy_rtsp_sess()
    sessp,          \* the session an agent destroys
    todo,           \* the pointer writes an agent has still to do
    ahead,          \* the successor deinit's list_for_each_entry_safe() keeps
    overlap,        \* history: destroy_rtsp_sess() ran twice at once, or
                    \* deinit_rtsp_cli() was called with threads running
    fault           \* what touched memory, or a mutex, that is no more

vars == <<links, owner, addr, mutex, pc, tmp, sessp, todo, ahead, overlap, fault>>

\* The application's thread in open_chn(), the thread of the session, and the
\* thread that calls deinit_rtsp_cli().
Opener(c) == <<"open_chn", c>>
SessThread(c) == <<"rtsp_sess_thrd", c>>
Deinit == <<"deinit_rtsp_cli", Nobody>>
Openers == {Opener(c) : c \in Channels}
SessThreads == {SessThread(c) : c \in Channels}
Destroyers == SessThreads \cup {Deinit}
Agents == Openers \cup Destroyers

Destroyed == <<"destroyed", Nobody>>
Unlocked == <<"unlocked", Nobody>>

Allocated == {e \in Entries : owner[e] # Nobody}
Valid(p) == p = ListHead \/ p \in Allocated

HasSession(c) == addr[c] \in Entries /\ owner[addr[c]] = c

Destroying == {"walking", "found", "deleting", "unlinked"}
Faults == {"none", "walk", "lock", "list", "free", "run", "user"}

TypeOK ==
    /\ links \in Links
    /\ owner \in [Entries -> Channels \cup {Nobody}]
    /\ addr \in [Channels -> Entries \cup {NULL}]
    /\ mutex \in Agents \cup {Unlocked, Destroyed}
    /\ \A t \in Openers : pc[t] \in {"start", "created", "adding", "open", "failed"}
    /\ \A t \in Destroyers : pc[t] \in {"none", "running", "looping", "ended"} \cup Destroying
    /\ \A t \in Destroyers : tmp[t] \in Cells \cup {NULL} /\ sessp[t] \in Entries \cup {NULL}
    /\ \A t \in Agents : todo[t] \in Seq(Writes) /\ Len(todo[t]) <= 4
    /\ ahead \in Pointers
    /\ overlap \in BOOLEAN
    /\ fault \in Faults

\* init_rtsp_cli() has been called.
Init ==
    /\ links = EmptyList
    /\ owner = [e \in Entries |-> Nobody]
    /\ addr = [c \in Channels |-> NULL]
    /\ mutex = Unlocked
    /\ pc = [t \in Agents |-> IF t \in Openers THEN "start" ELSE "none"]
    /\ tmp = [t \in Destroyers |-> NULL]
    /\ sessp = [t \in Destroyers |-> NULL]
    /\ todo = [t \in Agents |-> << >>]
    /\ ahead = NULL
    /\ overlap = FALSE
    /\ fault = "none"

Goto(t, label) == pc' = [pc EXCEPT ![t] = label]
Fault(what) == fault' = what /\
               UNCHANGED <<links, owner, addr, mutex, pc, tmp, sessp, todo, ahead, overlap>>

-----------------------------------------------------------------------------
(* open_chn() and create_rtsp_sess()                                       *)

\* Everything is allocated and the thread of the session runs; the session is
\* not in the list yet.
Create(c) ==
    /\ pc[Opener(c)] = "start" /\ pc[Deinit] = "none"
    /\ \E e \in Entries \ Allocated :
          /\ owner' = [owner EXCEPT ![e] = c]
          /\ links' = [links EXCEPT ![e] = [f \in Fields |-> NULL]]
          /\ addr' = [addr EXCEPT ![c] = e]
    /\ pc' = [pc EXCEPT ![Opener(c)] = "created", ![SessThread(c)] = "running"]
    /\ UNCHANGED <<mutex, tmp, sessp, todo, ahead, overlap, fault>>

\* An allocation or pthread_create() fails: open_chn() returns 0.  When it is
\* the one for the epoll events the session stays allocated.
CreateFails(c) ==
    /\ pc[Opener(c)] = "start" /\ pc[Deinit] = "none"
    /\ \/ owner' = owner
       \/ \E e \in Entries \ Allocated : owner' = [owner EXCEPT ![e] = c]
    /\ Goto(Opener(c), "failed")
    /\ UNCHANGED <<links, addr, mutex, tmp, sessp, todo, ahead, overlap, fault>>

\* Mutant: without the mutex.
BeginInsertUnlocked(c) ==
    LET t == Opener(c)
    IN  /\ pc[t] = "created"
        /\ todo' = [todo EXCEPT ![t] = ListAddTail(links, addr[c])]
        /\ Goto(t, "adding")
        /\ UNCHANGED <<links, owner, addr, mutex, tmp, sessp, ahead, overlap, fault>>

\* pthread_mutex_lock(), and what list_add_tail() reads.
BeginInsert(c) ==
    LET t == Opener(c)
    IN  /\ pc[t] = "created"
        /\ mutex = Unlocked
        /\ mutex' = t
        /\ todo' = [todo EXCEPT ![t] = ListAddTail(links, addr[c])]
        /\ Goto(t, "adding")
        /\ UNCHANGED <<links, owner, addr, tmp, sessp, ahead, overlap, fault>>

\* A pointer write of list_add_tail() or list_del() that is not the last.
WriteNext(t) ==
    /\ Len(todo[t]) > 1
    /\ LET w == Head(todo[t])
       IN  IF Valid(w.at)
           THEN /\ links' = Put(links, w)
                /\ todo' = [todo EXCEPT ![t] = Tail(@)]
                /\ UNCHANGED <<owner, addr, mutex, pc, tmp, sessp, ahead, overlap, fault>>
           ELSE Fault("list")

\* Mutant: the mutex is not unlocked.
WriteLastLocked(t, label) ==
    /\ Len(todo[t]) = 1
    /\ links' = Put(links, Head(todo[t]))
    /\ todo' = [todo EXCEPT ![t] = << >>]
    /\ Goto(t, label)
    /\ UNCHANGED <<owner, addr, mutex, tmp, sessp, ahead, overlap, fault>>

\* The last write, and pthread_mutex_unlock().
WriteLast(t, label) ==
    /\ Len(todo[t]) = 1
    /\ LET w == Head(todo[t])
       IN  IF Valid(w.at)
           THEN /\ links' = Put(links, w)
                /\ todo' = [todo EXCEPT ![t] = << >>]
                /\ mutex' = IF mutex = t THEN Unlocked ELSE mutex
                /\ Goto(t, label)
                /\ UNCHANGED <<owner, addr, tmp, sessp, ahead, overlap, fault>>
           ELSE Fault("list")

EndInsert(c) == pc[Opener(c)] = "adding" /\ WriteLast(Opener(c), "open")

-----------------------------------------------------------------------------
(* destroy_rtsp_sess()                                                     *)

\* list_for_each_entry() reads the first entry, without the mutex.
BeginDestroy(t, e) ==
    /\ sessp' = [sessp EXCEPT ![t] = e]
    /\ tmp' = [tmp EXCEPT ![t] = links[ListHead]["next"]]
    /\ Goto(t, "walking")
    /\ overlap' = (overlap \/ \E u \in Destroyers \ {t} : pc[u] \in Destroying \cup {"looping"})

\* Where the agent goes on after destroy_rtsp_sess().
AfterDestroy(t) == IF t = Deinit THEN "looping" ELSE "ended"

\* Mutant: found is not looked at.
SearchFoundAlways(t) ==
    /\ pc[t] = "walking"
    /\ tmp[t] \in {sessp[t], ListHead}
    /\ Goto(t, "found")
    /\ UNCHANGED <<links, owner, addr, mutex, tmp, sessp, todo, ahead, overlap, fault>>

\* Mutant: the walk ends at the last entry, which is not compared.
SearchButLast(t) ==
    /\ pc[t] = "walking"
    /\ IF tmp[t] = ListHead \/ links[tmp[t]]["next"] = ListHead
       THEN Goto(t, AfterDestroy(t))
       ELSE tmp[t] = sessp[t] /\ Goto(t, "found")
    /\ UNCHANGED <<links, owner, addr, mutex, tmp, sessp, todo, ahead, overlap, fault>>

\* One step of the walk: the session is found, the list has ended, or pos is
\* the next entry.
Search(t) ==
    /\ pc[t] = "walking"
    /\ \/ /\ tmp[t] = sessp[t]
          /\ Goto(t, "found")
          /\ UNCHANGED <<links, owner, addr, mutex, tmp, sessp, todo, ahead, overlap, fault>>
       \/ /\ tmp[t] = ListHead
          /\ Goto(t, AfterDestroy(t))
          /\ UNCHANGED <<links, owner, addr, mutex, tmp, sessp, todo, ahead, overlap, fault>>
       \/ /\ tmp[t] \notin {sessp[t], ListHead}
          /\ IF tmp[t] \in Allocated /\ links[tmp[t]]["next"] \in Cells
             THEN /\ tmp' = [tmp EXCEPT ![t] = links[tmp[t]]["next"]]
                  /\ UNCHANGED <<links, owner, addr, mutex, pc, sessp, todo, ahead, overlap, fault>>
             ELSE Fault("walk")

\* pthread_mutex_lock(), and what list_del() reads: LIST_POISON when another
\* agent has deleted the session, and the first write goes there.
BeginRemove(t) ==
    /\ pc[t] = "found"
    /\ \/ /\ mutex = Unlocked
          /\ IF sessp[t] \in Allocated /\ links[sessp[t]]["next"] \in Cells
             THEN /\ mutex' = t
                  /\ todo' = [todo EXCEPT ![t] = ListDel(links, sessp[t])]
                  /\ Goto(t, "deleting")
                  /\ UNCHANGED <<links, owner, addr, tmp, sessp, ahead, overlap, fault>>
             ELSE Fault("list")
       \/ mutex = Destroyed /\ Fault("lock")

EndRemove(t) == pc[t] = "deleting" /\ WriteLast(t, "unlinked")

\* Close the descriptors and free what the session holds, and the session.
Free(t) ==
    /\ pc[t] = "unlinked"
    /\ IF sessp[t] \in Allocated
       THEN /\ owner' = [owner EXCEPT ![sessp[t]] = Nobody]
            /\ Goto(t, AfterDestroy(t))
            /\ UNCHANGED <<links, addr, mutex, tmp, sessp, todo, ahead, overlap, fault>>
       ELSE Fault("free")

-----------------------------------------------------------------------------
(* The session thread, the user's calls and deinit_rtsp_cli()              *)

\* rtsp_sess_thrd() comes to rtn: TEARDOWN was answered, or a call failed.
ThreadEnds(c) ==
    /\ pc[SessThread(c)] = "running"
    /\ HasSession(c)
    /\ BeginDestroy(SessThread(c), addr[c])
    /\ UNCHANGED <<links, owner, addr, mutex, todo, ahead, fault>>

\* The thread goes on with a session that somebody else has freed.
ThreadRunsOn(c) ==
    /\ pc[SessThread(c)] = "running"
    /\ ~HasSession(c)
    /\ Fault("run")

\* chn_playing() or close_chn() with the ID of a session that has been freed.
UseStaleId(c) ==
    /\ pc[Opener(c)] = "open"
    /\ addr[c] \notin Allocated
    /\ Fault("user")

\* list_for_each_entry_safe() reads the first entry and the one after it.  The
\* application calls no open_chn() during deinit_rtsp_cli() or after it.
DeinitBegins ==
    /\ pc[Deinit] = "none"
    /\ \A c \in Channels : pc[Opener(c)] \notin {"created", "adding"}
    /\ LET first == links[ListHead]["next"]
       IN  IF first = ListHead \/ first \in Allocated
           THEN /\ sessp' = [sessp EXCEPT ![Deinit] = IF first = ListHead THEN NULL ELSE first]
                /\ ahead' = links[first]["next"]
                /\ tmp' = [tmp EXCEPT ![Deinit] = links[ListHead]["next"]]
                /\ Goto(Deinit, IF first = ListHead THEN "looping" ELSE "walking")
                /\ overlap' = (overlap \/ \E t \in SessThreads : pc[t] \notin {"none", "ended"})
                /\ UNCHANGED <<links, owner, addr, mutex, todo, fault>>
           ELSE Fault("walk")

\* pos = n, n = pos->next; after the head the mutex is destroyed.
DeinitGoesOn ==
    /\ pc[Deinit] = "looping"
    /\ IF ahead = ListHead \/ sessp[Deinit] = NULL
       THEN /\ mutex' = Destroyed
            /\ Goto(Deinit, "ended")
            /\ UNCHANGED <<links, owner, addr, tmp, sessp, todo, ahead, overlap, fault>>
       ELSE IF ahead \in Allocated
            THEN /\ BeginDestroy(Deinit, ahead)
                 /\ ahead' = links[ahead]["next"]
                 /\ UNCHANGED <<links, owner, addr, mutex, todo, fault>>
            ELSE Fault("walk")

-----------------------------------------------------------------------------

Destroy(t) == Search(t) \/ BeginRemove(t) \/ EndRemove(t) \/ Free(t) \/ WriteNext(t)
Open(c) == BeginInsert(c) \/ EndInsert(c) \/ WriteNext(Opener(c))

\* What follows a fault is not defined by the language: nothing is claimed of it.
Next ==
    /\ fault = "none"
    /\ \/ \E c \in Channels :
            \/ Create(c) \/ CreateFails(c) \/ Open(c)
            \/ ThreadEnds(c) \/ ThreadRunsOn(c) \/ UseStaleId(c)
       \/ \E t \in Destroyers : Destroy(t)
       \/ DeinitBegins \/ DeinitGoesOn

\* Whoever began to open or to destroy a session goes on, one of them at a
\* time at least; nothing makes a channel be opened, a session end or the
\* application use its ID.
Continue ==
    /\ fault = "none"
    /\ (\E c \in Channels : Open(c)) \/ (\E t \in Destroyers : Destroy(t)) \/ DeinitGoesOn

Spec == Init /\ [][Next]_vars
FairSpec == Spec /\ WF_vars(Continue)

-----------------------------------------------------------------------------

\* The channels in the list, as a walk meets them.
ListedChannels == LET w == Walk(links, "next") IN [i \in DOMAIN w |-> owner[w[i]]]

\* No session that a walk can meet from the head is freed memory, not even
\* while a thread is in the middle of an insertion or a removal, and also not
\* when its thread ended before it was inserted (rtsp_cli.c:331, 352-374).
\* When nobody holds the mutex the list is whole in both directions
\* (rtsp_cli.c:340-342, 363-365).
ListIntact ==
    fault = "none" =>
        /\ Listed(links) \subseteq Allocated
        /\ mutex = Unlocked => Holds(links, Walk(links, "next"))

\* It takes two destroy_rtsp_sess() at once, or a deinit_rtsp_cli() while
\* sessions still run, for the library to touch memory that is gone: sessions
\* opened meanwhile, by any number of threads, never do it
\* (rtsp_cli.c:340-376, librtspcli.c:86-90).  Only the application's ID may be
\* stale.
OneEndIsSafe == ~overlap => fault \in {"none", "user"}

\* deinit_rtsp_cli() after the threads ended frees every session that is left,
\* also those whose thread ended before they were in the list and therefore
\* did not free them (rtsp_cli.c:331-342, 358-360).
DeinitFreesAll ==
    pc[Deinit] = "ended" /\ ~overlap =>
        \A c \in Channels : pc[Opener(c)] = "open" => ~HasSession(c)

\* Neither list_mutex nor a walk keeps anybody for good: every open_chn() and
\* every destroy_rtsp_sess() that began returns (rtsp_cli.c:340-374).
Busy(t) == pc[t] \in {"created", "adding", "looping"} \cup Destroying
Settles == <>[](fault = "none" => \A t \in Agents : ~Busy(t))

\* The list of pointers implements the registry, whatever happens at once.
Registry == INSTANCE SessionRegistry WITH
    registered <- ListedChannels,
    gone <- {c \in Channels : pc[Opener(c)] = "open"} \ ToSet(ListedChannels)
RegistrySpec == Registry!Spec
=============================================================================
