-------------------------- MODULE SendQueueProofs ---------------------------
(***************************************************************************)
(* Theorems about SendQueue, for every number of threads that call         *)
(* close_chn(), of entries and of requests, with the appends and deletions *)
(* meeting in whatever way they may.                                       *)
(***************************************************************************)
EXTENDS SendQueue, LinkedListProofs

\* What an appending thread's entry is before list_add_tail() returns.
Adding(t) == pc[t] \in {"append", "adding"}

\* The entries that were linked, and are not freed yet.
Linked == Allocated \ {entry[t] : t \in {u \in Threads : Adding(u)}}

Entry == entry[Thread]

\* The cell whose next pointer is written last by an append that is under way,
\* and what is still to be written.
AddingBehind(t, tail) ==
  LET e == entry[t] IN
    /\ todo[t] \in {<<Write(ListHead, "prev", e), Write(e, "next", ListHead),
                      Write(e, "prev", tail), Write(tail, "next", e)>>,
                    <<Write(e, "next", ListHead), Write(e, "prev", tail),
                      Write(tail, "next", e)>>,
                    <<Write(e, "prev", tail), Write(tail, "next", e)>>,
                    <<Write(tail, "next", e)>>}
    /\ Len(todo[t]) <= 2 => links[e]["next"] \in Cells
    /\ Len(todo[t]) <= 1 => links[e]["prev"] = tail

\* The same for the deletion of the first entry, which n follows.
DeletingBefore(n) ==
  /\ todo[Thread] \in {<<Write(n, "prev", ListHead), Write(ListHead, "next", n),
                         Write(Entry, "next", LIST_POISON),
                         Write(Entry, "prev", LIST_POISON)>>,
                       <<Write(ListHead, "next", n),
                         Write(Entry, "next", LIST_POISON),
                         Write(Entry, "prev", LIST_POISON)>>,
                       <<Write(Entry, "next", LIST_POISON),
                         Write(Entry, "prev", LIST_POISON)>>,
                       <<Write(Entry, "prev", LIST_POISON)>>,
                       <<>>}
  /\ n # Entry
  /\ n \in Entries =>
       /\ n \in Linked
       /\ Len(todo[Thread]) = 3 => links[n]["prev"] = ListHead
       /\ Len(todo[Thread]) > 2 => \A p \in Cells : links[p]["next"] = n => p = Entry
  /\ Len(todo[Thread]) > 2 =>
       \A p \in Cells : links[p]["next"] = Entry => p = ListHead
  /\ Len(todo[Thread]) <= 2 => \A p \in Cells : links[p]["next"] # Entry

\* What each thread works on.
ThreadsInv ==
  /\ todo \in [Threads -> Seq(Writes)]
  /\ \A t \in Threads :
       /\ pc[t] = "idle" <=> entry[t] = NULL
       /\ entry[t] # NULL => entry[t] \in Allocated
       /\ pc[t] \in {"sent", "deleting"} => t = Thread /\ entry[t] \in Linked
       /\ pc[t] \in {"idle", "append", "sent"} => todo[t] = <<>>
       /\ \A u \in Threads \ {t} : entry[t] = entry[u] => entry[t] = NULL
       /\ pc[t] = "adding" => \E tail \in Cells : AddingBehind(t, tail)

\* The two pointers to one entry while it moves up to the head.
MovingUp(p, q) ==
  /\ pc[Thread] = "deleting" /\ Len(todo[Thread]) = 2
  /\ {p, q} = {ListHead, Entry}

\* No entry has two predecessors, but for the moment in which it moves up; one
\* that is not linked has none.
NextInv ==
  /\ \A p \in Cells : links[p]["next"] \in Entries => links[p]["next"] \in Linked
  /\ \A p, q \in Cells :
       links[p]["next"] = links[q]["next"] /\ links[p]["next"] \in Entries =>
         (p = q \/ MovingUp(p, q))
  /\ \A e \in Linked :
       (pc[Thread] = "deleting" /\ e = Entry) \/ links[e]["next"] \in Cells
  /\ links[ListHead]["next"] \in Cells /\ links[ListHead]["prev"] \in Cells

\* The first entry points back to the head, also while it is taken out.
FirstInv ==
  /\ links[ListHead]["next"] \in Entries =>
       links[links[ListHead]["next"]]["prev"] = ListHead
  /\ pc[Thread] = "sent" =>
       /\ links[Entry]["prev"] = ListHead
       /\ \A p \in Cells : links[p]["next"] = Entry => p = ListHead
  /\ pc[Thread] = "deleting" =>
       \E n \in Cells : DeletingBefore(n)

\* Appends and deletions may overwrite each other's pointers, and requests get
\* lost; but what consume_send_buf() finds at the head is linked once only.
QueueInv == ThreadsInv /\ NextInv /\ FirstInv
SafeQueue == ~fault => QueueInv

-----------------------------------------------------------------------------
(* What holds as long as no operations clash.                              *)

Last == links[ListHead]["prev"]

\* The entry that was the only one, between the write that makes the head its
\* own last and the one that poisons its next pointer.
Leaving(p) ==
  /\ pc[Thread] = "deleting" /\ p = Entry /\ Len(todo[Thread]) \in {2, 3}
  /\ Last = ListHead /\ \A t \in Threads : pc[t] # "adding"

\* Nothing but c is followed by the head.
IsTail(c) ==
  /\ c \in Linked \cup {ListHead}
  /\ c \in Linked => links[c]["next"] = ListHead
  /\ \A p \in Linked \cup {ListHead} :
       links[p]["next"] = ListHead => (p = c \/ Leaving(p))

TailInv ==
  /\ ~Clashing
  /\ \A t \in Threads : pc[t] = "adding" =>
       /\ IsTail(Behind(t))
       /\ Last = IF Len(todo[t]) = 4 THEN Behind(t) ELSE entry[t]
       /\ Len(todo[t]) <= 2 => links[entry[t]]["next"] = ListHead
  /\ (\A t \in Threads : pc[t] # "adding") => IsTail(Last)
  /\ pc[Thread] = "deleting" =>
       /\ Len(todo[Thread]) = 4 => todo[Thread][1].at = links[Entry]["next"]
       /\ Len(todo[Thread]) = 3 => todo[Thread][1].to = links[Entry]["next"]
       /\ Len(todo[Thread]) <= 3 => Last # Entry

\* The session thread and the applications touch only memory they own, until
\* two operations meet at the same pointers, or close_chn() is overtaken by the
\* end of the thread.
FaultsNeedClash == fault => clash \/ thread = "ended"

AloneInv == ~clash /\ thread # "ended" => ~fault /\ TailInv

-----------------------------------------------------------------------------
\* init_send_queue() leaves a queue that is well typed and empty.
LEMMA InitQueue == Init => QueueTypeOK /\ SafeQueue
<1> SUFFICES ASSUME Init PROVE QueueTypeOK /\ SafeQueue
  OBVIOUS
<1>1. /\ \A c \in Cells : links[c]["next"] = IF c = ListHead THEN ListHead ELSE NULL
      /\ \A c \in Cells : links[c]["prev"] = IF c = ListHead THEN ListHead ELSE NULL
  BY WriteFacts DEF Init, EmptyList
<1>2. links \in Links
  BY WriteFacts DEF Init, EmptyList, Links
<1>3. QueueTypeOK
  <2>1. /\ request \in [Entries -> 0..MaxRequests] /\ made \in 0..MaxRequests
        /\ pc \in [Threads -> {"idle", "append", "adding", "sent", "deleting"}]
        /\ entry \in [Threads -> Entries \cup {NULL}]
    BY QueueAssumption DEF Init, NoRequest
  <2>2. \A t \in Threads : todo[t] \in Seq(Writes) /\ Len(todo[t]) <= 4
    BY DEF Init
  <2>3. linked \in Seq(1..MaxRequests) /\ sent \in Seq(1..MaxRequests)
    BY DEF Init
  <2> QED BY <1>2, <2>1, <2>2, <2>3 DEF Init, QueueTypeOK
<1>4. ThreadsInv
  <2>1. todo \in [Threads -> Seq(Writes)]
    BY DEF Init
  <2> QED BY <2>1 DEF Init, ThreadsInv
<1>5. Allocated = {}
  BY DEF Init, Allocated
<1>6. NextInv
  BY <1>1, <1>5, WriteFacts DEF NextInv, Linked
<1>7. Thread \in Threads
  BY DEF Threads
<1>8. FirstInv
  BY <1>1, <1>7, WriteFacts DEF FirstInv, Init
<1> QED BY <1>3, <1>4, <1>6, <1>8 DEF SafeQueue, QueueInv

-----------------------------------------------------------------------------
\* An append is as far as it was when its todo and the entry are left alone.
LEMMA AppendKeeps ==
  ASSUME NEW u, NEW tail, AddingBehind(u, tail),
         todo'[u] = todo[u], entry'[u] = entry[u],
         links'[entry[u]]["next"] = links[entry[u]]["next"]
           \/ links'[entry[u]]["next"] \in Cells,
         links'[entry[u]]["prev"] = links[entry[u]]["prev"]
  PROVE  AddingBehind(u, tail)'
  BY DEF AddingBehind

\* MakeRequest() takes memory that no pointer of the queue leads to.
LEMMA StepMakeRequest ==
  ASSUME QueueTypeOK, QueueInv, NEW t \in Threads, MakeRequest(t)
  PROVE  QueueTypeOK' /\ QueueInv'
<1>1. PICK e \in Entries \ Allocated :
        /\ request' = [request EXCEPT ![e] = made + 1]
        /\ links' = [links EXCEPT ![e] = [f \in Fields |-> NULL]]
        /\ entry' = [entry EXCEPT ![t] = e]
  BY DEF MakeRequest
<1>2. /\ pc[t] = "idle" /\ made < MaxRequests /\ made' = made + 1
      /\ pc' = [pc EXCEPT ![t] = "append"]
      /\ UNCHANGED <<todo, called, linked, sent, clash, fault>>
  BY DEF MakeRequest
<1>3. /\ \A c \in Cells \ {e} : links'[c] = links[c]
      /\ links'[e]["next"] = NULL /\ links'[e]["prev"] = NULL
      /\ links' \in Links
  BY <1>1, WriteFacts DEF QueueTypeOK, Links
<1>4. /\ \A u \in Threads \ {t} : pc'[u] = pc[u] /\ entry'[u] = entry[u]
      /\ pc'[t] = "append" /\ entry'[t] = e
  BY <1>1, <1>2 DEF QueueTypeOK
<1>5. Allocated' = Allocated \cup {e}
  <2>1. made + 1 # NoRequest
    BY DEF QueueTypeOK, NoRequest
  <2> QED BY <1>1, <2>1 DEF QueueTypeOK, Allocated
<1>6. QueueTypeOK'
  <2>1. request' \in [Entries -> 0..MaxRequests] /\ made' \in 0..MaxRequests
    BY <1>1, <1>2, QueueAssumption DEF QueueTypeOK
  <2>2. pc' \in [Threads -> {"idle", "append", "adding", "sent", "deleting"}]
    BY <1>2 DEF QueueTypeOK
  <2>3. entry' \in [Threads -> Entries \cup {NULL}]
    BY <1>1 DEF QueueTypeOK
  <2>4. called' \subseteq Apps
    BY <1>2 DEF QueueTypeOK
  <2> QED BY <1>2, <1>3, <2>1, <2>2, <2>3, <2>4 DEF QueueTypeOK
<1>7. Linked' = Linked
  BY <1>1, <1>2, <1>4, <1>5 DEF Linked, Adding, QueueInv, ThreadsInv
<1>8. Thread \in Threads /\ NULL \notin Entries
  BY WriteFacts DEF Threads
<1>9. ThreadsInv'
  <2> SUFFICES ASSUME NEW u \in Threads
               PROVE  /\ pc'[u] = "idle" <=> entry'[u] = NULL
                      /\ entry'[u] # NULL => entry'[u] \in Allocated'
                      /\ pc'[u] \in {"sent", "deleting"} => u = Thread /\ entry'[u] \in Linked'
                      /\ pc'[u] \in {"idle", "append", "sent"} => todo'[u] = <<>>
                      /\ \A v \in Threads \ {u} : entry'[u] = entry'[v] => entry'[u] = NULL
                      /\ pc'[u] = "adding" => \E tail \in Cells : AddingBehind(u, tail)'
    BY <1>2 DEF ThreadsInv, QueueInv
  <2>1. CASE u = t
    BY <1>1, <1>2, <1>4, <1>5, <1>8, <2>1 DEF QueueInv, ThreadsInv
  <2>2. CASE u # t
    <3>1. pc'[u] = pc[u] /\ entry'[u] = entry[u] /\ todo'[u] = todo[u]
      BY <1>2, <1>4, <2>2
    <3>2. pc[u] = "adding" => \E tail \in Cells : AddingBehind(u, tail)'
      <4> SUFFICES ASSUME pc[u] = "adding" PROVE \E tail \in Cells : AddingBehind(u, tail)'
        OBVIOUS
      <4>1. PICK tail \in Cells : AddingBehind(u, tail)
        BY DEF QueueInv, ThreadsInv
      <4>2. entry[u] \in Cells \ {e}
        BY <1>1, WriteFacts DEF QueueInv, ThreadsInv, QueueTypeOK
      <4>3. AddingBehind(u, tail)'
        BY <1>3, <3>1, <4>1, <4>2, AppendKeeps
      <4> QED BY <4>3
    <3>3. \A v \in Threads \ {u} : entry'[u] = entry'[v] => entry'[u] = NULL
      BY <1>1, <1>4, <2>2, <3>1 DEF QueueInv, ThreadsInv
    <3> QED BY <1>5, <1>7, <3>1, <3>2, <3>3 DEF QueueInv, ThreadsInv
  <2> QED BY <2>1, <2>2
<1>10. e \notin Linked /\ \A p \in Cells : links[p]["next"] # e
  BY <1>1 DEF Linked, QueueInv, NextInv
<1>11. NextInv'
  <2>1. \A p \in Cells : links'[p]["next"] = IF p = e THEN NULL ELSE links[p]["next"]
    BY <1>3
  <2>2. pc[Thread] = "deleting" =>
          t # Thread /\ pc'[Thread] = "deleting" /\ Entry' = Entry /\ todo' = todo
    BY <1>2, <1>4, <1>8 DEF Entry
  <2>3. \A p, q : MovingUp(p, q) => MovingUp(p, q)'
    BY <2>2 DEF MovingUp
  <2>4. \A c \in Linked : links'[c]["next"] = links[c]["next"]
    BY <1>10, <2>1, WriteFacts DEF Linked, Allocated
  <2>5. links'[ListHead] = links[ListHead]
    BY <1>3, WriteFacts
  <2>6. \A p \in Cells : links'[p]["next"] \in Entries => links'[p]["next"] \in Linked'
    BY <1>7, <1>8, <2>1 DEF QueueInv, NextInv
  <2>7. \A p, q \in Cells :
          links'[p]["next"] = links'[q]["next"] /\ links'[p]["next"] \in Entries =>
            p = q \/ MovingUp(p, q)'
    BY <1>8, <2>1, <2>3 DEF QueueInv, NextInv
  <2>8. \A c \in Linked' :
          (pc'[Thread] = "deleting" /\ c = Entry') \/ links'[c]["next"] \in Cells
    BY <1>7, <2>2, <2>4 DEF QueueInv, NextInv
  <2> QED BY <2>5, <2>6, <2>7, <2>8 DEF QueueInv, NextInv
<1>12. FirstInv'
  <2>1. /\ \A p \in Cells : links'[p]["next"] = IF p = e THEN NULL ELSE links[p]["next"]
        /\ \A p \in Cells : p # e => links'[p]["prev"] = links[p]["prev"]
        /\ ListHead \in Cells /\ ListHead # e
    BY <1>3, WriteFacts
  <2>2. ASSUME pc'[Thread] \in {"sent", "deleting"}
        PROVE  /\ t # Thread /\ pc'[Thread] = pc[Thread] /\ Entry' = Entry
               /\ Entry # e /\ Entry \in Cells
               /\ todo'[Thread] = todo[Thread]
    BY <1>1, <1>2, <1>4, <1>8, <2>2, WriteFacts DEF Entry, QueueInv, ThreadsInv, QueueTypeOK
  <2>3. ASSUME NEW n \in Cells, pc'[Thread] = "deleting", DeletingBefore(n)
        PROVE  DeletingBefore(n)'
    <3>1. n # e
      BY <1>10, <2>3 DEF DeletingBefore
    <3>2. Entry' = Entry /\ todo'[Thread] = todo[Thread] /\ Linked' = Linked /\ Entry # e
      BY <1>7, <2>2, <2>3
    <3>3. \A p \in Cells : \A x \in Entries : links'[p]["next"] = x => links[p]["next"] = x
      BY <1>8, <2>1
    <3>4. Entry \in Entries
      BY <1>8, <2>2, <2>3 DEF Entry, QueueInv, ThreadsInv, QueueTypeOK
    <3>5. links'[n]["prev"] = links[n]["prev"]
      BY <2>1, <3>1
    <3> QED BY <2>3, <3>2, <3>3, <3>4, <3>5 DEF DeletingBefore
  <2>4. pc'[Thread] = "sent" =>
          /\ links'[Entry']["prev"] = ListHead
          /\ \A p \in Cells : links'[p]["next"] = Entry' => p = ListHead
    BY <1>8, <2>1, <2>2, WriteFacts DEF QueueInv, FirstInv
  <2>5. links'[ListHead]["next"] \in Entries =>
          links'[links'[ListHead]["next"]]["prev"] = ListHead
    BY <1>10, <2>1, WriteFacts DEF QueueInv, FirstInv
  <2>6. pc'[Thread] = "deleting" => \E n \in Cells : DeletingBefore(n)'
    BY <2>2, <2>3 DEF QueueInv, FirstInv
  <2> QED BY <2>4, <2>5, <2>6 DEF FirstInv
<1> QED BY <1>6, <1>9, <1>11, <1>12 DEF QueueInv

\* A thread performs the first of its writes, or faults.
LEMMA WriteEffect ==
  ASSUME QueueTypeOK, QueueInv, NEW t \in Threads, WritePointer(t)
  PROVE  /\ links' \in Links
         /\ todo' \in [Threads -> Seq(Writes)]
         /\ \A u \in Threads : Len(todo'[u]) <= 4
         /\ todo'[t] = Tail(todo[t])
         /\ \A u \in Threads \ {t} : todo'[u] = todo[u]
         /\ ~fault' =>
              \A c \in Cells, f \in Fields :
                links'[c][f] = IF c = Head(todo[t]).at /\ f = Head(todo[t]).field
                               THEN Head(todo[t]).to ELSE links[c][f]
         /\ fault' \in BOOLEAN
         /\ UNCHANGED <<request, called, made, sent, clash>>
<1> DEFINE w == Head(todo[t])
<1>1. /\ todo[t] # <<>> /\ todo' = [todo EXCEPT ![t] = Tail(@)]
      /\ \/ links' = Put(links, w) /\ fault' = fault
         \/ links' = links /\ fault' = TRUE
      /\ UNCHANGED <<request, called, made, sent, clash>>
  BY DEF WritePointer
<1>2. todo \in [Threads -> Seq(Writes)] /\ Len(todo[t]) <= 4 /\ links \in Links
  BY DEF QueueInv, ThreadsInv, QueueTypeOK
<1>3. w \in Writes /\ Tail(todo[t]) \in Seq(Writes) /\ Len(Tail(todo[t])) <= 4
  BY <1>1, <1>2
<1>4. /\ Put(links, w) \in Links
      /\ \A c \in Cells, f \in Fields :
           Put(links, w)[c][f] = IF c = w.at /\ f = w.field THEN w.to ELSE links[c][f]
  BY <1>2, <1>3, PutFacts
<1>5. /\ todo' \in [Threads -> Seq(Writes)] /\ todo'[t] = Tail(todo[t])
      /\ \A u \in Threads \ {t} : todo'[u] = todo[u]
  BY <1>1, <1>2, <1>3
<1>6. \A u \in Threads : Len(todo'[u]) <= 4
  BY <1>3, <1>5 DEF QueueTypeOK
<1>7. links' \in Links /\ fault' \in BOOLEAN
  BY <1>1, <1>2, <1>4 DEF QueueTypeOK
<1> QED BY <1>1, <1>4, <1>5, <1>6, <1>7

\* The steps that write no pointer and leave the deletion alone.
LEMMA PointersKeep ==
  ASSUME QueueInv, UNCHANGED links, Linked' = Linked, Entry' = Entry,
         pc'[Thread] = pc[Thread] \/ {pc[Thread], pc'[Thread]} \cap {"sent", "deleting"} = {},
         todo'[Thread] = todo[Thread] \/ pc[Thread] # "deleting"
  PROVE  NextInv' /\ FirstInv'
<1>1. \A p, q : MovingUp(p, q) => MovingUp(p, q)'
  BY DEF MovingUp
<1>2. NextInv'
  BY <1>1 DEF QueueInv, NextInv
<1>3. \A n : pc[Thread] = "deleting" /\ DeletingBefore(n) => DeletingBefore(n)'
  BY DEF DeletingBefore
<1>4. FirstInv'
  BY <1>3 DEF QueueInv, FirstInv
<1> QED BY <1>2, <1>4

\* list_add_tail() finds a cell behind which it can put the entry.
LEMMA StepReadTail ==
  ASSUME QueueTypeOK, QueueInv, NEW t \in Threads, ReadTail(t)
  PROVE  QueueTypeOK' /\ QueueInv'
<1>0. PICK tail \in Cells : tail = links[ListHead]["prev"]
  BY DEF QueueInv, NextInv
<1> DEFINE e == entry[t]
           w == ListAddTail(links, e)
<1>1. /\ pc[t] = "append" /\ pc' = [pc EXCEPT ![t] = "adding"]
      /\ todo' = [todo EXCEPT ![t] = w]
      /\ clash' = (clash \/ Clashing')
      /\ UNCHANGED <<links, request, entry, called, made, linked, sent, fault>>
  BY DEF ReadTail, NoteClash
<1>2. e \in Entries /\ tail \in Cells
  BY <1>1 DEF QueueInv, ThreadsInv, QueueTypeOK
<1>3. w = <<Write(ListHead, "prev", e), Write(e, "next", ListHead),
            Write(e, "prev", tail), Write(tail, "next", e)>>
  BY <1>0 DEF ListAddTail, ListAdd
<1>4. w \in Seq(Writes) /\ Len(w) = 4
  BY <1>2, <1>3, WriteFacts
<1>5. /\ \A u \in Threads \ {t} : pc'[u] = pc[u] /\ todo'[u] = todo[u]
      /\ pc'[t] = "adding" /\ todo'[t] = w
      /\ todo' \in [Threads -> Seq(Writes)]
  BY <1>1, <1>4 DEF QueueTypeOK, QueueInv, ThreadsInv
<1>6. QueueTypeOK'
  <2>1. pc' \in [Threads -> {"idle", "append", "adding", "sent", "deleting"}]
    BY <1>1 DEF QueueTypeOK
  <2>2. \A u \in Threads : todo'[u] \in Seq(Writes) /\ Len(todo'[u]) <= 4
    <3>1. \A u \in Threads : todo[u] \in Seq(Writes) /\ Len(todo[u]) <= 4
      BY DEF QueueTypeOK
    <3>2. Len(w) <= 4
      BY <1>4
    <3> HIDE DEF w
    <3> QED BY <1>4, <1>5, <3>1, <3>2
  <2>3. clash' \in BOOLEAN
    BY <1>1 DEF Clashing, QueueTypeOK
  <2> QED BY <1>1, <2>1, <2>2, <2>3 DEF QueueTypeOK
<1>7. Linked' = Linked /\ Allocated' = Allocated
  <2>1. \A u \in Threads : Adding(u)' <=> Adding(u)
    BY <1>1, <1>5 DEF Adding
  <2> QED BY <1>1, <2>1 DEF Linked, Allocated
<1>8. NextInv' /\ FirstInv'
  <2>1. Entry' = Entry /\ Thread \in Threads
    BY <1>1 DEF Entry, Threads
  <2>2. /\ pc'[Thread] = pc[Thread] \/ {pc[Thread], pc'[Thread]} \cap {"sent", "deleting"} = {}
        /\ todo'[Thread] = todo[Thread] \/ pc[Thread] # "deleting"
    BY <1>1, <1>5, <2>1
  <2> QED BY <1>1, <1>7, <2>1, <2>2, PointersKeep
<1>9. ThreadsInv'
  <2>1. AddingBehind(t, tail)'
    <3>1. Len(todo'[t]) = 4 /\ entry'[t] = e
      BY <1>1, <1>4, <1>5
    <3>2. todo'[t] = <<Write(ListHead, "prev", e), Write(e, "next", ListHead),
                       Write(e, "prev", tail), Write(tail, "next", e)>>
      BY <1>3, <1>5
    <3> QED BY <3>1, <3>2 DEF AddingBehind
  <2>2. ASSUME NEW u \in Threads \ {t}, NEW x, AddingBehind(u, x)
        PROVE  AddingBehind(u, x)'
    BY <1>1, <1>5, <2>2, AppendKeeps
  <2>3. \A u \in Threads : pc'[u] = "adding" => \E x \in Cells : AddingBehind(u, x)'
    BY <1>2, <1>5, <2>1, <2>2 DEF QueueInv, ThreadsInv
  <2> HIDE DEF w
  <2> QED BY <1>1, <1>5, <1>7, <2>3 DEF QueueInv, ThreadsInv
<1> QED BY <1>6, <1>8, <1>9 DEF QueueInv

\* What consume_send_buf() finds at the head is a linked entry.
LEMMA StepSendFirst ==
  ASSUME QueueTypeOK, QueueInv, SendFirst
  PROVE  QueueTypeOK' /\ QueueInv' /\ UNCHANGED fault
<1> DEFINE first == links[ListHead]["next"]
<1>1. /\ pc[Thread] = "idle" /\ first # ListHead
      /\ UNCHANGED <<links, request, todo, called, made, linked, clash>>
  BY DEF SendFirst, SomethingToSend, ListEmpty
<1>2. Thread \in Threads
  BY DEF Threads
<1>3. first \in Entries /\ first \in Linked /\ first \in Allocated
  BY <1>1 DEF QueueInv, NextInv, Cells, Linked
<1>4. /\ sent' = Append(sent, request[first])
      /\ entry' = [entry EXCEPT ![Thread] = first]
      /\ pc' = [pc EXCEPT ![Thread] = "sent"]
      /\ fault' = fault
  BY <1>3 DEF SendFirst
<1>5. /\ \A u \in Threads \ {Thread} : pc'[u] = pc[u] /\ entry'[u] = entry[u]
      /\ pc'[Thread] = "sent" /\ entry'[Thread] = first /\ Entry' = first
  BY <1>2, <1>4 DEF QueueTypeOK, Entry
<1>6. QueueTypeOK'
  <2>1. request[first] \in 1..MaxRequests
    BY <1>3, QueueAssumption DEF QueueTypeOK, Allocated, NoRequest
  <2>2. sent' \in Seq(1..MaxRequests)
    BY <1>4, <2>1 DEF QueueTypeOK
  <2>3. entry' \in [Threads -> Entries \cup {NULL}]
    BY <1>3, <1>4 DEF QueueTypeOK
  <2>4. pc' \in [Threads -> {"idle", "append", "adding", "sent", "deleting"}]
    BY <1>4 DEF QueueTypeOK
  <2> QED BY <1>1, <1>4, <2>2, <2>3, <2>4 DEF QueueTypeOK
<1>7. Linked' = Linked /\ Allocated' = Allocated
  <2>1. \A u \in Threads : (Adding(u)' <=> Adding(u)) /\ (Adding(u) => entry'[u] = entry[u])
    BY <1>1, <1>5 DEF Adding
  <2> QED BY <1>1, <2>1 DEF Linked, Allocated
<1>8. NextInv'
  <2>1. \A p, q : ~MovingUp(p, q)
    BY <1>1 DEF MovingUp
  <2> QED BY <1>1, <1>5, <1>7, <2>1 DEF QueueInv, NextInv
<1>9. FirstInv'
  <2>1. links[first]["prev"] = ListHead
    BY <1>3 DEF QueueInv, FirstInv
  <2>2. \A p \in Cells : links[p]["next"] = first => p = ListHead
    BY <1>1, <1>3, WriteFacts DEF QueueInv, NextInv, MovingUp
  <2> QED BY <1>1, <1>5, <2>1, <2>2 DEF QueueInv, FirstInv
<1>10. ThreadsInv'
  <2>1. \A u \in Threads \ {Thread} : entry[u] # first \/ ~Adding(u)
    BY <1>3 DEF Linked
  <2>2. \A u \in Threads \ {Thread} : entry[u] # first
    BY <1>3, <2>1, WriteFacts DEF QueueInv, ThreadsInv, Adding, QueueTypeOK
  <2>3. ASSUME NEW u \in Threads \ {Thread}, NEW x, AddingBehind(u, x)
        PROVE  AddingBehind(u, x)'
    BY <1>1, <1>5, <2>3, AppendKeeps
  <2>4. \A u \in Threads : pc'[u] = "adding" => \E x \in Cells : AddingBehind(u, x)'
    BY <1>5, <2>3 DEF QueueInv, ThreadsInv
  <2>5. first # NULL
    BY <1>3, WriteFacts
  <2> HIDE DEF first
  <2> QED BY <1>1, <1>2, <1>3, <1>5, <1>7, <2>2, <2>4, <2>5, SMTT(30) DEF QueueInv, ThreadsInv
<1> QED BY <1>4, <1>6, <1>8, <1>9, <1>10 DEF QueueInv

\* list_del() reads that the entry is the first, and what follows it.
LEMMA StepReadNeighbours ==
  ASSUME QueueTypeOK, QueueInv, ReadNeighbours
  PROVE  QueueTypeOK' /\ QueueInv'
<1>0. PICK n : n = links[Entry]["next"]
  OBVIOUS
<1> DEFINE w == ListDel(links, Entry)
<1>1. /\ pc[Thread] = "sent" /\ pc' = [pc EXCEPT ![Thread] = "deleting"]
      /\ todo' = [todo EXCEPT ![Thread] = w]
      /\ clash' = (clash \/ Clashing')
      /\ UNCHANGED <<links, request, entry, called, made, linked, sent, fault>>
  BY DEF ReadNeighbours, NoteClash, Entry
<1>2. Thread \in Threads
  BY DEF Threads
<1>3. Entry \in Linked /\ Entry \in Entries /\ links[Entry]["prev"] = ListHead
  BY <1>1, <1>2 DEF QueueInv, ThreadsInv, FirstInv, Entry, Linked, Allocated
<1>4. n \in Cells
  BY <1>0, <1>1, <1>3 DEF QueueInv, NextInv
<1>5. w = <<Write(n, "prev", ListHead), Write(ListHead, "next", n),
            Write(Entry, "next", LIST_POISON), Write(Entry, "prev", LIST_POISON)>>
  BY <1>0, <1>3 DEF ListDel
<1>6. w \in Seq(Writes) /\ Len(w) = 4
  BY <1>3, <1>4, <1>5, WriteFacts
<1> HIDE DEF w
<1>7. /\ \A u \in Threads \ {Thread} : pc'[u] = pc[u] /\ todo'[u] = todo[u]
      /\ pc'[Thread] = "deleting" /\ todo'[Thread] = w /\ Entry' = Entry
      /\ todo' \in [Threads -> Seq(Writes)]
  BY <1>1, <1>2, <1>6 DEF QueueTypeOK, QueueInv, ThreadsInv, Entry
<1>8. QueueTypeOK'
  <2>1. pc' \in [Threads -> {"idle", "append", "adding", "sent", "deleting"}]
    BY <1>1 DEF QueueTypeOK
  <2>2. \A u \in Threads : todo[u] \in Seq(Writes) /\ Len(todo[u]) <= 4
    BY DEF QueueTypeOK
  <2>3. Len(w) <= 4
    BY <1>6
  <2>4. \A u \in Threads : todo'[u] \in Seq(Writes) /\ Len(todo'[u]) <= 4
    BY <1>6, <1>7, <2>2, <2>3
  <2>5. clash' \in BOOLEAN
    BY <1>1 DEF Clashing, QueueTypeOK
  <2> QED BY <1>1, <2>1, <2>4, <2>5 DEF QueueTypeOK
<1>9. Linked' = Linked /\ Allocated' = Allocated
  <2>1. \A u \in Threads : (Adding(u)' <=> Adding(u))
    BY <1>1, <1>7 DEF Adding
  <2> QED BY <1>1, <2>1 DEF Linked, Allocated
<1>10. \A p, q : ~MovingUp(p, q)
  BY <1>1 DEF MovingUp
<1>11. NextInv'
  BY <1>1, <1>7, <1>9, <1>10 DEF QueueInv, NextInv
<1>12. DeletingBefore(n)'
  <2>1. Len(todo'[Thread]) = 4
    BY <1>6, <1>7
  <2>2. \A p \in Cells : links[p]["next"] = Entry => p = ListHead
    BY <1>1 DEF QueueInv, FirstInv
  <2>3. n # Entry
    BY <1>0, <1>3, <2>2, WriteFacts
  <2>4. n \in Entries => n \in Linked
    BY <1>0, <1>3, WriteFacts DEF QueueInv, NextInv
  <2>5. n \in Entries => \A p \in Cells : links[p]["next"] = n => p = Entry
    BY <1>0, <1>3, <1>10, WriteFacts DEF QueueInv, NextInv
  <2> QED BY <1>1, <1>5, <1>7, <1>9, <2>1, <2>2, <2>3, <2>4, <2>5 DEF DeletingBefore
<1>13. FirstInv'
  BY <1>1, <1>4, <1>7, <1>12 DEF QueueInv, FirstInv
<1>14. ThreadsInv'
  <2>1. ASSUME NEW u \in Threads \ {Thread}, NEW x, AddingBehind(u, x)
        PROVE  AddingBehind(u, x)'
    BY <1>1, <1>7, <2>1, AppendKeeps
  <2>2. \A u \in Threads : pc'[u] = "adding" => \E x \in Cells : AddingBehind(u, x)'
    BY <1>7, <2>1 DEF QueueInv, ThreadsInv
  <2> QED BY <1>1, <1>2, <1>7, <1>9, <2>2 DEF QueueInv, ThreadsInv
<1> QED BY <1>8, <1>11, <1>13, <1>14 DEF QueueInv

\* free_send_buf() frees an entry that no pointer leads to.
LEMMA StepFreeSent ==
  ASSUME QueueTypeOK, QueueInv, FreeSent
  PROVE  QueueTypeOK' /\ QueueInv'
<1>1. /\ pc[Thread] = "deleting" /\ todo[Thread] = <<>>
      /\ request' = [request EXCEPT ![Entry] = NoRequest]
      /\ pc' = [pc EXCEPT ![Thread] = "idle"]
      /\ entry' = [entry EXCEPT ![Thread] = NULL]
      /\ UNCHANGED <<links, todo, called, made, linked, sent, clash, fault>>
  BY DEF FreeSent, Entry
<1>2. Thread \in Threads
  BY DEF Threads
<1>3. /\ \A u \in Threads \ {Thread} : pc'[u] = pc[u] /\ entry'[u] = entry[u]
      /\ pc'[Thread] = "idle" /\ entry'[Thread] = NULL
  BY <1>1, <1>2 DEF QueueTypeOK
<1>4. QueueTypeOK'
  <2>1. request' \in [Entries -> 0..MaxRequests]
    <3>1. NoRequest \in 0..MaxRequests
      BY QueueAssumption DEF NoRequest
    <3> QED BY <1>1, <3>1 DEF QueueTypeOK
  <2> QED BY <1>1, <2>1 DEF QueueTypeOK
<1>5. /\ Allocated' = Allocated \ {Entry}
      /\ Linked' = Linked \ {Entry}
  <2>1. Allocated' = Allocated \ {Entry}
    BY <1>1, QueueAssumption DEF QueueTypeOK, Allocated, NoRequest
  <2>2. \A u \in Threads : (Adding(u)' <=> Adding(u)) /\ (Adding(u) => entry'[u] = entry[u])
    BY <1>1, <1>3 DEF Adding
  <2> QED BY <2>1, <2>2 DEF Linked
<1>6. PICK n \in Cells : DeletingBefore(n)
  BY <1>1 DEF QueueInv, FirstInv
<1>7. \A p \in Cells : links[p]["next"] # Entry
  BY <1>1, <1>6 DEF DeletingBefore
<1>8. \A p, q : ~MovingUp(p, q)
  BY <1>1 DEF MovingUp
<1>9. NextInv'
  <2>1. \A p \in Cells : links[p]["next"] \in Entries => links[p]["next"] \in Linked \ {Entry}
    BY <1>7 DEF QueueInv, NextInv
  <2>2. \A e \in Linked \ {Entry} : links[e]["next"] \in Cells
    BY DEF QueueInv, NextInv
  <2> QED BY <1>1, <1>5, <1>8, <2>1, <2>2 DEF QueueInv, NextInv
<1>10. FirstInv'
  BY <1>1, <1>3 DEF QueueInv, FirstInv
<1>11. ThreadsInv'
  <2>1. ASSUME NEW u \in Threads \ {Thread}, NEW x, AddingBehind(u, x)
        PROVE  AddingBehind(u, x)'
    BY <1>1, <1>3, <2>1, AppendKeeps
  <2>2. \A u \in Threads : pc'[u] = "adding" => \E x \in Cells : AddingBehind(u, x)'
    BY <1>3, <2>1 DEF QueueInv, ThreadsInv
  <2>3. \A u \in Threads \ {Thread} : entry[u] = Entry => entry[u] = NULL
    BY <1>2 DEF QueueInv, ThreadsInv, Entry
  <2> QED BY <1>1, <1>2, <1>3, <1>5, <2>2, <2>3 DEF QueueInv, ThreadsInv
<1> QED BY <1>4, <1>9, <1>10, <1>11 DEF QueueInv

\* The writes of list_add_tail() before the last: nobody else's entry is touched,
\* and no pointer leads to the new one yet.
LEMMA StepAppending ==
  ASSUME QueueTypeOK, QueueInv, NEW t \in Threads, WriteNext(t), pc[t] = "adding"
  PROVE  QueueTypeOK' /\ (~fault' => QueueInv')
<1> DEFINE e == entry[t]
<1>1. /\ Len(todo[t]) > 1 /\ WritePointer(t)
      /\ UNCHANGED <<pc, entry, linked, request, called, made, sent, clash>>
  BY WriteEffect DEF WriteNext
<1>2. /\ links' \in Links /\ fault' \in BOOLEAN
      /\ todo' \in [Threads -> Seq(Writes)]
      /\ \A u \in Threads : Len(todo'[u]) <= 4
      /\ todo'[t] = Tail(todo[t])
      /\ \A u \in Threads \ {t} : todo'[u] = todo[u]
  BY <1>1, WriteEffect
<1>3. QueueTypeOK'
  BY <1>1, <1>2 DEF QueueTypeOK
<1> SUFFICES ASSUME ~fault' PROVE QueueInv'
  BY <1>3
<1>4. PICK tail \in Cells : AddingBehind(t, tail)
  BY DEF QueueInv, ThreadsInv
<1>5. e \in Entries /\ e \notin Linked /\ Thread \in Threads
  BY WriteFacts DEF QueueInv, ThreadsInv, QueueTypeOK, Linked, Adding, Threads
<1>6. \A p \in Cells : links[p]["next"] # e
  BY <1>5 DEF QueueInv, NextInv
<1>7. /\ Linked' = Linked /\ Allocated' = Allocated /\ Entry' = Entry
  BY <1>1 DEF Linked, Allocated, Adding, Entry
<1>8. /\ \A c \in Cells \ {e} : links'[c]["next"] = links[c]["next"]
      /\ links'[e]["next"] = links[e]["next"] \/ links'[e]["next"] = ListHead
      /\ \A c \in Cells \ {e} : links'[c]["prev"] = links[c]["prev"]
                                  \/ (c = ListHead /\ links'[c]["prev"] = e)
      /\ AddingBehind(t, tail)'
  <2>1. \A c \in Cells, f \in Fields :
          links'[c][f] = IF c = Head(todo[t]).at /\ f = Head(todo[t]).field
                         THEN Head(todo[t]).to ELSE links[c][f]
    BY <1>1, WriteEffect
  <2>2. e \in Cells /\ e \in Pointers /\ e # ListHead /\ tail \in Pointers
    BY <1>5, WriteFacts
  <2>3. CASE todo[t] = <<Write(ListHead, "prev", e), Write(e, "next", ListHead),
                         Write(e, "prev", tail), Write(tail, "next", e)>>
    <3>1. /\ Head(todo[t]) = Write(ListHead, "prev", e)
          /\ todo'[t] = <<Write(e, "next", ListHead), Write(e, "prev", tail),
                          Write(tail, "next", e)>>
          /\ Len(todo'[t]) = 3
      BY <1>2, <2>3
    <3>2. /\ \A c \in Cells : links'[c]["next"] = links[c]["next"]
          /\ \A c \in Cells \ {ListHead} : links'[c]["prev"] = links[c]["prev"]
          /\ links'[ListHead]["prev"] = e
      BY <2>1, <2>2, <3>1, WriteFacts
    <3>3. AddingBehind(t, tail)'
      BY <1>1, <3>1 DEF AddingBehind
    <3> QED BY <2>2, <3>2, <3>3
  <2>4. CASE todo[t] = <<Write(e, "next", ListHead), Write(e, "prev", tail),
                         Write(tail, "next", e)>>
    <3>1. /\ Head(todo[t]) = Write(e, "next", ListHead)
          /\ todo'[t] = <<Write(e, "prev", tail), Write(tail, "next", e)>>
          /\ Len(todo'[t]) = 2
      BY <1>2, <2>4
    <3>2. /\ \A c \in Cells \ {e} : links'[c]["next"] = links[c]["next"]
          /\ \A c \in Cells : links'[c]["prev"] = links[c]["prev"]
          /\ links'[e]["next"] = ListHead
      BY <2>1, <2>2, <3>1, WriteFacts
    <3>3. AddingBehind(t, tail)'
      BY <1>1, <3>1, <3>2, WriteFacts DEF AddingBehind
    <3> QED BY <2>2, <3>2, <3>3
  <2>5. CASE todo[t] = <<Write(e, "prev", tail), Write(tail, "next", e)>>
    <3>1. /\ Head(todo[t]) = Write(e, "prev", tail)
          /\ todo'[t] = <<Write(tail, "next", e)>>
          /\ Len(todo'[t]) = 1 /\ Len(todo[t]) = 2
      BY <1>2, <2>5
    <3>2. /\ \A c \in Cells : links'[c]["next"] = links[c]["next"]
          /\ \A c \in Cells \ {e} : links'[c]["prev"] = links[c]["prev"]
          /\ links'[e]["prev"] = tail
      BY <2>1, <2>2, <3>1, WriteFacts
    <3>3. links[e]["next"] \in Cells
      BY <1>4, <3>1 DEF AddingBehind
    <3>4. AddingBehind(t, tail)'
      BY <1>1, <2>2, <3>1, <3>2, <3>3 DEF AddingBehind
    <3> QED BY <2>2, <3>2, <3>4
  <2>6. CASE todo[t] = <<Write(tail, "next", e)>>
    BY <1>1, <2>6
  <2> QED BY <1>4, <2>3, <2>4, <2>5, <2>6 DEF AddingBehind
<1>9. \A c \in Linked : c # e /\ c \in Cells /\ c # ListHead
  BY <1>5, WriteFacts DEF Linked, Allocated
<1>10. t # Thread \/ pc[Thread] = "adding"
  OBVIOUS
<1>11. pc[Thread] = "deleting" => todo'[Thread] = todo[Thread]
  BY <1>2, <1>5, <1>10
<1>12. NextInv'
  <2>1. \A p, q : MovingUp(p, q) => MovingUp(p, q)'
    BY <1>1, <1>7, <1>11 DEF MovingUp
  <2>2. \A p \in Cells : links'[p]["next"] \in Entries => links'[p]["next"] = links[p]["next"]
    BY <1>8, WriteFacts
  <2>3. \A p \in Cells : links'[p]["next"] \in Entries => links'[p]["next"] \in Linked'
    BY <1>7, <2>2 DEF QueueInv, NextInv
  <2>4. \A p, q \in Cells :
          links'[p]["next"] = links'[q]["next"] /\ links'[p]["next"] \in Entries =>
            p = q \/ MovingUp(p, q)'
    BY <2>1, <2>2 DEF QueueInv, NextInv
  <2>5. \A c \in Linked' :
          (pc'[Thread] = "deleting" /\ c = Entry') \/ links'[c]["next"] \in Cells
    BY <1>1, <1>7, <1>8, <1>9 DEF QueueInv, NextInv
  <2>6. links'[ListHead]["next"] \in Cells /\ links'[ListHead]["prev"] \in Cells
    BY <1>5, <1>8, WriteFacts DEF QueueInv, NextInv
  <2> QED BY <2>3, <2>4, <2>5, <2>6 DEF NextInv
<1>13. FirstInv'
  <2>1. links'[ListHead]["next"] = links[ListHead]["next"]
    BY <1>5, <1>8, WriteFacts
  <2>2. \A c \in Linked : links'[c]["prev"] = links[c]["prev"]
    BY <1>8, <1>9
  <2>3. links'[ListHead]["next"] \in Entries =>
          links'[links'[ListHead]["next"]]["prev"] = ListHead
    BY <2>1, <2>2, WriteFacts DEF QueueInv, NextInv, FirstInv
  <2>4. \A p \in Cells : links'[p]["next"] \in Entries => links'[p]["next"] = links[p]["next"]
    BY <1>8, WriteFacts
  <2>5. pc[Thread] \in {"sent", "deleting"} => Entry \in Linked /\ Entry \in Entries
    BY <1>5 DEF QueueInv, ThreadsInv, Entry, Linked, Allocated
  <2>6. pc[Thread] = "sent" =>
          /\ links'[Entry]["prev"] = ListHead
          /\ \A p \in Cells : links'[p]["next"] = Entry => p = ListHead
    BY <2>2, <2>4, <2>5 DEF QueueInv, FirstInv
  <2>7. ASSUME NEW n \in Cells, pc[Thread] = "deleting", DeletingBefore(n)
        PROVE  DeletingBefore(n)'
    <3>1. n \in Entries => links'[n]["prev"] = links[n]["prev"]
      BY <2>2, <2>7 DEF DeletingBefore
    <3>2. todo'[Thread] = todo[Thread]
      BY <1>11, <2>7
    <3> QED BY <1>7, <2>4, <2>5, <2>7, <3>1, <3>2 DEF DeletingBefore
  <2> QED BY <1>1, <1>7, <2>3, <2>6, <2>7 DEF QueueInv, FirstInv
<1>14. ThreadsInv'
  <2>1. ASSUME NEW u \in Threads \ {t}, NEW x, pc[u] = "adding", AddingBehind(u, x)
        PROVE  AddingBehind(u, x)'
    <3>1. entry[u] \in Cells /\ entry[u] # e /\ entry[u] # ListHead
      BY <2>1, WriteFacts DEF QueueInv, ThreadsInv, QueueTypeOK
    <3> QED BY <1>1, <1>2, <1>8, <2>1, <3>1, AppendKeeps
  <2>2. \A u \in Threads : pc'[u] = "adding" => \E x \in Cells : AddingBehind(u, x)'
    BY <1>1, <1>4, <1>8, <2>1 DEF QueueInv, ThreadsInv
  <2> QED BY <1>1, <1>2, <1>7, <2>2 DEF QueueInv, ThreadsInv
<1> QED BY <1>12, <1>13, <1>14 DEF QueueInv

\* The last write of list_add_tail(): the entry gets its one predecessor.
LEMMA StepLinkEntry ==
  ASSUME QueueTypeOK, QueueInv, NEW t \in Threads, LinkEntry(t)
  PROVE  QueueTypeOK' /\ (~fault' => QueueInv')
<1>0. PICK e : e = entry[t]
  OBVIOUS
<1>1. /\ Len(todo[t]) = 1 /\ pc[t] = "adding" /\ WritePointer(t)
      /\ linked' = Append(linked, request[e])
      /\ pc' = [pc EXCEPT ![t] = "idle"]
      /\ entry' = [entry EXCEPT ![t] = NULL]
      /\ UNCHANGED <<request, called, made, sent, clash>>
  BY <1>0, WriteEffect DEF LinkEntry
<1>2. /\ links' \in Links /\ fault' \in BOOLEAN
      /\ todo' \in [Threads -> Seq(Writes)]
      /\ \A u \in Threads : Len(todo'[u]) <= 4
      /\ todo'[t] = Tail(todo[t])
      /\ \A u \in Threads \ {t} : todo'[u] = todo[u]
  BY <1>1, WriteEffect
<1>3. /\ e \in Entries /\ e \in Allocated /\ e \notin Linked /\ Thread \in Threads
      /\ e \in Cells /\ e # ListHead /\ NULL \notin Entries
  BY <1>0, <1>1, WriteFacts DEF QueueInv, ThreadsInv, QueueTypeOK, Linked, Adding, Threads
<1>4. QueueTypeOK'
  <2>1. request[e] \in 1..MaxRequests
    BY <1>3, QueueAssumption DEF QueueTypeOK, Allocated, NoRequest
  <2>2. linked' \in Seq(1..MaxRequests)
    BY <1>1, <2>1 DEF QueueTypeOK
  <2>3. /\ pc' \in [Threads -> {"idle", "append", "adding", "sent", "deleting"}]
        /\ entry' \in [Threads -> Entries \cup {NULL}]
    BY <1>1 DEF QueueTypeOK
  <2> QED BY <1>1, <1>2, <2>2, <2>3 DEF QueueTypeOK
<1> SUFFICES ASSUME ~fault' PROVE QueueInv'
  BY <1>4
<1>5. PICK tail \in Cells : AddingBehind(t, tail)
  BY <1>1 DEF QueueInv, ThreadsInv
<1>6. /\ todo[t] = <<Write(tail, "next", e)>>
      /\ links[e]["next"] \in Cells /\ links[e]["prev"] = tail
  <2>2. todo[t] = <<Write(tail, "next", e)>>
    BY <1>0, <1>1, <1>5, OneLeft DEF AddingBehind
  <2>3. links[e]["next"] \in Cells /\ links[e]["prev"] = tail
    BY <1>0, <1>1, <1>5 DEF AddingBehind
  <2> QED BY <2>2, <2>3
<1>7. /\ \A c \in Cells : links'[c]["next"] = IF c = tail THEN e ELSE links[c]["next"]
      /\ \A c \in Cells : links'[c]["prev"] = links[c]["prev"]
  <2>1. \A c \in Cells, f \in Fields :
          links'[c][f] = IF c = Head(todo[t]).at /\ f = Head(todo[t]).field
                         THEN Head(todo[t]).to ELSE links[c][f]
    BY <1>1, WriteEffect
  <2>2. e \in Pointers /\ Head(todo[t]) = Write(tail, "next", e)
    BY <1>3, <1>6, WriteFacts
  <2> QED BY <2>1, <2>2, WriteFacts
<1>8. /\ \A u \in Threads \ {t} : pc'[u] = pc[u] /\ entry'[u] = entry[u]
      /\ pc'[t] = "idle" /\ entry'[t] = NULL /\ todo'[t] = <<>>
  BY <1>1, <1>2, <1>6 DEF QueueTypeOK
<1>9. \A u \in Threads \ {t} : entry[u] # e
  BY <1>0, <1>3 DEF QueueInv, ThreadsInv
<1>10. Allocated' = Allocated /\ Linked' = Linked \cup {e}
  <2>1. Allocated' = Allocated
    BY <1>1 DEF Allocated
  <2>2. {entry[u] : u \in {v \in Threads : Adding(v)}}
          = {entry'[u] : u \in {v \in Threads : Adding(v)'}} \cup {e}
    BY <1>0, <1>1, <1>8 DEF Adding
  <2>3. e \notin {entry'[u] : u \in {v \in Threads : Adding(v)'}}
    BY <1>3, <1>8, <1>9 DEF Adding
  <2> QED BY <1>3, <2>1, <2>2, <2>3 DEF Linked
<1>11. \A p \in Cells : links[p]["next"] # e
  BY <1>3 DEF QueueInv, NextInv
<1>12. pc[Thread] \in {"sent", "deleting"} \/ pc'[Thread] \in {"sent", "deleting"} =>
         /\ t # Thread /\ pc'[Thread] = pc[Thread] /\ Entry' = Entry
         /\ todo'[Thread] = todo[Thread] /\ Entry # e /\ Entry \in Cells
  BY <1>1, <1>2, <1>3, <1>8, <1>9, WriteFacts DEF Entry, QueueInv, ThreadsInv, QueueTypeOK
<1>13. NextInv'
  <2>1. \A p, q : MovingUp(p, q) => MovingUp(p, q)'
    BY <1>12 DEF MovingUp
  <2>2. \A p \in Cells : links'[p]["next"] \in Entries => links'[p]["next"] \in Linked'
    BY <1>7, <1>10 DEF QueueInv, NextInv
  <2>3. \A p, q \in Cells :
          links'[p]["next"] = links'[q]["next"] /\ links'[p]["next"] \in Entries =>
            p = q \/ MovingUp(p, q)'
    BY <1>7, <1>11, <2>1 DEF QueueInv, NextInv
  <2>4. \A c \in Linked' :
          (pc'[Thread] = "deleting" /\ c = Entry') \/ links'[c]["next"] \in Cells
    <3> SUFFICES ASSUME NEW c \in Linked'
                 PROVE  (pc'[Thread] = "deleting" /\ c = Entry') \/ links'[c]["next"] \in Cells
      OBVIOUS
    <3>1. c \in Cells
      BY <1>10, WriteFacts DEF Linked, Allocated
    <3> QED BY <1>3, <1>6, <1>7, <1>10, <1>12, <3>1 DEF QueueInv, NextInv
  <2>5. links'[ListHead]["next"] \in Cells /\ links'[ListHead]["prev"] \in Cells
    BY <1>3, <1>7, WriteFacts DEF QueueInv, NextInv
  <2> QED BY <2>2, <2>3, <2>4, <2>5 DEF NextInv
<1>14. FirstInv'
  <2>1. links'[ListHead]["next"] \in Entries =>
          links'[links'[ListHead]["next"]]["prev"] = ListHead
    BY <1>3, <1>6, <1>7, WriteFacts DEF QueueInv, FirstInv
  <2>2. pc'[Thread] = "sent" =>
          /\ links'[Entry']["prev"] = ListHead
          /\ \A p \in Cells : links'[p]["next"] = Entry' => p = ListHead
    BY <1>7, <1>12 DEF QueueInv, FirstInv
  <2>3. ASSUME NEW n \in Cells, pc'[Thread] = "deleting", DeletingBefore(n)
        PROVE  DeletingBefore(n)'
    <3>1. Entry' = Entry /\ todo'[Thread] = todo[Thread] /\ Entry # e
      BY <1>12, <2>3
    <3>2. n # e
      BY <1>3, <2>3 DEF DeletingBefore
    <3>3. links'[n]["prev"] = links[n]["prev"]
      BY <1>7
    <3>4. \A p \in Cells : \A x : x # e /\ links'[p]["next"] = x => links[p]["next"] = x
      BY <1>7
    <3> QED BY <1>10, <2>3, <3>1, <3>2, <3>3, <3>4 DEF DeletingBefore
  <2>4. pc'[Thread] = "deleting" => \E n \in Cells : DeletingBefore(n)'
    BY <1>12, <2>3 DEF QueueInv, FirstInv
  <2> QED BY <2>1, <2>2, <2>4 DEF FirstInv
<1>15. ThreadsInv'
  <2>1. ASSUME NEW u \in Threads \ {t}, NEW x, pc[u] = "adding", AddingBehind(u, x)
        PROVE  AddingBehind(u, x)'
    <3>1. entry[u] \in Cells
      BY <2>1, WriteFacts DEF QueueInv, ThreadsInv, QueueTypeOK
    <3>2. links'[entry[u]]["next"] = links[entry[u]]["next"] \/ links'[entry[u]]["next"] \in Cells
      BY <1>3, <1>7, <3>1
    <3> QED BY <1>2, <1>7, <1>8, <2>1, <3>1, <3>2, AppendKeeps
  <2>2. \A u \in Threads : pc'[u] = "adding" => \E x \in Cells : AddingBehind(u, x)'
    BY <1>8, <2>1 DEF QueueInv, ThreadsInv
  <2> QED BY <1>2, <1>3, <1>8, <1>10, <2>2 DEF QueueInv, ThreadsInv
<1> QED BY <1>13, <1>14, <1>15 DEF QueueInv

\* The writes of list_del(): what follows becomes the first before nothing leads
\* to the entry any longer.
LEMMA StepDeleting ==
  ASSUME QueueTypeOK, QueueInv, NEW t \in Threads, WriteNext(t), pc[t] = "deleting"
  PROVE  QueueTypeOK' /\ (~fault' => QueueInv')
<1>1. /\ t = Thread /\ WritePointer(Thread) /\ pc[Thread] = "deleting"
      /\ UNCHANGED <<pc, entry, linked, request, called, made, sent, clash>>
  BY WriteEffect DEF WriteNext, QueueInv, ThreadsInv
<1>2. /\ links' \in Links /\ fault' \in BOOLEAN
      /\ todo' \in [Threads -> Seq(Writes)]
      /\ \A u \in Threads : Len(todo'[u]) <= 4
      /\ todo'[Thread] = Tail(todo[Thread])
      /\ \A u \in Threads \ {Thread} : todo'[u] = todo[u]
  BY <1>1, WriteEffect
<1>3. QueueTypeOK'
  BY <1>1, <1>2 DEF QueueTypeOK
<1> SUFFICES ASSUME ~fault' PROVE QueueInv'
  BY <1>3
<1>4. PICK n \in Cells : DeletingBefore(n)
  BY <1>1 DEF QueueInv, FirstInv
<1>5. PICK e : e = Entry
  OBVIOUS
<1>6. /\ Entry' = e /\ Linked' = Linked /\ Allocated' = Allocated
  BY <1>1, <1>5 DEF Entry, Linked, Allocated, Adding
<1>7. /\ e \in Linked /\ e \in Entries /\ e \in Cells /\ e # ListHead /\ Thread \in Threads
      /\ e \in Pointers /\ n \in Pointers /\ n # e
  BY <1>1, <1>4, <1>5, WriteFacts
  DEF QueueInv, ThreadsInv, Entry, Linked, Allocated, DeletingBefore
<1>8. /\ todo[Thread] # <<>>
      /\ \A c \in Cells, f \in Fields :
           links'[c][f] = IF c = Head(todo[Thread]).at /\ f = Head(todo[Thread]).field
                          THEN Head(todo[Thread]).to ELSE links[c][f]
  BY <1>1, WriteEffect DEF WritePointer
<1>9. \A c \in Linked : c \in Cells /\ c \in Entries /\ c # ListHead
  BY WriteFacts DEF Linked, Allocated
<1>10. \A u \in Threads : Adding(u) => entry[u] \in Cells /\ entry[u] \notin Linked
                                         /\ entry[u] \in Entries /\ u # Thread
  BY <1>1, WriteFacts DEF QueueInv, ThreadsInv, QueueTypeOK, Linked, Adding
<1>11. ASSUME \A c \in Cells : c \notin Linked /\ c \in Entries =>
                 links'[c]["next"] = links[c]["next"] /\ links'[c]["prev"] = links[c]["prev"]
       PROVE  ThreadsInv'
  <2>1. ASSUME NEW u \in Threads, NEW x, pc[u] = "adding", AddingBehind(u, x)
        PROVE  AddingBehind(u, x)'
    BY <1>1, <1>2, <1>10, <1>11, <2>1, AppendKeeps DEF Adding
  <2>2. \A u \in Threads : pc'[u] = "adding" => \E x \in Cells : AddingBehind(u, x)'
    BY <1>1, <2>1 DEF QueueInv, ThreadsInv
  <2> QED BY <1>1, <1>2, <1>6, <2>2 DEF QueueInv, ThreadsInv
<1>12. CASE todo[Thread] = <<Write(n, "prev", ListHead), Write(ListHead, "next", n),
                             Write(e, "next", LIST_POISON), Write(e, "prev", LIST_POISON)>>
  <2>1. /\ Head(todo[Thread]) = Write(n, "prev", ListHead)
        /\ todo'[Thread] = <<Write(ListHead, "next", n), Write(e, "next", LIST_POISON),
                             Write(e, "prev", LIST_POISON)>>
        /\ Len(todo[Thread]) = 4 /\ Len(todo'[Thread]) = 3
    BY <1>2, <1>12
  <2>2. /\ \A c \in Cells : links'[c]["next"] = links[c]["next"]
        /\ \A c \in Cells : links'[c]["prev"] = IF c = n THEN ListHead ELSE links[c]["prev"]
    BY <1>8, <2>1, WriteFacts
  <2>3. n \in Entries => n \in Linked
    BY <1>4 DEF DeletingBefore
  <2>4. ThreadsInv'
    BY <1>11, <2>2, <2>3
  <2>5. \A p, q : ~MovingUp(p, q)
    BY <2>1 DEF MovingUp
  <2>6. NextInv'
    BY <1>1, <1>5, <1>6, <1>7, <1>9, <2>2, <2>5, WriteFacts, SMTT(30) DEF QueueInv, NextInv
  <2>7. DeletingBefore(n)'
    BY <1>4, <1>5, <1>6, <2>1, <2>2 DEF DeletingBefore
  <2>8. FirstInv'
    BY <1>1, <2>2, <2>7, WriteFacts DEF QueueInv, FirstInv
  <2> QED BY <2>4, <2>6, <2>8 DEF QueueInv
<1>13. CASE todo[Thread] = <<Write(ListHead, "next", n), Write(e, "next", LIST_POISON),
                             Write(e, "prev", LIST_POISON)>>
  <2>1. /\ Head(todo[Thread]) = Write(ListHead, "next", n)
        /\ todo'[Thread] = <<Write(e, "next", LIST_POISON), Write(e, "prev", LIST_POISON)>>
        /\ Len(todo[Thread]) = 3 /\ Len(todo'[Thread]) = 2
    BY <1>2, <1>13
  <2>2. /\ \A c \in Cells : links'[c]["next"] = IF c = ListHead THEN n ELSE links[c]["next"]
        /\ \A c \in Cells : links'[c]["prev"] = links[c]["prev"]
    BY <1>7, <1>8, <2>1, WriteFacts
  <2>3. ThreadsInv'
    BY <1>11, <2>2, WriteFacts
  <2>4. /\ n \in Entries => /\ n \in Linked /\ links[n]["prev"] = ListHead
                            /\ \A p \in Cells : links[p]["next"] = n => p = e
        /\ \A p \in Cells : links[p]["next"] = e => p = ListHead
    BY <1>4, <1>5, <2>1 DEF DeletingBefore
  <2>5. MovingUp(ListHead, e)' /\ MovingUp(e, ListHead)' /\ \A p, q : ~MovingUp(p, q)
    BY <1>1, <1>5, <1>6, <2>1 DEF MovingUp
  <2>6. NextInv'
    <3>1. \A p \in Cells : links'[p]["next"] \in Entries => links'[p]["next"] \in Linked'
      BY <1>6, <2>2, <2>4 DEF QueueInv, NextInv
    <3>2. \A p, q \in Cells :
            links'[p]["next"] = links'[q]["next"] /\ links'[p]["next"] \in Entries =>
              p = q \/ MovingUp(p, q)'
      BY <2>2, <2>4, <2>5 DEF QueueInv, NextInv
    <3>3. \A c \in Linked' :
            (pc'[Thread] = "deleting" /\ c = Entry') \/ links'[c]["next"] \in Cells
      BY <1>1, <1>5, <1>6, <1>9, <2>2 DEF QueueInv, NextInv
    <3>4. links'[ListHead]["next"] \in Cells /\ links'[ListHead]["prev"] \in Cells
      BY <2>2, WriteFacts DEF QueueInv, NextInv
    <3> QED BY <3>1, <3>2, <3>3, <3>4 DEF NextInv
  <2>7. DeletingBefore(n)'
    <3>1. \A p \in Cells : links'[p]["next"] # e
      BY <1>7, <2>2, <2>4
    <3> QED BY <1>6, <1>7, <2>1, <2>4, <3>1 DEF DeletingBefore
  <2>8. FirstInv'
    BY <1>1, <2>2, <2>4, <2>7, WriteFacts DEF FirstInv
  <2> QED BY <2>3, <2>6, <2>8 DEF QueueInv
<1>14. CASE todo[Thread] = <<Write(e, "next", LIST_POISON), Write(e, "prev", LIST_POISON)>>
  <2>1. /\ Head(todo[Thread]) = Write(e, "next", LIST_POISON)
        /\ todo'[Thread] = <<Write(e, "prev", LIST_POISON)>>
        /\ Len(todo[Thread]) = 2 /\ Len(todo'[Thread]) = 1
    BY <1>2, <1>14
  <2>2. /\ \A c \in Cells : links'[c]["next"] = IF c = e THEN LIST_POISON ELSE links[c]["next"]
        /\ \A c \in Cells : links'[c]["prev"] = links[c]["prev"]
    BY <1>7, <1>8, <2>1, WriteFacts
  <2>3. ThreadsInv'
    BY <1>7, <1>11, <2>2
  <2>4. /\ n \in Entries => n \in Linked
        /\ \A p \in Cells : links[p]["next"] # e
    BY <1>4, <1>5, <2>1 DEF DeletingBefore
  <2>5. \A p, q : MovingUp(p, q) => p = e \/ q = e
    BY <1>5 DEF MovingUp
  <2>6. LIST_POISON \notin Cells /\ LIST_POISON \notin Entries
    BY WriteFacts
  <2>7. NextInv'
    <3>1. \A p \in Cells : links'[p]["next"] \in Entries => links'[p]["next"] \in Linked'
      BY <1>6, <2>2, <2>6 DEF QueueInv, NextInv
    <3>2. \A p, q \in Cells :
            links'[p]["next"] = links'[q]["next"] /\ links'[p]["next"] \in Entries =>
              p = q \/ MovingUp(p, q)'
      BY <2>2, <2>5, <2>6 DEF QueueInv, NextInv
    <3>3. \A c \in Linked' :
            (pc'[Thread] = "deleting" /\ c = Entry') \/ links'[c]["next"] \in Cells
      BY <1>1, <1>5, <1>6, <1>9, <2>2 DEF QueueInv, NextInv
    <3>4. links'[ListHead]["next"] \in Cells /\ links'[ListHead]["prev"] \in Cells
      BY <1>7, <2>2, WriteFacts DEF QueueInv, NextInv
    <3> QED BY <3>1, <3>2, <3>3, <3>4 DEF NextInv
  <2>8. DeletingBefore(n)'
    <3>1. \A p \in Cells : links'[p]["next"] # e
      BY <1>7, <2>2, <2>4, <2>6
    <3> QED BY <1>6, <1>7, <2>1, <2>4, <3>1 DEF DeletingBefore
  <2>9. FirstInv'
    BY <1>1, <1>7, <2>2, <2>8, WriteFacts DEF QueueInv, FirstInv
  <2> QED BY <2>3, <2>7, <2>9 DEF QueueInv
<1>15. CASE todo[Thread] = <<Write(e, "prev", LIST_POISON)>>
  <2>1. /\ Head(todo[Thread]) = Write(e, "prev", LIST_POISON)
        /\ todo'[Thread] = <<>>
        /\ Len(todo[Thread]) = 1 /\ Len(todo'[Thread]) = 0
    BY <1>2, <1>15
  <2>2. /\ \A c \in Cells : links'[c]["next"] = links[c]["next"]
        /\ \A c \in Cells : links'[c]["prev"] = IF c = e THEN LIST_POISON ELSE links[c]["prev"]
    BY <1>7, <1>8, <2>1, WriteFacts
  <2>3. ThreadsInv'
    BY <1>7, <1>11, <2>2
  <2>4. /\ n \in Entries => n \in Linked
        /\ \A p \in Cells : links[p]["next"] # e
    BY <1>4, <1>5, <2>1 DEF DeletingBefore
  <2>5. \A p, q : ~MovingUp(p, q)
    BY <2>1 DEF MovingUp
  <2>6. NextInv'
    BY <1>1, <1>5, <1>6, <1>7, <1>9, <2>2, <2>5, WriteFacts, SMTT(30) DEF QueueInv, NextInv
  <2>7. DeletingBefore(n)'
    BY <1>6, <1>7, <2>1, <2>2, <2>4 DEF DeletingBefore
  <2>8. FirstInv'
    BY <1>1, <1>7, <2>2, <2>4, <2>7, WriteFacts DEF QueueInv, FirstInv
  <2> QED BY <2>3, <2>6, <2>8 DEF QueueInv
<1> QED BY <1>4, <1>5, <1>8, <1>12, <1>13, <1>14, <1>15 DEF DeletingBefore

-----------------------------------------------------------------------------
\* The steps that leave the queue as it is: those of the socket, of the thread's
\* end and of close_chn() before and after it made its request.
Elsewhere ==
  \/ UNCHANGED vars
  \/ \E t \in Apps : CloseChn(t) \/ UseFreed(t)
  \/ Leave \/ Destroy \/ SocketBlocks \/ SocketOpens

\* They move no pointer, and a fault among them comes after the thread's end.
LEMMA ElsewhereFacts ==
  ASSUME Elsewhere
  PROVE  /\ UNCHANGED <<links, request, pc, entry, todo, made, linked, sent, clash>>
         /\ called' \subseteq called \cup Apps
         /\ fault' = fault \/ (fault' = TRUE /\ thread = "ended")
  BY DEF Elsewhere, vars, queue, session, CloseChn, UseFreed, Leave, Destroy,
         SocketBlocks, SocketOpens

\* A session that ended stays so.
LEMMA EndIsFinal ==
  ASSUME [Next]_vars, thread' # "ended"
  PROVE  thread # "ended"
  BY DEF vars, queue, session, Next, Consume, SendFirst, ReadNeighbours, FreeSent,
         MakeRequest, Produce, ReadTail, WriteNext, LinkEntry, WritePointer,
         CloseChn, UseFreed, Leave, Destroy, SocketBlocks, SocketOpens

\* Every step of every thread keeps the queue safe, unless it is the fault.
LEMMA StepQueue == QueueTypeOK /\ SafeQueue /\ [Next]_vars => QueueTypeOK' /\ SafeQueue'
<1> SUFFICES ASSUME QueueTypeOK, SafeQueue, [Next]_vars PROVE QueueTypeOK' /\ SafeQueue'
  OBVIOUS
<1>1. CASE Elsewhere
  <2>1. /\ UNCHANGED <<links, request, pc, entry, todo, made, linked, sent, clash>>
        /\ called' \subseteq called \cup Apps
        /\ fault' = fault \/ fault' = TRUE
    BY <1>1, ElsewhereFacts
  <2>2. QueueTypeOK'
    BY <2>1 DEF QueueTypeOK
  <2>3. Linked' = Linked /\ Allocated' = Allocated /\ Entry' = Entry
    BY <2>1 DEF Linked, Allocated, Adding, Entry
  <2>4. SafeQueue'
    <3> SUFFICES ASSUME ~fault' PROVE QueueInv'
      BY DEF SafeQueue
    <3>1. QueueInv
      BY <2>1 DEF SafeQueue
    <3>2. NextInv' /\ FirstInv'
      BY <2>1, <2>3, <3>1, PointersKeep
    <3>3. ThreadsInv'
      BY <2>1, <2>3, <3>1 DEF QueueInv, ThreadsInv, AddingBehind
    <3> QED BY <3>2, <3>3 DEF QueueInv
  <2> QED BY <2>2, <2>4
<1>2. CASE Next
  <2>1. ~fault /\ QueueInv
    BY <1>2 DEF Next, SafeQueue
  <2>2. CASE Consume
    BY <2>1, <2>2, StepSendFirst, StepReadNeighbours, StepFreeSent DEF Consume, SafeQueue
  <2>3. ASSUME NEW t \in Threads, MakeRequest(t) \/ Produce(t)
        PROVE  QueueTypeOK' /\ SafeQueue'
    <3>1. CASE MakeRequest(t)
      BY <2>1, <3>1, StepMakeRequest DEF SafeQueue
    <3>2. CASE ReadTail(t)
      BY <2>1, <3>2, StepReadTail DEF SafeQueue
    <3>3. CASE WriteNext(t)
      <4>1. todo[t] # <<>>
        BY <3>3 DEF WriteNext, WritePointer
      <4>2. pc[t] \in {"adding", "deleting"}
        BY <2>1, <4>1 DEF QueueInv, ThreadsInv, QueueTypeOK
      <4> QED BY <2>1, <3>3, <4>2, StepAppending, StepDeleting DEF SafeQueue
    <3>4. CASE LinkEntry(t)
      BY <2>1, <3>4, StepLinkEntry DEF SafeQueue
    <3> QED BY <2>3, <3>1, <3>2, <3>3, <3>4 DEF Produce
  <2> QED BY <1>1, <1>2, <2>2, <2>3 DEF Next, Elsewhere
<1> QED BY <1>1, <1>2 DEF Elsewhere

\* The memory of the queue stays what init_send_queue(), alloc_send_buf(),
\* list_add_tail() and list_del() make of it, in every interleaving.
THEOREM QueueTypes == Spec => []TypeOK
<1> DEFINE SessionTypeOK ==
      /\ closing \subseteq called
      /\ {teardown, writable} \subseteq BOOLEAN
      /\ thread \in {"running", "leaving", "ended"}
      /\ teardowns \subseteq 1..made
<1>1. QueueTypeOK /\ SafeQueue /\ [Next]_vars => (QueueTypeOK /\ SafeQueue)'
  BY StepQueue
<1>2. Init => SessionTypeOK
  BY DEF Init
<1>3. QueueTypeOK /\ SessionTypeOK /\ [Next]_vars => SessionTypeOK'
  <2> SUFFICES ASSUME QueueTypeOK, SessionTypeOK, [Next]_vars PROVE SessionTypeOK'
    OBVIOUS
  <2>1. made \in Nat /\ 1..made \subseteq 1..(made + 1) /\ made + 1 \in 1..(made + 1)
    BY QueueAssumption DEF QueueTypeOK
  <2>2. ASSUME NEW t \in Threads, MakeRequest(t) PROVE SessionTypeOK'
    <3>1. /\ teardown' = (teardown /\ t # Thread) /\ closing' = closing \ {t}
          /\ teardowns' = IF t = Thread THEN teardowns ELSE teardowns \cup {made + 1}
          /\ made' = made + 1 /\ UNCHANGED <<called, writable, thread>>
      BY <2>2 DEF MakeRequest
    <3>2. teardown' \in BOOLEAN
      BY <3>1
    <3>3. teardowns' \subseteq 1..made'
      <4>1. CASE t = Thread
        BY <2>1, <3>1, <4>1
      <4>2. CASE t # Thread
        BY <2>1, <3>1, <4>2
      <4> QED BY <4>1, <4>2
    <3> QED BY <3>1, <3>2, <3>3
  <2>3. CASE Elsewhere
    BY <2>3 DEF Elsewhere, vars, queue, session, CloseChn, UseFreed, Leave, Destroy,
                SocketBlocks, SocketOpens
  <2>4. CASE Consume
    BY <2>4 DEF Consume, SendFirst, ReadNeighbours, FreeSent, session
  <2>5. ASSUME NEW t \in Threads, Produce(t) PROVE SessionTypeOK'
    BY <2>5 DEF Produce, ReadTail, WriteNext, LinkEntry, WritePointer, session
  <2> QED BY <2>2, <2>3, <2>4, <2>5 DEF Next, Elsewhere
<1>4. Spec => [](QueueTypeOK /\ SafeQueue /\ SessionTypeOK)
  BY <1>1, <1>2, <1>3, InitQueue, PTL DEF Spec
<1>5. QueueTypeOK /\ SessionTypeOK => TypeOK
  BY DEF TypeOK
<1> QED BY <1>4, <1>5, PTL

\* An append can lose requests to a deletion or to another append, but
\* consume_send_buf() never finds a freed entry at the head: in no
\* interleaving, and until the first fault, does it send, delete and free
\* an entry twice (send_queue.c:97-101).
THEOREM NoEntryTwice == Spec => []TakesLiveEntries
<1>1. QueueTypeOK /\ SafeQueue /\ [Next]_vars => (QueueTypeOK /\ SafeQueue)'
  BY StepQueue
<1>2. QueueTypeOK /\ SafeQueue => TakesLiveEntries
  BY DEF SafeQueue, QueueInv, NextInv, TakesLiveEntries, ListEmpty, Cells, Linked
<1>3. Spec => [](QueueTypeOK /\ SafeQueue)
  BY <1>1, InitQueue, PTL DEF Spec
<1> QED BY <1>2, <1>3, PTL

-----------------------------------------------------------------------------
(* An undisturbed append finds the last entry, and its writes find memory  *)
(* that is owned.                                                          *)

\* The tail stays the tail when no next pointer moves.
LEMMA TailStays ==
  ASSUME NEW c, IsTail(c), Linked' \subseteq Linked, c \in Linked' \cup {ListHead},
         \A p \in Linked' \cup {ListHead} : links'[p]["next"] = links[p]["next"],
         \A p \in Linked' \cup {ListHead} : Leaving(p) => Leaving(p)'
  PROVE  IsTail(c)'
  BY DEF IsTail

\* Nothing is leaving while an entry is appended.
LEMMA NobodyLeaves ==
  ASSUME NEW t \in Threads, pc[t] = "adding"
  PROVE  \A p : ~Leaving(p)
  BY DEF Leaving

\* The tail, the append and the deletion are as they were in steps that move no
\* pointer of the list and leave the operations under way alone.
LEMMA AloneStays ==
  ASSUME QueueTypeOK, QueueInv, TailInv, Linked' = Linked,
         \A c \in Linked \cup {ListHead} : links'[c] = links[c],
         \A t \in Threads : pc[t] = "adding" \/ pc'[t] = "adding" =>
            /\ pc'[t] = pc[t] /\ todo'[t] = todo[t] /\ entry'[t] = entry[t]
            /\ links'[entry[t]] = links[entry[t]],
         pc[Thread] = "deleting" \/ pc'[Thread] = "deleting" =>
            /\ pc'[Thread] = pc[Thread] /\ todo'[Thread] = todo[Thread]
            /\ entry'[Thread] = entry[Thread]
  PROVE  TailInv'
<1>1. Last' = Last
  BY DEF Last
<1>2. \A p : Leaving(p) => Leaving(p)'
  BY <1>1 DEF Leaving, Entry
<1>3. \A c : IsTail(c) => IsTail(c)'
  BY <1>2, TailStays DEF IsTail
<1>4. \A t \in Threads : pc[t] = "adding" => Behind(t)' = Behind(t)
  BY DEF Behind
<1>5. ~Clashing'
  BY <1>4 DEF TailInv, Clashing
<1>6. ASSUME NEW t \in Threads, pc'[t] = "adding"
      PROVE  /\ IsTail(Behind(t))'
             /\ Last' = IF Len(todo'[t]) = 4 THEN Behind(t)' ELSE entry'[t]
             /\ Len(todo'[t]) <= 2 => links'[entry'[t]]["next"] = ListHead
  <2>1. PICK c : c = Behind(t)
    OBVIOUS
  <2>2. IsTail(c)'
    BY <1>3, <1>6, <2>1 DEF TailInv
  <2> QED BY <1>1, <1>4, <1>6, <2>1, <2>2 DEF TailInv
<1>7. (\A t \in Threads : pc'[t] # "adding") => IsTail(Last)'
  <2> SUFFICES ASSUME \A t \in Threads : pc'[t] # "adding" PROVE IsTail(Last)'
    OBVIOUS
  <2>1. PICK c : c = Last
    OBVIOUS
  <2>2. IsTail(c)
    BY <2>1 DEF TailInv
  <2>3. IsTail(c)'
    BY <1>3, <2>2
  <2> QED BY <1>1, <2>1, <2>3
<1>8. pc'[Thread] = "deleting" =>
        /\ Len(todo'[Thread]) = 4 => todo'[Thread][1].at = links'[Entry']["next"]
        /\ Len(todo'[Thread]) = 3 => todo'[Thread][1].to = links'[Entry']["next"]
        /\ Len(todo'[Thread]) <= 3 => Last' # Entry'
  <2>1. pc[Thread] = "deleting" => Entry \in Linked
    BY DEF QueueInv, ThreadsInv, Entry, Threads
  <2> QED BY <1>1, <2>1 DEF TailInv, Entry
<1> QED BY <1>5, <1>6, <1>7, <1>8 DEF TailInv

\* New memory is no part of the list, and what is first is read without a write.
LEMMA AloneMakeRequest ==
  ASSUME QueueTypeOK, QueueInv, TailInv, NEW t \in Threads, MakeRequest(t)
  PROVE  TailInv'
<1>1. PICK e \in Entries \ Allocated :
        /\ request' = [request EXCEPT ![e] = made + 1]
        /\ links' = [links EXCEPT ![e] = [f \in Fields |-> NULL]]
        /\ entry' = [entry EXCEPT ![t] = e]
        /\ pc[t] = "idle" /\ made' = made + 1
        /\ pc' = [pc EXCEPT ![t] = "append"] /\ todo' = todo
  BY DEF MakeRequest
<1>2. \A c \in Cells \ {e} : links'[c] = links[c]
  BY <1>1, WriteFacts DEF QueueTypeOK, Links
<1>3. /\ \A u \in Threads \ {t} : pc'[u] = pc[u] /\ entry'[u] = entry[u]
      /\ pc'[t] = "append" /\ entry'[t] = e
  BY <1>1 DEF QueueTypeOK
<1>4. Allocated' = Allocated \cup {e}
  <2>1. made + 1 # NoRequest
    BY DEF QueueTypeOK, NoRequest
  <2> QED BY <1>1, <2>1 DEF QueueTypeOK, Allocated
<1>5. Linked' = Linked
  BY <1>1, <1>3, <1>4 DEF Linked, Adding, QueueInv, ThreadsInv
<1>6. \A c \in Linked \cup {ListHead} : links'[c] = links[c]
  BY <1>1, <1>2, WriteFacts DEF Linked, Allocated
<1>7. \A u \in Threads : pc[u] = "adding" \/ pc'[u] = "adding" =>
        links'[entry[u]] = links[entry[u]]
  BY <1>1, <1>2, <1>3, WriteFacts DEF QueueInv, ThreadsInv, QueueTypeOK
<1>8. Thread \in Threads
  BY DEF Threads
<1> QED BY <1>1, <1>3, <1>5, <1>6, <1>7, <1>8, AloneStays

\* Taking the first entry to send it changes no pointer.
LEMMA AloneSendFirst ==
  ASSUME QueueTypeOK, QueueInv, TailInv, SendFirst
  PROVE  TailInv'
<1>1. /\ UNCHANGED <<links, request, todo>> /\ pc[Thread] = "idle" /\ Thread \in Threads
      /\ \/ \E first \in Entries : /\ entry' = [entry EXCEPT ![Thread] = first]
                                   /\ pc' = [pc EXCEPT ![Thread] = "sent"]
         \/ UNCHANGED <<entry, pc>>
  BY DEF SendFirst, Allocated, Threads
<1>2. /\ \A u \in Threads \ {Thread} : pc'[u] = pc[u] /\ entry'[u] = entry[u]
      /\ pc'[Thread] \in {"idle", "sent"}
  BY <1>1 DEF QueueTypeOK
<1>3. Linked' = Linked
  BY <1>1, <1>2 DEF Linked, Allocated, Adding
<1> QED BY <1>1, <1>2, <1>3, AloneStays

\* list_del() begins: the entry it takes out is no longer behind which anything
\* is appended.
LEMMA AloneReadNeighbours ==
  ASSUME QueueTypeOK, QueueInv, TailInv, ReadNeighbours, ~clash'
  PROVE  TailInv'
<1>1. /\ UNCHANGED <<links, request, entry>> /\ pc[Thread] = "sent" /\ Thread \in Threads
      /\ pc' = [pc EXCEPT ![Thread] = "deleting"]
      /\ todo' = [todo EXCEPT ![Thread] = ListDel(links, entry[Thread])]
      /\ ~Clashing'
  BY DEF ReadNeighbours, NoteClash, Threads
<1>2. /\ \A u \in Threads \ {Thread} : pc'[u] = pc[u] /\ todo'[u] = todo[u]
      /\ pc'[Thread] = "deleting"
      /\ todo'[Thread] = ListDel(links, entry[Thread])
  BY <1>1 DEF QueueTypeOK, QueueInv, ThreadsInv
<1>3. /\ Len(todo'[Thread]) = 4
      /\ todo'[Thread][1].at = links[Entry]["next"]
  BY <1>2 DEF ListDel, Write, Entry
<1>4. Linked' = Linked /\ Last' = Last /\ Entry' = Entry
  BY <1>1, <1>2 DEF Linked, Allocated, Adding, Last, Entry
<1>5. \A c : IsTail(c) => IsTail(c)'
  BY <1>1, <1>4, TailStays DEF IsTail, Leaving
<1>6. ASSUME NEW u \in Threads, pc'[u] = "adding"
      PROVE  /\ IsTail(Behind(u))'
             /\ Last' = IF Len(todo'[u]) = 4 THEN Behind(u)' ELSE entry'[u]
             /\ Len(todo'[u]) <= 2 => links'[entry'[u]]["next"] = ListHead
  <2>1. PICK c : c = Behind(u)
    OBVIOUS
  <2>2. u # Thread /\ pc[u] = "adding" /\ todo'[u] = todo[u] /\ Behind(u)' = c
    BY <1>2, <1>6, <2>1 DEF Behind
  <2>3. IsTail(c)'
    BY <1>5, <2>1, <2>2 DEF TailInv
  <2> QED BY <1>1, <1>4, <2>1, <2>2, <2>3 DEF TailInv
<1>7. (\A u \in Threads : pc'[u] # "adding") => IsTail(Last)'
  <2> SUFFICES ASSUME \A u \in Threads : pc'[u] # "adding" PROVE IsTail(Last)'
    OBVIOUS
  <2>1. PICK c : c = Last
    OBVIOUS
  <2>2. IsTail(c)
    BY <1>1, <1>2, <2>1 DEF TailInv
  <2>3. IsTail(c)'
    BY <1>5, <2>2
  <2> QED BY <1>4, <2>1, <2>3
<1>8. /\ Len(todo'[Thread]) = 4 => todo'[Thread][1].at = links'[Entry']["next"]
      /\ Len(todo'[Thread]) = 3 => todo'[Thread][1].to = links'[Entry']["next"]
      /\ Len(todo'[Thread]) <= 3 => Last' # Entry'
  <2>1. Len(todo'[Thread]) # 3 /\ ~(Len(todo'[Thread]) <= 3)
    BY <1>3
  <2>2. todo'[Thread][1].at = links'[Entry']["next"]
    BY <1>1, <1>3, <1>4
  <2> QED BY <2>1, <2>2
<1> QED BY <1>1, <1>6, <1>7, <1>8 DEF TailInv

\* When the entry is freed it has not been the last one for a while.
LEMMA AloneFreeSent ==
  ASSUME QueueTypeOK, QueueInv, TailInv, FreeSent
  PROVE  TailInv'
<1>1. /\ UNCHANGED <<links, todo>> /\ Thread \in Threads
      /\ pc[Thread] = "deleting" /\ todo[Thread] = <<>>
      /\ request' = [request EXCEPT ![Entry] = NoRequest]
      /\ pc' = [pc EXCEPT ![Thread] = "idle"]
      /\ entry' = [entry EXCEPT ![Thread] = NULL]
  BY DEF FreeSent, Entry, Threads
<1>2. /\ \A u \in Threads \ {Thread} : pc'[u] = pc[u] /\ entry'[u] = entry[u]
      /\ pc'[Thread] = "idle"
  BY <1>1 DEF QueueTypeOK
<1>3. Linked' = Linked \ {Entry} /\ Last' = Last
  <2>1. Allocated' = Allocated \ {Entry}
    BY <1>1 DEF Allocated, QueueTypeOK
  <2> QED BY <1>1, <1>2, <2>1 DEF Linked, Adding, Last
<1>4. Last # Entry /\ Entry # ListHead /\ \A p : ~Leaving(p)
  BY <1>1, WriteFacts DEF TailInv, Leaving, QueueInv, ThreadsInv, Entry, Linked, Allocated
<1>5. \A c : IsTail(c) /\ c # Entry => IsTail(c)'
  BY <1>1, <1>3, <1>4, TailStays DEF IsTail
<1>6. ASSUME NEW u \in Threads, pc'[u] = "adding"
      PROVE  /\ IsTail(Behind(u))'
             /\ Last' = IF Len(todo'[u]) = 4 THEN Behind(u)' ELSE entry'[u]
             /\ Len(todo'[u]) <= 2 => links'[entry'[u]]["next"] = ListHead
  <2>1. PICK c : c = Behind(u)
    OBVIOUS
  <2>2. u # Thread /\ pc[u] = "adding" /\ entry'[u] = entry[u] /\ Behind(u)' = c
    BY <1>1, <1>2, <1>6, <2>1 DEF Behind
  <2>3. c # Entry
    BY <1>1, <2>1, <2>2 DEF TailInv, Clashing, Entry
  <2>4. IsTail(c)'
    BY <1>5, <2>1, <2>2, <2>3 DEF TailInv
  <2> QED BY <1>1, <1>3, <2>1, <2>2, <2>4 DEF TailInv
<1>7. (\A u \in Threads : pc'[u] # "adding") => IsTail(Last)'
  <2> SUFFICES ASSUME \A u \in Threads : pc'[u] # "adding" PROVE IsTail(Last)'
    OBVIOUS
  <2>1. PICK c : c = Last
    OBVIOUS
  <2>2. IsTail(c)
    BY <1>1, <1>2, <2>1 DEF TailInv
  <2>3. IsTail(c)'
    BY <1>4, <1>5, <2>1, <2>2
  <2> QED BY <1>3, <2>1, <2>3
<1>8. ~Clashing'
  <2>1. \A u \in Threads : pc'[u] = "adding" => pc[u] = "adding" /\ Behind(u)' = Behind(u)
    BY <1>1, <1>2 DEF Behind
  <2> QED BY <1>2, <2>1 DEF TailInv, Clashing
<1> QED BY <1>2, <1>6, <1>7, <1>8 DEF TailInv

\* list_add_tail() begins, behind the last entry.
LEMMA AloneReadTail ==
  ASSUME QueueTypeOK, QueueInv, TailInv, NEW t \in Threads, ReadTail(t), ~clash'
  PROVE  TailInv'
<1>1. /\ UNCHANGED <<links, request, entry>> /\ pc[t] = "append" /\ Thread \in Threads
      /\ pc' = [pc EXCEPT ![t] = "adding"]
      /\ todo' = [todo EXCEPT ![t] = ListAddTail(links, entry[t])]
      /\ ~Clashing'
  BY DEF ReadTail, NoteClash, Threads
<1>2. /\ \A u \in Threads \ {t} : pc'[u] = pc[u] /\ todo'[u] = todo[u]
      /\ pc'[t] = "adding"
      /\ todo'[t] = ListAddTail(links, entry[t])
  BY <1>1 DEF QueueTypeOK, QueueInv, ThreadsInv
<1>3. Linked' = Linked /\ Last' = Last /\ Entry' = Entry
  BY <1>1, <1>2 DEF Linked, Allocated, Adding, Last, Entry
<1>4. Len(todo'[t]) = 4 /\ ~(Len(todo'[t]) <= 2) /\ Behind(t)' = Last
  BY <1>2 DEF ListAddTail, ListAdd, Write, Behind, Last
<1>5. \A u \in Threads : pc[u] # "adding" /\ (u # t => pc'[u] # "adding")
  BY <1>1, <1>2 DEF Clashing
<1>6. PICK c : c = Last
  OBVIOUS
<1>7. IsTail(c)
  BY <1>5, <1>6 DEF TailInv
<1>8. \A p : ~Leaving(p)
  <2>1. pc[Thread] = "deleting" => pc'[Thread] = "deleting"
    BY <1>1, <1>2
  <2>2. pc'[Thread] = "deleting" => Last # ListHead
    BY <1>1, <1>2, <1>4 DEF Clashing
  <2> QED BY <2>1, <2>2 DEF Leaving
<1>9. IsTail(c)'
  BY <1>1, <1>3, <1>7, <1>8, TailStays DEF IsTail
<1>10. pc'[Thread] = "deleting" =>
         pc[Thread] = "deleting" /\ todo'[Thread] = todo[Thread]
  BY <1>1, <1>2
<1> QED BY <1>1, <1>3, <1>4, <1>5, <1>6, <1>9, <1>10 DEF TailInv

\* The writes of an append before the last, none of which a walk to the tail meets.
LEMMA AloneAppending ==
  ASSUME QueueTypeOK, QueueInv, TailInv, ~fault, thread # "ended",
         NEW t \in Threads, WriteNext(t), pc[t] = "adding"
  PROVE  ~fault' /\ TailInv'
<1>0. PICK e : e = entry[t]
  OBVIOUS
<1>1. /\ Len(todo[t]) > 1 /\ WritePointer(t)
      /\ UNCHANGED <<pc, entry, request>>
  BY WriteEffect DEF WriteNext
<1>2. /\ todo'[t] = Tail(todo[t])
      /\ \A u \in Threads \ {t} : todo'[u] = todo[u]
  BY <1>1, WriteEffect
<1>3. PICK tail \in Cells : AddingBehind(t, tail)
  BY DEF QueueInv, ThreadsInv
<1>4. /\ e \in Entries /\ e \in Allocated /\ e \notin Linked /\ Thread \in Threads
      /\ e \in Cells /\ e \in Pointers /\ e # ListHead /\ tail \in Pointers
      /\ ListHead \in Cells
  BY <1>0, WriteFacts DEF QueueInv, ThreadsInv, QueueTypeOK, Linked, Adding, Threads
<1>5. todo[t] \in {<<Write(ListHead, "prev", e), Write(e, "next", ListHead),
                      Write(e, "prev", tail), Write(tail, "next", e)>>,
                    <<Write(e, "next", ListHead), Write(e, "prev", tail),
                      Write(tail, "next", e)>>,
                    <<Write(e, "prev", tail), Write(tail, "next", e)>>}
  <2>1. ASSUME todo[t] = <<Write(tail, "next", e)>> PROVE FALSE
    <3>1. Len(todo[t]) = 1
      BY <2>1
    <3> QED BY <1>1, <3>1
  <2> QED BY <1>0, <1>3, <2>1 DEF AddingBehind
<1>6. ~fault'
  <2>1. Head(todo[t]).at \in {ListHead, e}
    BY <1>3, <1>4, <1>5, WriteFacts
  <2> QED BY <1>1, <1>4, <2>1 DEF WritePointer, Valid
<1>7. \A c \in Cells, f \in Fields :
        links'[c][f] = IF c = Head(todo[t]).at /\ f = Head(todo[t]).field
                       THEN Head(todo[t]).to ELSE links[c][f]
  BY <1>1, <1>6, WriteEffect
<1>8. /\ \A c \in Cells \ {e} : links'[c]["next"] = links[c]["next"]
      /\ Last' = e
      /\ Len(todo'[t]) <= 2 => links'[e]["next"] = ListHead
      /\ Len(todo'[t]) # 4
      /\ Behind(t) = tail /\ Behind(t)' = tail
  <2>1. CASE todo[t] = <<Write(ListHead, "prev", e), Write(e, "next", ListHead),
                         Write(e, "prev", tail), Write(tail, "next", e)>>
    <3>1. /\ Head(todo[t]) = Write(ListHead, "prev", e)
          /\ todo'[t] = <<Write(e, "next", ListHead), Write(e, "prev", tail),
                          Write(tail, "next", e)>>
          /\ Len(todo'[t]) = 3
      BY <1>2, <2>1
    <3>2. /\ \A c \in Cells \ {e} : links'[c]["next"] = links[c]["next"]
          /\ links'[ListHead]["prev"] = e
      BY <1>4, <1>7, <3>1, WriteFacts
    <3>3. Behind(t) = tail /\ Behind(t)' = tail
      BY <1>4, <2>1, <3>1, WriteFacts DEF Behind
    <3> QED BY <3>1, <3>2, <3>3 DEF Last
  <2>2. CASE todo[t] = <<Write(e, "next", ListHead), Write(e, "prev", tail),
                         Write(tail, "next", e)>>
    <3>1. /\ Head(todo[t]) = Write(e, "next", ListHead)
          /\ todo'[t] = <<Write(e, "prev", tail), Write(tail, "next", e)>>
          /\ Len(todo'[t]) = 2 /\ Len(todo[t]) = 3
      BY <1>2, <2>2
    <3>2. /\ \A c \in Cells \ {e} : links'[c]["next"] = links[c]["next"]
          /\ links'[e]["next"] = ListHead
          /\ links'[ListHead]["prev"] = links[ListHead]["prev"]
      BY <1>4, <1>7, <3>1, WriteFacts
    <3>3. Behind(t) = tail /\ Behind(t)' = tail
      BY <1>4, <2>2, <3>1, WriteFacts DEF Behind
    <3>4. Last = e
      BY <1>0, <3>1, SMTT(30) DEF TailInv
    <3> QED BY <3>1, <3>2, <3>3, <3>4 DEF Last
  <2>3. CASE todo[t] = <<Write(e, "prev", tail), Write(tail, "next", e)>>
    <3>1. /\ Head(todo[t]) = Write(e, "prev", tail)
          /\ todo'[t] = <<Write(tail, "next", e)>>
          /\ Len(todo'[t]) = 1 /\ Len(todo[t]) = 2
      BY <1>2, <2>3
    <3>2. /\ \A c \in Cells : links'[c]["next"] = links[c]["next"]
          /\ links'[ListHead]["prev"] = links[ListHead]["prev"]
      BY <1>4, <1>7, <3>1, WriteFacts
    <3>3. Behind(t) = tail /\ Behind(t)' = tail
      BY <1>4, <2>3, <3>1, WriteFacts DEF Behind
    <3>4. Len(todo[t]) <= 2 /\ Len(todo[t]) # 4
      BY <3>1
    <3>5. Last = e /\ links[e]["next"] = ListHead
      BY <1>0, <3>4 DEF TailInv
    <3> QED BY <1>4, <3>1, <3>2, <3>3, <3>5 DEF Last
  <2> QED BY <1>5, <2>1, <2>2, <2>3
<1>9. /\ Linked' = Linked /\ Entry' = Entry
      /\ \A c \in Linked \cup {ListHead} : c \in Cells \ {e}
  BY <1>1, <1>4, WriteFacts DEF Linked, Allocated, Adding, Entry
<1>10. \A u \in Threads : pc[u] = "adding" <=> u = t
  BY DEF TailInv, Clashing
<1>11. IsTail(tail)'
  <2>1. IsTail(tail)
    BY <1>8 DEF TailInv
  <2> QED BY <1>8, <1>9, <2>1, NobodyLeaves, TailStays DEF IsTail
<1>12. /\ pc[Thread] = "deleting" => t # Thread /\ todo'[Thread] = todo[Thread]
       /\ pc[Thread] = "deleting" => Entry \in Linked
  BY <1>2, <1>4 DEF QueueInv, ThreadsInv, Entry
<1>13. ~Clashing'
  BY <1>1, <1>8, <1>10 DEF TailInv, Clashing
<1>14. \A u \in Threads : pc'[u] = "adding" =>
         /\ IsTail(Behind(u))'
         /\ Last' = IF Len(todo'[u]) = 4 THEN Behind(u)' ELSE entry'[u]
         /\ Len(todo'[u]) <= 2 => links'[entry'[u]]["next"] = ListHead
  BY <1>0, <1>1, <1>8, <1>10, <1>11
<1>15. pc'[Thread] = "deleting" =>
         /\ Len(todo'[Thread]) = 4 => todo'[Thread][1].at = links'[Entry']["next"]
         /\ Len(todo'[Thread]) = 3 => todo'[Thread][1].to = links'[Entry']["next"]
         /\ Len(todo'[Thread]) <= 3 => Last' # Entry'
  BY <1>1, <1>4, <1>8, <1>9, <1>12 DEF TailInv
<1> QED BY <1>1, <1>6, <1>10, <1>13, <1>14, <1>15 DEF TailInv

\* The last write of an append makes its entry the tail.
LEMMA AloneLinkEntry ==
  ASSUME QueueTypeOK, QueueInv, TailInv, ~fault, thread # "ended",
         NEW t \in Threads, LinkEntry(t)
  PROVE  ~fault' /\ TailInv'
<1>0. PICK e : e = entry[t]
  OBVIOUS
<1>1. /\ Len(todo[t]) = 1 /\ pc[t] = "adding" /\ WritePointer(t)
      /\ pc' = [pc EXCEPT ![t] = "idle"]
      /\ entry' = [entry EXCEPT ![t] = NULL]
      /\ UNCHANGED request
  BY WriteEffect DEF LinkEntry
<1>2. /\ todo'[t] = Tail(todo[t])
      /\ \A u \in Threads \ {t} : todo'[u] = todo[u]
  BY <1>1, WriteEffect
<1>3. PICK tail \in Cells : AddingBehind(t, tail)
  BY <1>1 DEF QueueInv, ThreadsInv
<1>4. /\ e \in Entries /\ e \in Allocated /\ e \notin Linked /\ Thread \in Threads
      /\ e \in Cells /\ e \in Pointers /\ e # ListHead
      /\ ListHead \in Cells /\ NULL \notin Entries
  BY <1>0, <1>1, WriteFacts DEF QueueInv, ThreadsInv, QueueTypeOK, Linked, Adding, Threads
<1>5. todo[t] = <<Write(tail, "next", e)>>
  BY <1>0, <1>1, <1>3, OneLeft DEF AddingBehind
<1>6. Behind(t) = tail /\ Head(todo[t]) = Write(tail, "next", e)
  BY <1>4, <1>5, WriteFacts DEF Behind
<1>7. /\ IsTail(tail) /\ Last = e /\ links[e]["next"] = ListHead
  <2>1. Len(todo[t]) <= 2 /\ Len(todo[t]) # 4
    BY <1>1
  <2> QED BY <1>0, <1>1, <1>6, <2>1 DEF TailInv
<1>8. \A c \in Linked : c \in Allocated /\ c \in Cells /\ c # ListHead /\ c # e
  BY <1>4, WriteFacts DEF Linked, Allocated
<1>9. ~fault'
  <2>1. Valid(tail)
    BY <1>7, <1>8 DEF IsTail, Valid
  <2>2. Head(todo[t]).at = tail
    BY <1>4, <1>6, WriteFacts
  <2> QED BY <1>1, <2>1, <2>2 DEF WritePointer
<1>10. /\ \A c \in Cells : links'[c]["next"] = IF c = tail THEN e ELSE links[c]["next"]
       /\ \A c \in Cells : links'[c]["prev"] = links[c]["prev"]
  <2>1. \A c \in Cells, f \in Fields :
          links'[c][f] = IF c = Head(todo[t]).at /\ f = Head(todo[t]).field
                         THEN Head(todo[t]).to ELSE links[c][f]
    BY <1>1, <1>9, WriteEffect
  <2> QED BY <1>4, <1>6, <2>1, WriteFacts
<1>11. /\ \A u \in Threads \ {t} : pc'[u] = pc[u] /\ entry'[u] = entry[u]
       /\ pc'[t] = "idle" /\ entry'[t] = NULL
  BY <1>1 DEF QueueTypeOK
<1>12. \A u \in Threads : pc[u] = "adding" <=> u = t
  BY <1>1 DEF TailInv, Clashing
<1>13. Linked' = Linked \cup {e}
  <2>1. Allocated' = Allocated
    BY <1>1 DEF Allocated
  <2>2. \A u \in Threads \ {t} : entry[u] # e
    BY <1>0, <1>4 DEF QueueInv, ThreadsInv
  <2>3. {entry[u] : u \in {v \in Threads : Adding(v)}}
          = {entry'[u] : u \in {v \in Threads : Adding(v)'}} \cup {e}
    BY <1>0, <1>1, <1>11 DEF Adding
  <2>4. e \notin {entry'[u] : u \in {v \in Threads : Adding(v)'}}
    BY <1>4, <1>11, <2>2 DEF Adding
  <2> QED BY <1>4, <2>1, <2>3, <2>4 DEF Linked
<1>14. Last' = e
  BY <1>4, <1>7, <1>10 DEF Last
<1>15. \A u \in Threads : pc'[u] # "adding"
  BY <1>11, <1>12
<1>16. IsTail(e)'
  <2>1. links'[e]["next"] = ListHead
    BY <1>4, <1>7, <1>8, <1>10 DEF IsTail
  <2>2. \A p \in Linked' \cup {ListHead} : links'[p]["next"] = ListHead => p = e
    BY <1>1, <1>4, <1>7, <1>8, <1>10, <1>13, NobodyLeaves DEF IsTail
  <2> QED BY <1>13, <2>1, <2>2 DEF IsTail
<1>17. ASSUME pc'[Thread] = "deleting"
       PROVE  /\ Len(todo'[Thread]) = 4 => todo'[Thread][1].at = links'[Entry']["next"]
              /\ Len(todo'[Thread]) = 3 => todo'[Thread][1].to = links'[Entry']["next"]
              /\ Len(todo'[Thread]) <= 3 => Last' # Entry'
  <2>1. /\ t # Thread /\ pc[Thread] = "deleting" /\ todo'[Thread] = todo[Thread]
        /\ Entry' = Entry
    BY <1>2, <1>4, <1>11, <1>17 DEF Entry
  <2>2. Entry \in Linked /\ Entry # tail
    BY <1>1, <1>4, <1>6, <2>1 DEF TailInv, Clashing, QueueInv, ThreadsInv, Entry
  <2>3. links'[Entry]["next"] = links[Entry]["next"] /\ Entry # e
    BY <1>8, <1>10, <2>2
  <2> QED BY <1>14, <2>1, <2>3 DEF TailInv
<1>18. ~Clashing'
  BY <1>15 DEF Clashing
<1> QED BY <1>9, <1>14, <1>15, <1>16, <1>17, <1>18 DEF TailInv

\* The writes of list_del(): what follows the entry, or else the head, is written
\* first, and when the entry was the only one the head becomes the tail.
LEMMA AloneDeleting ==
  ASSUME QueueTypeOK, QueueInv, TailInv, ~fault, thread # "ended",
         NEW t \in Threads, WriteNext(t), pc[t] = "deleting"
  PROVE  ~fault' /\ TailInv'
<1>1. /\ t = Thread /\ WritePointer(Thread) /\ pc[Thread] = "deleting"
      /\ UNCHANGED <<pc, entry, request>>
  BY WriteEffect DEF WriteNext, QueueInv, ThreadsInv
<1>2. /\ todo'[Thread] = Tail(todo[Thread])
      /\ \A u \in Threads \ {Thread} : todo'[u] = todo[u]
  BY <1>1, WriteEffect
<1>3. PICK n \in Cells : DeletingBefore(n)
  BY <1>1 DEF QueueInv, FirstInv
<1>4. PICK e : e = Entry
  OBVIOUS
<1>5. /\ Entry' = e /\ Linked' = Linked
  BY <1>1, <1>4 DEF Entry, Linked, Allocated, Adding
<1>6. /\ e \in Linked /\ e \in Cells /\ e # ListHead /\ Thread \in Threads
      /\ e \in Pointers /\ n \in Pointers /\ n # e /\ ListHead \in Cells
      /\ n \in Linked \cup {ListHead}
      /\ LIST_POISON # ListHead
  BY <1>1, <1>3, <1>4, WriteFacts
  DEF QueueInv, ThreadsInv, Entry, Linked, Allocated, DeletingBefore, Cells
<1>7. /\ todo[Thread] # <<>>
      /\ todo[Thread] \in {<<Write(n, "prev", ListHead), Write(ListHead, "next", n),
                             Write(e, "next", LIST_POISON), Write(e, "prev", LIST_POISON)>>,
                           <<Write(ListHead, "next", n), Write(e, "next", LIST_POISON),
                             Write(e, "prev", LIST_POISON)>>,
                           <<Write(e, "next", LIST_POISON), Write(e, "prev", LIST_POISON)>>,
                           <<Write(e, "prev", LIST_POISON)>>}
  BY <1>1, <1>3, <1>4 DEF DeletingBefore, WritePointer
<1>8. ~fault'
  <2>1. Head(todo[Thread]).at \in {n, ListHead, e}
    BY <1>6, <1>7, WriteFacts
  <2>2. Valid(n) /\ Valid(ListHead) /\ Valid(e)
    BY <1>6 DEF Valid, Linked
  <2> QED BY <1>1, <2>1, <2>2 DEF WritePointer
<1>9. \A c \in Cells, f \in Fields :
        links'[c][f] = IF c = Head(todo[Thread]).at /\ f = Head(todo[Thread]).field
                       THEN Head(todo[Thread]).to ELSE links[c][f]
  BY <1>1, <1>8, WriteEffect
<1>10. \A c \in Linked : c \in Cells /\ c # ListHead
  BY WriteFacts DEF Linked, Allocated
<1>11. \A u \in Threads : pc[u] = "adding" =>
         /\ u # Thread /\ todo'[u] = todo[u] /\ Behind(u)' = Behind(u)
         /\ Behind(u) \notin {e, ListHead} /\ IsTail(Behind(u))
         /\ entry[u] \notin Linked /\ entry[u] \in Cells /\ entry[u] # ListHead
         /\ entry[u] # n /\ entry[u] # e
  <2> SUFFICES ASSUME NEW u \in Threads, pc[u] = "adding"
               PROVE  /\ u # Thread /\ todo'[u] = todo[u] /\ Behind(u)' = Behind(u)
                      /\ Behind(u) \notin {e, ListHead} /\ IsTail(Behind(u))
                      /\ entry[u] \notin Linked /\ entry[u] \in Cells /\ entry[u] # ListHead
                      /\ entry[u] # n /\ entry[u] # e
    OBVIOUS
  <2>1. u # Thread /\ todo'[u] = todo[u] /\ Behind(u)' = Behind(u)
    BY <1>1, <1>2 DEF Behind
  <2>2. Behind(u) \notin {e, ListHead} /\ IsTail(Behind(u))
    BY <1>1, <1>4 DEF TailInv, Clashing, Entry
  <2>3. /\ entry[u] \notin Linked /\ entry[u] \in Cells /\ entry[u] # ListHead
    BY WriteFacts DEF QueueInv, ThreadsInv, QueueTypeOK, Linked, Adding
  <2> QED BY <1>6, <2>1, <2>2, <2>3
<1>12. ~Clashing'
  BY <1>1, <1>2, <1>4, <1>5, <1>11 DEF TailInv, Clashing, Entry
\* What remains to be shown of each write.
<1>13. ASSUME \A u \in Threads : pc[u] = "adding" => IsTail(Behind(u))',
              (\A u \in Threads : pc[u] # "adding") => IsTail(Last)',
              (\E u \in Threads : pc[u] = "adding") => Last' = Last,
              \A c \in Cells : c \notin Linked /\ c # ListHead =>
                links'[c]["next"] = links[c]["next"],
              Len(todo'[Thread]) # 4,
              Len(todo'[Thread]) = 3 => todo'[Thread][1].to = links'[e]["next"],
              Last' # e
       PROVE  TailInv'
  <2>1. \A u \in Threads : pc'[u] = "adding" =>
          /\ IsTail(Behind(u))'
          /\ Last' = IF Len(todo'[u]) = 4 THEN Behind(u)' ELSE entry'[u]
          /\ Len(todo'[u]) <= 2 => links'[entry'[u]]["next"] = ListHead
    BY <1>1, <1>11, <1>13 DEF TailInv
  <2>2. Len(todo'[Thread]) # 4
    BY <1>13
  <2>3. (\A u \in Threads : pc'[u] # "adding") => IsTail(Last)'
    BY <1>1, <1>13
  <2> QED BY <1>5, <1>12, <1>13, <2>1, <2>2, <2>3 DEF TailInv
<1>14. (\A u \in Threads : pc[u] # "adding") => IsTail(Last)
  BY DEF TailInv
<1>15. \A p : Leaving(p) => /\ p = e /\ Last = ListHead /\ Len(todo[Thread]) \in {2, 3}
                            /\ \A u \in Threads : pc[u] # "adding"
  BY <1>4 DEF Leaving
<1>16. CASE todo[Thread] = <<Write(n, "prev", ListHead), Write(ListHead, "next", n),
                             Write(e, "next", LIST_POISON), Write(e, "prev", LIST_POISON)>>
  <2>1. /\ Head(todo[Thread]) = Write(n, "prev", ListHead)
        /\ todo'[Thread] = <<Write(ListHead, "next", n), Write(e, "next", LIST_POISON),
                             Write(e, "prev", LIST_POISON)>>
        /\ todo[Thread][1] = Write(n, "prev", ListHead)
        /\ todo'[Thread][1] = Write(ListHead, "next", n)
        /\ Len(todo[Thread]) = 4 /\ Len(todo'[Thread]) = 3
    BY <1>2, <1>16
  <2>2. /\ \A c \in Cells : links'[c]["next"] = links[c]["next"]
        /\ Last' = IF n = ListHead THEN ListHead ELSE Last
    BY <1>6, <1>9, <2>1, WriteFacts DEF Last
  <2>3. n = links[e]["next"]
    BY <1>1, <1>4, <1>6, <2>1, WriteFacts DEF TailInv
  <2>4. \A p : ~Leaving(p)
    BY <1>15, <2>1
  <2>5. todo'[Thread][1].to = links'[e]["next"]
    BY <1>6, <2>1, <2>2, <2>3, WriteFacts
  <2>6. \A u \in Threads : pc[u] = "adding" => IsTail(Behind(u))'
    <3> SUFFICES ASSUME NEW u \in Threads, pc[u] = "adding" PROVE IsTail(Behind(u))'
      OBVIOUS
    <3>1. PICK c : c = Behind(u)
      OBVIOUS
    <3>2. IsTail(c)
      BY <1>11, <3>1
    <3>3. IsTail(c)'
      BY <1>5, <1>6, <1>10, <2>2, <2>4, <3>2, TailStays DEF IsTail
    <3> QED BY <1>11, <3>1, <3>3
  <2>7. n = ListHead => \A u \in Threads : pc[u] # "adding"
    BY <1>6, <1>11, <2>3, <2>4 DEF IsTail
  <2>8. ASSUME \A u \in Threads : pc[u] # "adding" PROVE Last # e \/ n = ListHead
    BY <1>6, <1>14, <2>3, <2>8 DEF IsTail
  <2>9. ASSUME NEW u \in Threads, pc[u] = "adding" PROVE Last # e
    BY <1>11, <2>9 DEF TailInv
  <2>10. Last' # e
    BY <1>6, <2>2, <2>8, <2>9
  <2>11. (\A u \in Threads : pc[u] # "adding") => IsTail(Last)'
    <3> SUFFICES ASSUME \A u \in Threads : pc[u] # "adding" PROVE IsTail(Last)'
      OBVIOUS
    <3>1. PICK c : c = Last
      OBVIOUS
    <3>2. IsTail(c)
      BY <1>14, <3>1
    <3>3. CASE n = ListHead
      <4>1. \A p \in Linked \cup {ListHead} : links[p]["next"] = ListHead => p = e
        BY <1>6, <2>3, <2>4, <3>2, <3>3 DEF IsTail
      <4>2. Leaving(e)'
        BY <1>1, <1>5, <2>1, <2>2, <3>3 DEF Leaving
      <4>3. IsTail(ListHead)'
        BY <1>5, <1>6, <1>10, <2>2, <4>1, <4>2 DEF IsTail
      <4> QED BY <2>2, <3>3, <4>3
    <3>4. CASE n # ListHead
      <4>1. IsTail(c)'
        BY <1>5, <1>6, <1>10, <2>2, <2>4, <3>2, TailStays DEF IsTail
      <4> QED BY <2>2, <3>1, <3>4, <4>1
    <3> QED BY <3>3, <3>4
  <2>12. (\E u \in Threads : pc[u] = "adding") => Last' = Last
    BY <2>2, <2>7
  <2> QED BY <1>8, <1>13, <2>1, <2>2, <2>5, <2>6, <2>10, <2>11, <2>12
<1>17. CASE todo[Thread] = <<Write(ListHead, "next", n), Write(e, "next", LIST_POISON),
                             Write(e, "prev", LIST_POISON)>>
  <2>1. /\ Head(todo[Thread]) = Write(ListHead, "next", n)
        /\ todo'[Thread] = <<Write(e, "next", LIST_POISON), Write(e, "prev", LIST_POISON)>>
        /\ todo[Thread][1] = Write(ListHead, "next", n)
        /\ Len(todo[Thread]) = 3 /\ Len(todo'[Thread]) = 2
    BY <1>2, <1>17
  <2>2. /\ \A c \in Cells : links'[c]["next"] = IF c = ListHead THEN n ELSE links[c]["next"]
        /\ Last' = Last
    BY <1>6, <1>9, <2>1, WriteFacts DEF Last
  <2>3. n = links[e]["next"]
    BY <1>1, <1>4, <1>6, <2>1, WriteFacts DEF TailInv
  <2>4. Last # e
    BY <1>1, <1>4, <2>1 DEF TailInv
  <2>5. n = ListHead => \A u \in Threads : pc[u] # "adding"
    <3> SUFFICES ASSUME n = ListHead, NEW u \in Threads, pc[u] = "adding" PROVE FALSE
      OBVIOUS
    <3> QED BY <1>6, <1>11, <1>15, <2>3 DEF IsTail
  <2>6. \A u \in Threads : pc[u] = "adding" => IsTail(Behind(u))'
    <3> SUFFICES ASSUME NEW u \in Threads, pc[u] = "adding" PROVE IsTail(Behind(u))'
      OBVIOUS
    <3>1. PICK c : c = Behind(u)
      OBVIOUS
    <3>2. IsTail(c) /\ c # ListHead /\ n # ListHead
      BY <1>11, <2>5, <3>1
    <3>3. c \in Linked /\ links'[c]["next"] = ListHead
      BY <1>10, <2>2, <3>2 DEF IsTail
    <3>4. \A p \in Linked \cup {ListHead} : links'[p]["next"] = ListHead => p = c
      BY <1>6, <1>10, <1>15, <2>2, <3>2 DEF IsTail
    <3>5. IsTail(c)'
      BY <1>5, <3>3, <3>4 DEF IsTail
    <3> QED BY <1>11, <3>1, <3>5
  <2>7. (\A u \in Threads : pc[u] # "adding") => IsTail(Last)'
    <3> SUFFICES ASSUME \A u \in Threads : pc[u] # "adding" PROVE IsTail(Last)'
      OBVIOUS
    <3>1. PICK c : c = Last
      OBVIOUS
    <3>2. IsTail(c) /\ c # e
      BY <1>14, <2>4, <3>1
    <3>3. CASE n = ListHead
      <4>1. c = ListHead
        BY <1>6, <1>15, <2>3, <3>1, <3>2, <3>3 DEF IsTail
      <4>2. Leaving(e)'
        BY <1>1, <1>5, <2>1, <2>2, <3>1, <4>1 DEF Leaving
      <4>3. \A p \in Linked \cup {ListHead} :
              links'[p]["next"] = ListHead => p = ListHead \/ p = e
        BY <1>6, <1>10, <1>15, <2>2, <3>2, <4>1 DEF IsTail
      <4> QED BY <1>5, <1>10, <2>2, <3>1, <4>1, <4>2, <4>3 DEF IsTail
    <3>4. CASE n # ListHead
      <4>1. \A p \in Linked \cup {ListHead} : links'[p]["next"] = ListHead => p = c
        BY <1>6, <1>10, <1>15, <2>2, <2>3, <3>2, <3>4 DEF IsTail
      <4>2. c \in Linked => links'[c]["next"] = ListHead
        BY <1>10, <2>2, <3>2 DEF IsTail
      <4>3. IsTail(c)'
        BY <1>5, <3>2, <4>1, <4>2 DEF IsTail
      <4> QED BY <2>2, <3>1, <4>3
    <3> QED BY <3>3, <3>4
  <2> QED BY <1>8, <1>13, <2>1, <2>2, <2>4, <2>6, <2>7
<1>18. CASE todo[Thread] = <<Write(e, "next", LIST_POISON), Write(e, "prev", LIST_POISON)>>
  <2>1. /\ Head(todo[Thread]) = Write(e, "next", LIST_POISON)
        /\ todo'[Thread] = <<Write(e, "prev", LIST_POISON)>>
        /\ Len(todo[Thread]) = 2 /\ Len(todo'[Thread]) = 1
    BY <1>2, <1>18
  <2>2. /\ \A c \in Cells : links'[c]["next"] = IF c = e THEN LIST_POISON ELSE links[c]["next"]
        /\ Last' = Last
    BY <1>6, <1>9, <2>1, WriteFacts DEF Last
  <2>3. Last # e
    <3>1. Len(todo[Thread]) <= 3
      BY <2>1
    <3> QED BY <1>1, <1>4, <3>1 DEF TailInv
  <2>4. ASSUME NEW c, c # e, IsTail(c) PROVE IsTail(c)'
    <3>1. \A p \in Linked \cup {ListHead} : links'[p]["next"] = ListHead => p = c
      BY <1>6, <1>10, <1>15, <2>2, <2>4 DEF IsTail
    <3>2. c \in Linked => links'[c]["next"] = ListHead
      BY <1>10, <2>2, <2>4 DEF IsTail
    <3> QED BY <1>5, <2>4, <3>1, <3>2 DEF IsTail
  <2>5. \A u \in Threads : pc[u] = "adding" => IsTail(Behind(u))'
    <3> SUFFICES ASSUME NEW u \in Threads, pc[u] = "adding" PROVE IsTail(Behind(u))'
      OBVIOUS
    <3>1. PICK c : c = Behind(u)
      OBVIOUS
    <3>2. IsTail(c)'
      BY <1>11, <2>4, <3>1
    <3> QED BY <1>11, <3>1, <3>2
  <2>6. (\A u \in Threads : pc[u] # "adding") => IsTail(Last)'
    <3> SUFFICES ASSUME \A u \in Threads : pc[u] # "adding" PROVE IsTail(Last)'
      OBVIOUS
    <3>1. PICK c : c = Last
      OBVIOUS
    <3>2. IsTail(c)'
      BY <1>14, <2>3, <2>4, <3>1
    <3> QED BY <2>2, <3>1, <3>2
  <2>7. Len(todo'[Thread]) # 4 /\ Len(todo'[Thread]) # 3
    BY <2>1
  <2> QED BY <1>6, <1>8, <1>13, <2>2, <2>3, <2>5, <2>6, <2>7
<1>19. CASE todo[Thread] = <<Write(e, "prev", LIST_POISON)>>
  <2>1. /\ Head(todo[Thread]) = Write(e, "prev", LIST_POISON)
        /\ todo'[Thread] = <<>>
        /\ Len(todo[Thread]) = 1 /\ Len(todo'[Thread]) = 0
    BY <1>2, <1>19
  <2>2. /\ \A c \in Cells : links'[c]["next"] = links[c]["next"]
        /\ Last' = Last
    BY <1>6, <1>9, <2>1, WriteFacts DEF Last
  <2>3. Last # e
    <3>1. Len(todo[Thread]) <= 3
      BY <2>1
    <3> QED BY <1>1, <1>4, <3>1 DEF TailInv
  <2>4. ASSUME NEW c, IsTail(c) PROVE IsTail(c)'
    <3>1. \A p : ~Leaving(p)
      BY <1>15, <2>1
    <3> QED BY <1>5, <1>6, <1>10, <2>2, <2>4, <3>1, TailStays DEF IsTail
  <2>5. \A u \in Threads : pc[u] = "adding" => IsTail(Behind(u))'
    <3> SUFFICES ASSUME NEW u \in Threads, pc[u] = "adding" PROVE IsTail(Behind(u))'
      OBVIOUS
    <3>1. PICK c : c = Behind(u)
      OBVIOUS
    <3>2. IsTail(c)'
      BY <1>11, <2>4, <3>1
    <3> QED BY <1>11, <3>1, <3>2
  <2>6. (\A u \in Threads : pc[u] # "adding") => IsTail(Last)'
    <3> SUFFICES ASSUME \A u \in Threads : pc[u] # "adding" PROVE IsTail(Last)'
      OBVIOUS
    <3>1. PICK c : c = Last
      OBVIOUS
    <3>2. IsTail(c)'
      BY <1>14, <2>4, <3>1
    <3> QED BY <2>2, <3>1, <3>2
  <2>7. Len(todo'[Thread]) # 4 /\ Len(todo'[Thread]) # 3
    BY <2>1
  <2> QED BY <1>6, <1>8, <1>13, <2>2, <2>3, <2>5, <2>6, <2>7
<1> QED BY <1>7, <1>16, <1>17, <1>18, <1>19

\* Every step keeps the tail where it belongs, until operations clash.
LEMMA StepAlone ==
  QueueTypeOK /\ SafeQueue /\ AloneInv /\ [Next]_vars => AloneInv'
<1> SUFFICES ASSUME QueueTypeOK, SafeQueue, AloneInv, [Next]_vars, ~clash',
                    thread' # "ended"
             PROVE  ~fault' /\ TailInv'
  BY DEF AloneInv
<1>0. thread # "ended"
  BY EndIsFinal
<1>1. CASE Elsewhere
  <2>1. UNCHANGED <<links, request, pc, entry, todo, clash, fault>>
    BY <1>0, <1>1, ElsewhereFacts
  <2>2. QueueTypeOK /\ QueueInv /\ TailInv /\ ~fault
    BY <1>0, <2>1 DEF SafeQueue, AloneInv
  <2>3. Linked' = Linked
    BY <2>1 DEF Linked, Allocated, Adding
  <2>4. TailInv'
    BY <2>1, <2>2, <2>3, AloneStays
  <2> QED BY <2>1, <2>2, <2>4
<1>2. CASE Next
  <2>1. /\ clash' = clash \/ clash' = (clash \/ Clashing')
    BY <1>2, ElsewhereFacts
    DEF Next, Consume, SendFirst, ReadNeighbours, FreeSent, MakeRequest, Produce,
        ReadTail, WriteNext, LinkEntry, WritePointer, NoteClash, Elsewhere
  <2>2. QueueTypeOK /\ QueueInv /\ TailInv /\ ~fault
    BY <1>0, <1>2, <2>1 DEF SafeQueue, AloneInv, Next
  <2>3. CASE SendFirst
    BY <2>2, <2>3, StepSendFirst, AloneSendFirst
  <2>4. CASE ReadNeighbours
    BY <2>2, <2>4, AloneReadNeighbours DEF ReadNeighbours
  <2>5. CASE FreeSent
    BY <2>2, <2>5, AloneFreeSent DEF FreeSent
  <2>6. ASSUME NEW t \in Threads, MakeRequest(t) \/ Produce(t)
        PROVE  ~fault' /\ TailInv'
    <3>1. CASE MakeRequest(t)
      BY <2>2, <3>1, AloneMakeRequest DEF MakeRequest
    <3>2. CASE ReadTail(t)
      BY <2>2, <3>2, AloneReadTail DEF ReadTail
    <3>3. CASE WriteNext(t)
      <4>1. todo[t] # <<>>
        BY <3>3 DEF WriteNext, WritePointer
      <4>2. pc[t] \in {"adding", "deleting"}
        BY <2>2, <4>1 DEF QueueInv, ThreadsInv, QueueTypeOK
      <4> QED BY <1>0, <2>2, <3>3, <4>2, AloneAppending, AloneDeleting
    <3>4. CASE LinkEntry(t)
      BY <1>0, <2>2, <3>4, AloneLinkEntry
    <3> QED BY <2>6, <3>1, <3>2, <3>3, <3>4 DEF Produce
  <2> QED BY <1>1, <1>2, <2>3, <2>4, <2>5, <2>6 DEF Next, Consume, Elsewhere
<1> QED BY <1>1, <1>2 DEF Elsewhere

\* Nothing is going on in an empty queue.
LEMMA InitAlone == Init => AloneInv
<1> SUFFICES ASSUME Init PROVE ~fault /\ TailInv
  BY DEF AloneInv
<1>1. /\ Last = ListHead /\ ~Clashing /\ \A t \in Threads : pc[t] = "idle"
      /\ \A p : ~Leaving(p) /\ Thread \in Threads
  BY WriteFacts DEF Init, Last, EmptyList, Clashing, Leaving, Threads
<1>2. Linked = {}
  BY DEF Init, Linked, Allocated
<1>3. IsTail(ListHead)
  BY <1>2 DEF IsTail
<1> QED BY <1>1, <1>3 DEF TailInv, Init

\* Nobody touches memory that is not its own any longer (send_queue.c:97-101,
\* rtsp_method.c:109) before two list operations met at the same pointers or the
\* session was freed under close_chn(): the race of close_chn() with the session
\* thread is harmless as long as it does not hit two appends, an append and the
\* deletion of the last entry, or the end of the thread.
\* This is the part of QueueIntact that does not speak of the order of requests.
THEOREM OnlyClashesFault == Spec => []FaultsNeedClash
<1>1. Init => AloneInv
  BY InitAlone
<1>2. QueueTypeOK /\ SafeQueue /\ AloneInv /\ [Next]_vars
        => (QueueTypeOK /\ SafeQueue /\ AloneInv)'
  BY StepQueue, StepAlone
<1>3. AloneInv => FaultsNeedClash
  BY DEF AloneInv, FaultsNeedClash
<1>4. Spec => [](QueueTypeOK /\ SafeQueue /\ AloneInv)
  BY <1>1, <1>2, InitQueue, PTL DEF Spec
<1> QED BY <1>3, <1>4, PTL

-----------------------------------------------------------------------------
(* The order of the requests, as long as no operations clash.              *)

\* The head already leads past the entry that is being deleted.
SkippedOver == pc[Thread] = "deleting" /\ Len(todo[Thread]) <= 2

\* What the queue holds, and whether the first of it is sent already.
InQueue == {e \in Linked : ~(SkippedOver /\ e = Entry)}
BeingTaken == pc[Thread] \in {"sent", "deleting"} /\ ~SkippedOver

\* The prev pointers are those of s backwards, but for the one of the head after
\* the first write of an append, and the one of the second entry after that of
\* a deletion.
Excused(s, i) ==
  \/ i = Len(s) /\ \E t \in Threads : pc[t] = "adding" /\ Len(todo[t]) < 4
  \/ i = 1 /\ pc[Thread] = "deleting" /\ Len(todo[Thread]) = 3

Backward(s) ==
  \A i \in 0 .. Len(s) : links[Spot(s, i + 1)]["prev"] = Spot(s, i) \/ Excused(s, i)

\* What was linked is what was sent and then what s holds, whose first request
\* is also the last that was sent while it is being taken out.
InOrder(s) ==
  /\ Len(linked) = Len(sent) + Len(s) - (IF BeingTaken THEN 1 ELSE 0)
  /\ Len(s) <= Len(linked)
  /\ \A i \in 1 .. Len(sent) : linked[i] = sent[i]
  /\ \A i \in 1 .. Len(s) : linked[Len(linked) - Len(s) + i] = request[s[i]]

QueueIs(s) ==
  /\ s \in Seq(InQueue)
  /\ \A i, j \in 1 .. Len(s) : i # j => s[i] # s[j]
  /\ Round(links, "next", s)
  /\ Backward(s)
  /\ BeingTaken => Len(s) > 0 /\ s[1] = Entry
  /\ InOrder(s)

OrderInv == ~clash /\ thread # "ended" => \E s \in Seq(Entries) : QueueIs(s)

\* What is known of the sequence, place by place.
LEMMA QueueFacts ==
  ASSUME QueueTypeOK, NEW s, QueueIs(s)
  PROVE  /\ s \in Seq(Entries) /\ Len(s) \in Nat
         /\ ListHead \notin InQueue /\ InQueue \subseteq Linked /\ InQueue \subseteq Entries
         /\ Spot(s, 0) = ListHead /\ Spot(s, Len(s) + 1) = ListHead
         /\ \A i \in 1 .. Len(s) : Spot(s, i) = s[i] /\ s[i] \in InQueue
         /\ \A i \in 0 .. Len(s) : /\ Spot(s, i) \in InQueue \cup {ListHead}
                                   /\ Spot(s, i + 1) \in InQueue \cup {ListHead}
                                   /\ links[Spot(s, i)]["next"] = Spot(s, i + 1)
<1>1. InQueue \subseteq Linked /\ InQueue \subseteq Entries /\ ListHead \notin InQueue
  BY WriteFacts DEF InQueue, Linked, Allocated
<1>2. /\ s \in Seq(InQueue) /\ Len(s) \in Nat
      /\ Spot(s, 0) = ListHead /\ Spot(s, Len(s) + 1) = ListHead
      /\ \A i \in 1 .. Len(s) : Spot(s, i) = s[i] /\ s[i] \in InQueue
      /\ \A i \in 0 .. Len(s) : Spot(s, i) \in InQueue \cup {ListHead}
  BY SpotFacts DEF QueueIs
<1>3. s \in Seq(Entries)
  <2>1. \A i \in 1 .. Len(s) : s[i] \in Entries
    BY <1>1, <1>2
  <2>2. s \in [1 .. Len(s) -> InQueue]
    BY <1>2, LenProperties
  <2>3. s \in [1 .. Len(s) -> Entries]
    BY <2>1, <2>2
  <2> QED BY <1>2, <2>3
<1>4. \A i \in 0 .. Len(s) : links[Spot(s, i)]["next"] = Spot(s, i + 1)
  <2>1. \A i \in 0 .. (Len(s) + 1) - 1 : links[Spot(s, i)]["next"] = Spot(s, i + 1)
    BY DEF QueueIs, Round, Leads
  <2> QED BY <1>2, <2>1
<1>5. \A i \in 0 .. Len(s) : Spot(s, i + 1) \in InQueue \cup {ListHead}
  <2> SUFFICES ASSUME NEW i \in 0 .. Len(s) PROVE Spot(s, i + 1) \in InQueue \cup {ListHead}
    OBVIOUS
  <2>1. i = Len(s) \/ i + 1 \in 0 .. Len(s)
    BY <1>2
  <2> QED BY <1>2, <2>1
<1> QED BY <1>1, <1>2, <1>3, <1>4, <1>5

\* The queue is what it was in steps that move none of its next pointers; of
\* the prev pointers those that moved have to be looked at.
LEMMA QueueStays ==
  ASSUME QueueTypeOK, NEW s, QueueIs(s), InQueue' = InQueue,
         \A c \in InQueue \cup {ListHead} : links'[c]["next"] = links[c]["next"],
         \A c \in InQueue : request'[c] = request[c],
         UNCHANGED linked,
         BeingTaken => BeingTaken' /\ Entry' = Entry /\ UNCHANGED sent,
         BeingTaken' /\ ~BeingTaken =>
            Len(s) > 0 /\ s[1] = Entry' /\ sent' = Append(sent, request[s[1]]),
         ~BeingTaken' => UNCHANGED sent,
         Backward(s)'
  PROVE  QueueIs(s)'
<1>1. /\ Len(s) \in Nat /\ \A i \in 1 .. Len(s) : s[i] \in InQueue
      /\ \A i \in 0 .. Len(s) : Spot(s, i) \in InQueue \cup {ListHead}
      /\ \A i \in 0 .. Len(s) : links[Spot(s, i)]["next"] = Spot(s, i + 1)
  BY QueueFacts
<1>2. Round(links', "next", s)
  <2>1. (Len(s) + 1) - 1 = Len(s)
    <3>1. s \in Seq(Entries) /\ Len(s) \in Nat
      BY QueueFacts
    <3> QED BY <3>1
  <2> QED BY <1>1, <2>1 DEF Round, Leads
<1>3. InOrder(s)'
  <2>1. /\ sent \in Seq(1 .. MaxRequests) /\ linked \in Seq(1 .. MaxRequests)
        /\ Len(sent) \in Nat /\ Len(linked) \in Nat
    BY LenProperties DEF QueueTypeOK
  <2>2. CASE ~(BeingTaken' /\ ~BeingTaken)
    <3>1. UNCHANGED sent /\ (BeingTaken' <=> BeingTaken)
      BY <2>2
    <3> QED BY <1>1, <2>1, <3>1 DEF InOrder, QueueIs
  <2>3. CASE BeingTaken' /\ ~BeingTaken
    <3>1. /\ BeingTaken' /\ ~BeingTaken /\ Len(s) > 0
          /\ sent' = Append(sent, request[s[1]])
      BY <2>3
    <3>2. /\ Len(sent') = Len(sent) + 1 /\ sent'[Len(sent) + 1] = request[s[1]]
          /\ \A i \in 1 .. Len(sent) : sent'[i] = sent[i]
      BY <2>1, <3>1
    <3>3. /\ Len(linked) = Len(sent) + Len(s)
          /\ Len(s) <= Len(linked)
          /\ \A i \in 1 .. Len(sent) : linked[i] = sent[i]
          /\ \A i \in 1 .. Len(s) : linked[Len(linked) - Len(s) + i] = request[s[i]]
      BY <1>1, <2>1, <3>1 DEF InOrder, QueueIs
    <3>4. linked[Len(sent) + 1] = request[s[1]]
      <4>1. 1 \in 1 .. Len(s) /\ Len(linked) - Len(s) + 1 = Len(sent) + 1
        BY <1>1, <2>1, <3>1, <3>3
      <4> QED BY <3>3, <4>1
    <3>5. ASSUME NEW i \in 1 .. Len(sent') PROVE linked'[i] = sent'[i]
      <4>1. i \in 1 .. Len(sent) \/ i = Len(sent) + 1
        BY <2>1, <3>2
      <4> QED BY <3>2, <3>3, <3>4, <4>1
    <3>6. \A i \in 1 .. Len(s) : linked'[Len(linked') - Len(s) + i] = request'[s[i]]
      BY <1>1, <3>3
    <3>7. Len(linked') = Len(sent') + Len(s) - 1
      BY <1>1, <2>1, <3>2, <3>3
    <3> QED BY <3>1, <3>3, <3>5, <3>6, <3>7 DEF InOrder
  <2> QED BY <2>2, <2>3
<1> QED BY <1>2, <1>3 DEF QueueIs

\* What was excused stays so, and the prev pointers of the queue do not move.
LEMMA BackwardStays ==
  ASSUME QueueTypeOK, NEW s, QueueIs(s),
         \A c \in InQueue \cup {ListHead} : links'[c]["prev"] = links[c]["prev"],
         \A i : Excused(s, i) => Excused(s, i)'
  PROVE  Backward(s)'
<1>1. \A i \in 0 .. Len(s) : Spot(s, i + 1) \in InQueue \cup {ListHead}
  BY QueueFacts
<1>2. \A i \in 0 .. Len(s) : links[Spot(s, i + 1)]["prev"] = Spot(s, i) \/ Excused(s, i)
  BY DEF QueueIs, Backward
<1> QED BY <1>1, <1>2 DEF Backward

\* The new request is in memory that the queue has nothing of.
LEMMA OrderMakeRequest ==
  ASSUME QueueTypeOK, QueueInv, NEW s, QueueIs(s), NEW t \in Threads, MakeRequest(t)
  PROVE  QueueIs(s)'
<1>1. PICK e \in Entries \ Allocated :
        /\ request' = [request EXCEPT ![e] = made + 1]
        /\ links' = [links EXCEPT ![e] = [f \in Fields |-> NULL]]
        /\ entry' = [entry EXCEPT ![t] = e]
        /\ pc[t] = "idle" /\ made' = made + 1
        /\ pc' = [pc EXCEPT ![t] = "append"] /\ UNCHANGED <<todo, linked, sent>>
  BY DEF MakeRequest
<1>2. /\ \A c \in Cells \ {e} : links'[c] = links[c]
      /\ \A c \in Entries \ {e} : request'[c] = request[c]
  BY <1>1, WriteFacts DEF QueueTypeOK, Links
<1>3. /\ \A u \in Threads \ {t} : pc'[u] = pc[u] /\ entry'[u] = entry[u]
      /\ pc'[t] = "append" /\ entry'[t] = e /\ Thread \in Threads
  BY <1>1 DEF QueueTypeOK, Threads
<1>4. Allocated' = Allocated \cup {e}
  <2>1. made + 1 # NoRequest
    BY DEF QueueTypeOK, NoRequest
  <2> QED BY <1>1, <2>1 DEF QueueTypeOK, Allocated
<1>5. Linked' = Linked
  BY <1>1, <1>3, <1>4 DEF Linked, Adding, QueueInv, ThreadsInv
<1>6. /\ SkippedOver' <=> SkippedOver
      /\ BeingTaken' <=> BeingTaken
      /\ SkippedOver \/ BeingTaken => Entry' = Entry
  BY <1>1, <1>3 DEF SkippedOver, BeingTaken, Entry
<1>7. InQueue' = InQueue
  BY <1>5, <1>6 DEF InQueue
<1>8. \A c \in InQueue : c \in Entries \ {e}
  BY <1>1 DEF InQueue, Linked, Allocated
<1>9. \A c \in InQueue \cup {ListHead} : links'[c] = links[c]
  BY <1>1, <1>2, <1>8, WriteFacts
<1>10. \A i : Excused(s, i) => Excused(s, i)'
  BY <1>1, <1>3 DEF Excused
<1>11. Backward(s)'
  BY <1>9, <1>10, BackwardStays
<1>12. UNCHANGED <<linked, sent>>
  BY <1>1
<1> QED BY <1>2, <1>6, <1>7, <1>8, <1>9, <1>11, <1>12, QueueStays

\* list_add_tail() and list_del() begin: they read.
LEMMA OrderRead ==
  ASSUME QueueTypeOK, QueueInv, NEW s, QueueIs(s), NEW t \in Threads,
         ReadTail(t) \/ (ReadNeighbours /\ t = Thread)
  PROVE  QueueIs(s)'
<1>1. /\ UNCHANGED <<links, request, entry, linked, sent>> /\ Thread \in Threads
      /\ \/ /\ pc[t] = "append" /\ pc' = [pc EXCEPT ![t] = "adding"]
            /\ todo' = [todo EXCEPT ![t] = ListAddTail(links, entry[t])]
         \/ /\ pc[t] = "sent" /\ pc' = [pc EXCEPT ![t] = "deleting"] /\ t = Thread
            /\ todo' = [todo EXCEPT ![t] = ListDel(links, entry[t])]
  BY DEF ReadTail, ReadNeighbours, Threads
<1>2. /\ \A u \in Threads \ {t} : pc'[u] = pc[u] /\ todo'[u] = todo[u]
      /\ \/ pc[t] = "append" /\ pc'[t] = "adding"
         \/ pc[t] = "sent" /\ pc'[t] = "deleting" /\ t = Thread
      /\ Len(todo'[t]) = 4 /\ ~(Len(todo'[t]) <= 2)
  <2>1. /\ \A u \in Threads \ {t} : pc'[u] = pc[u] /\ todo'[u] = todo[u]
        /\ \/ pc[t] = "append" /\ pc'[t] = "adding"
           \/ pc[t] = "sent" /\ pc'[t] = "deleting" /\ t = Thread
        /\ \/ todo'[t] = ListAddTail(links, entry[t])
           \/ todo'[t] = ListDel(links, entry[t])
    BY <1>1 DEF QueueTypeOK, QueueInv, ThreadsInv
  <2>2. CASE todo'[t] = ListAddTail(links, entry[t])
    BY <2>1, <2>2 DEF ListAddTail, ListAdd
  <2>3. CASE todo'[t] = ListDel(links, entry[t])
    BY <2>1, <2>3 DEF ListDel
  <2> QED BY <2>1, <2>2, <2>3
<1>3. Linked' = Linked /\ Entry' = Entry
  BY <1>1, <1>2 DEF Linked, Allocated, Adding, Entry
<1>4. /\ SkippedOver' <=> SkippedOver
      /\ BeingTaken' <=> BeingTaken
  BY <1>1, <1>2 DEF SkippedOver, BeingTaken
<1>5. InQueue' = InQueue
  BY <1>3, <1>4 DEF InQueue
<1>6. \A i : Excused(s, i) => Excused(s, i)'
  BY <1>1, <1>2 DEF Excused
<1>7. Backward(s)'
  BY <1>1, <1>6, BackwardStays
<1> QED BY <1>1, <1>3, <1>4, <1>5, <1>7, QueueStays

\* What is sent is the first request of the sequence.
LEMMA OrderSendFirst ==
  ASSUME QueueTypeOK, QueueInv, NEW s, QueueIs(s), SendFirst
  PROVE  QueueIs(s)'
<1> DEFINE first == links[ListHead]["next"]
<1>1. /\ UNCHANGED <<links, request, todo, linked>> /\ pc[Thread] = "idle"
      /\ Thread \in Threads /\ first # ListHead
      /\ first \in Allocated => /\ sent' = Append(sent, request[first])
                                /\ entry' = [entry EXCEPT ![Thread] = first]
                                /\ pc' = [pc EXCEPT ![Thread] = "sent"]
  BY DEF SendFirst, SomethingToSend, ListEmpty, Threads
<1>2. first = Spot(s, 1) /\ first \in InQueue /\ Len(s) \in Nat
  <2>1. 0 \in 0 .. Len(s) /\ Len(s) \in Nat
    BY QueueFacts
  <2> QED BY <1>1, <2>1, QueueFacts
<1>3. Len(s) > 0 /\ first = s[1]
  <2>1. 1 \in 1 .. Len(s)
    BY <1>1, <1>2 DEF Spot
  <2> QED BY <1>2, <2>1 DEF Spot
<1>4. first \in Allocated
  BY <1>2 DEF InQueue, Linked
<1> HIDE DEF first
<1>5. /\ \A u \in Threads \ {Thread} : pc'[u] = pc[u] /\ entry'[u] = entry[u]
      /\ pc'[Thread] = "sent" /\ entry'[Thread] = first
  BY <1>1, <1>4 DEF QueueTypeOK
<1>6. Linked' = Linked /\ Entry' = first
  BY <1>1, <1>5 DEF Linked, Allocated, Adding, Entry
<1>7. ~SkippedOver /\ ~SkippedOver' /\ ~BeingTaken /\ BeingTaken'
  BY <1>1, <1>5 DEF SkippedOver, BeingTaken
<1>8. InQueue' = InQueue
  BY <1>6, <1>7 DEF InQueue
<1>9. \A i : Excused(s, i) => Excused(s, i)'
  BY <1>1, <1>5 DEF Excused
<1>10. Backward(s)'
  BY <1>1, <1>9, BackwardStays
<1>11. sent' = Append(sent, request[s[1]])
  BY <1>1, <1>3, <1>4
<1> QED BY <1>1, <1>3, <1>6, <1>7, <1>8, <1>10, <1>11, QueueStays

\* The entry that is freed left the sequence before.
LEMMA OrderFreeSent ==
  ASSUME QueueTypeOK, QueueInv, NEW s, QueueIs(s), FreeSent
  PROVE  QueueIs(s)'
<1>1. /\ UNCHANGED <<links, todo, linked, sent>> /\ Thread \in Threads
      /\ pc[Thread] = "deleting" /\ todo[Thread] = <<>>
      /\ request' = [request EXCEPT ![Entry] = NoRequest]
      /\ pc' = [pc EXCEPT ![Thread] = "idle"]
      /\ entry' = [entry EXCEPT ![Thread] = NULL]
  BY DEF FreeSent, Entry, Threads
<1>2. /\ \A u \in Threads \ {Thread} : pc'[u] = pc[u] /\ entry'[u] = entry[u]
      /\ pc'[Thread] = "idle"
      /\ \A c \in Entries \ {Entry} : request'[c] = request[c]
  BY <1>1 DEF QueueTypeOK
<1>3. Linked' = Linked \ {Entry}
  <2>1. Allocated' = Allocated \ {Entry}
    BY <1>1 DEF Allocated, QueueTypeOK
  <2> QED BY <1>1, <1>2, <2>1 DEF Linked, Adding
<1>4. /\ SkippedOver /\ ~SkippedOver' /\ ~BeingTaken /\ ~BeingTaken'
  BY <1>1, <1>2 DEF SkippedOver, BeingTaken
<1>5. InQueue' = InQueue /\ \A c \in InQueue : c \in Entries \ {Entry}
  BY <1>3, <1>4 DEF InQueue, Linked, Allocated
<1>6. \A i : Excused(s, i) => Excused(s, i)'
  BY <1>1, <1>2 DEF Excused
<1>7. Backward(s)'
  BY <1>1, <1>6, BackwardStays
<1> QED BY <1>1, <1>2, <1>4, <1>5, <1>7, QueueStays

\* Before its last write an append moves only the last pointer back, which is
\* excused from then on.
LEMMA OrderAppending ==
  ASSUME QueueTypeOK, QueueInv, TailInv, ~fault, thread # "ended", NEW s, QueueIs(s),
         NEW t \in Threads, WriteNext(t), pc[t] = "adding"
  PROVE  QueueIs(s)'
<1> DEFINE e == entry[t]
           w == Head(todo[t])
<1>1. /\ Len(todo[t]) > 1 /\ WritePointer(t)
      /\ UNCHANGED <<pc, entry, request, linked, sent>>
      /\ todo'[t] = Tail(todo[t])
      /\ \A u \in Threads \ {t} : todo'[u] = todo[u]
  BY WriteEffect DEF WriteNext
<1>2. PICK tail \in Cells : AddingBehind(t, tail)
  BY DEF QueueInv, ThreadsInv
<1>3. /\ e \in Entries /\ e \notin Linked /\ Thread \in Threads
      /\ e \in Cells /\ e \in Pointers /\ e # ListHead /\ tail \in Pointers
      /\ ListHead \in Cells
  BY WriteFacts DEF QueueInv, ThreadsInv, QueueTypeOK, Linked, Adding, Threads
<1> HIDE DEF e
<1>4. /\ w \in {Write(ListHead, "prev", e), Write(e, "next", ListHead), Write(e, "prev", tail)}
      /\ Len(todo'[t]) < 4
      /\ Len(todo[t]) < 4 => w.at = e
  <2>1. CASE todo[t] = <<Write(ListHead, "prev", e), Write(e, "next", ListHead),
                         Write(e, "prev", tail), Write(tail, "next", e)>>
    BY <1>1, <2>1
  <2>2. CASE todo[t] = <<Write(e, "next", ListHead), Write(e, "prev", tail),
                         Write(tail, "next", e)>>
    BY <1>1, <1>3, <2>2, WriteFacts
  <2>3. CASE todo[t] = <<Write(e, "prev", tail), Write(tail, "next", e)>>
    BY <1>1, <1>3, <2>3, WriteFacts
  <2>4. CASE todo[t] = <<Write(tail, "next", e)>>
    <3>1. Len(todo[t]) = 1
      BY <2>4
    <3> QED BY <1>1, <3>1
  <2> QED BY <1>2, <2>1, <2>2, <2>3, <2>4 DEF AddingBehind, e
<1>5. ~fault'
  BY AloneAppending
<1>6. \A c \in Cells, f \in Fields :
        links'[c][f] = IF c = w.at /\ f = w.field THEN w.to ELSE links[c][f]
  BY <1>1, <1>5, WriteEffect
<1>7. /\ \A c \in Cells \ {e} : links'[c]["next"] = links[c]["next"]
      /\ \A c \in Cells \ {e, ListHead} : links'[c]["prev"] = links[c]["prev"]
      /\ Len(todo[t]) < 4 => links'[ListHead]["prev"] = links[ListHead]["prev"]
  BY <1>3, <1>4, <1>6, WriteFacts
<1>8. Linked' = Linked /\ Entry' = Entry
  BY <1>1 DEF Linked, Allocated, Adding, Entry
<1>9. /\ SkippedOver' <=> SkippedOver
      /\ BeingTaken' <=> BeingTaken
      /\ \A i : Excused(s, i) => Excused(s, i)'
      /\ Excused(s, Len(s))'
  BY <1>1, <1>3, <1>4 DEF SkippedOver, BeingTaken, Excused
<1>10. InQueue' = InQueue /\ \A c \in InQueue : c \in Cells \ {e, ListHead}
  BY <1>3, <1>8, <1>9, WriteFacts DEF InQueue, Linked, Allocated
<1>11. Backward(s)'
  <2> SUFFICES ASSUME NEW i \in 0 .. Len(s), i # Len(s)
               PROVE  links'[Spot(s, i + 1)]["prev"] = Spot(s, i) \/ Excused(s, i)'
    BY <1>9 DEF Backward
  <2>1. /\ Len(s) \in Nat /\ i + 1 \in 1 .. Len(s)
        /\ Spot(s, i + 1) \in InQueue
    <3>1. s \in Seq(Entries) /\ Len(s) \in Nat
      BY QueueFacts
    <3>2. i + 1 \in 1 .. Len(s)
      BY <3>1
    <3> QED BY <3>1, <3>2, QueueFacts
  <2>2. links[Spot(s, i + 1)]["prev"] = Spot(s, i) \/ Excused(s, i)
    BY DEF QueueIs, Backward
  <2> QED BY <1>7, <1>9, <1>10, <2>1, <2>2
<1>12. \A c \in InQueue \cup {ListHead} : links'[c]["next"] = links[c]["next"]
  BY <1>3, <1>7, <1>10
<1>13. UNCHANGED <<request, linked, sent>>
  BY <1>1
<1> QED BY <1>8, <1>9, <1>10, <1>11, <1>12, <1>13, QueueStays

\* The last write of an append puts its entry behind the sequence.
LEMMA OrderLinkEntry ==
  ASSUME QueueTypeOK, QueueInv, TailInv, ~fault, thread # "ended", NEW s, QueueIs(s),
         NEW t \in Threads, LinkEntry(t)
  PROVE  \E longer \in Seq(Entries) : QueueIs(longer)'
<1>0. PICK e : e = entry[t]
  OBVIOUS
<1>q. PICK q : q = Append(s, e)
  OBVIOUS
<1> DEFINE n == Len(s)
<1>1. /\ Len(todo[t]) = 1 /\ pc[t] = "adding" /\ WritePointer(t)
      /\ linked' = Append(linked, request[e])
      /\ pc' = [pc EXCEPT ![t] = "idle"]
      /\ entry' = [entry EXCEPT ![t] = NULL]
      /\ UNCHANGED <<request, sent>>
      /\ \A u \in Threads \ {t} : todo'[u] = todo[u]
  BY <1>0, WriteEffect DEF LinkEntry
<1>2. PICK tail \in Cells : AddingBehind(t, tail)
  BY <1>1 DEF QueueInv, ThreadsInv
<1>3. /\ e \in Entries /\ e \notin Linked /\ e \in Allocated /\ Thread \in Threads
      /\ e \in Cells /\ e \in Pointers /\ e # ListHead /\ ListHead \in Cells
  BY <1>0, <1>1, WriteFacts DEF QueueInv, ThreadsInv, QueueTypeOK, Linked, Adding, Threads
<1>4. /\ todo[t] = <<Write(tail, "next", e)>> /\ links[e]["prev"] = tail
      /\ Behind(t) = tail /\ Head(todo[t]) = Write(tail, "next", e)
  <2>1. todo[t] = <<Write(tail, "next", e)>>
    BY <1>0, <1>1, <1>2, OneLeft DEF AddingBehind
  <2>2. Len(todo[t]) <= 1
    BY <1>1
  <2> QED BY <1>0, <1>2, <1>3, <2>1, <2>2, WriteFacts DEF Behind, AddingBehind
<1>5. /\ IsTail(tail) /\ Last = e /\ links[e]["next"] = ListHead
  <2>1. Len(todo[t]) <= 2 /\ Len(todo[t]) # 4
    BY <1>1
  <2> QED BY <1>0, <1>1, <1>4, <2>1 DEF TailInv
<1>6. /\ \A c \in Cells : links'[c]["next"] = IF c = tail THEN e ELSE links[c]["next"]
      /\ \A c \in Cells : links'[c]["prev"] = links[c]["prev"]
  <2>1. ~fault'
    BY AloneLinkEntry
  <2>2. \A c \in Cells, f \in Fields :
          links'[c][f] = IF c = Head(todo[t]).at /\ f = Head(todo[t]).field
                         THEN Head(todo[t]).to ELSE links[c][f]
    BY <1>1, <2>1, WriteEffect
  <2> QED BY <1>3, <1>4, <2>2, WriteFacts
<1>7. /\ \A u \in Threads \ {t} : pc'[u] = pc[u] /\ entry'[u] = entry[u]
      /\ pc'[t] = "idle" /\ entry'[t] = NULL
  BY <1>1 DEF QueueTypeOK
<1>8. Linked' = Linked \cup {e}
  <2>1. Allocated' = Allocated
    BY <1>1 DEF Allocated
  <2>2. \A u \in Threads \ {t} : entry[u] # e
    BY <1>0, <1>3, WriteFacts DEF QueueInv, ThreadsInv
  <2>3. {entry[u] : u \in {v \in Threads : Adding(v)}}
          = {entry'[u] : u \in {v \in Threads : Adding(v)'}} \cup {e}
    BY <1>0, <1>1, <1>7 DEF Adding
  <2>4. e \notin {entry'[u] : u \in {v \in Threads : Adding(v)'}}
    BY <1>3, <1>7, <2>2 DEF Adding
  <2> QED BY <1>3, <2>1, <2>3, <2>4 DEF Linked
<1>9. /\ SkippedOver' <=> SkippedOver
      /\ BeingTaken' <=> BeingTaken
      /\ SkippedOver \/ BeingTaken => Entry' = Entry /\ Entry \in Linked
  BY <1>1, <1>3, <1>7 DEF SkippedOver, BeingTaken, Entry, QueueInv, ThreadsInv
<1>10. InQueue' = InQueue \cup {e}
  BY <1>3, <1>8, <1>9 DEF InQueue
<1>11. /\ n \in Nat /\ s \in Seq(Entries) /\ Spot(s, 0) = ListHead /\ Spot(s, n + 1) = ListHead
       /\ \A i \in 1 .. n : Spot(s, i) = s[i] /\ s[i] \in InQueue /\ s[i] # ListHead
       /\ \A i \in 0 .. n : /\ Spot(s, i) \in InQueue \cup {ListHead}
                            /\ links[Spot(s, i)]["next"] = Spot(s, i + 1)
                            /\ Spot(s, i) \in Cells
       /\ InQueue \subseteq Linked
  BY QueueFacts, WriteFacts
<1>12. Spot(s, n) = tail
  <2>1. links[Spot(s, n)]["next"] = ListHead /\ Spot(s, n) \in Linked \cup {ListHead}
    <3>1. n \in 0 .. n
      BY <1>11
    <3> QED BY <1>11, <3>1
  <2> QED BY <1>1, <1>5, <2>1, NobodyLeaves DEF IsTail
<1>13. \A i \in 0 .. n - 1 : Spot(s, i) # tail
  <2> SUFFICES ASSUME NEW i \in 0 .. n - 1, Spot(s, i) = tail PROVE FALSE
    OBVIOUS
  <2>1. i \in 0 .. n /\ n \in 0 .. n /\ i + 1 \in 1 .. n
    BY <1>11
  <2>2. links[tail]["next"] = Spot(s, n + 1)
    BY <1>11, <1>12, <2>1
  <2>3. links[tail]["next"] = Spot(s, i + 1)
    BY <1>11, <2>1
  <2> QED BY <1>11, <2>1, <2>2, <2>3
<1>14. /\ q \in Seq(Entries) /\ Len(q) = n + 1 /\ q[n + 1] = e
       /\ \A i \in 1 .. n : q[i] = s[i]
  BY <1>q, <1>3, <1>11, AppendProperties
<1>15. q \in Seq(InQueue')
  <2>1. s \in Seq(InQueue') /\ e \in InQueue'
    <3>1. s \in Seq(InQueue)
      BY DEF QueueIs
    <3>2. s \in [1 .. n -> InQueue]
      BY <3>1, LenProperties
    <3>3. s \in [1 .. n -> InQueue']
      BY <1>10, <3>2
    <3> QED BY <1>10, <1>11, <3>3
  <2> QED BY <1>q, <2>1, AppendProperties
<1>16. Round(links', "next", q)
  <2>1. links'[e]["next"] = ListHead
    BY <1>3, <1>5, <1>6, WriteFacts DEF IsTail, Linked, Allocated
  <2>2. links'[Spot(s, n)]["next"] = e
    BY <1>6, <1>12
  <2>3. SameAt(links, links', "next", s, 0 .. n - 1)
    <3>1. \A i \in 0 .. n - 1 : i \in 0 .. n
      BY <1>11
    <3> QED BY <1>6, <1>11, <1>13, <3>1 DEF SameAt
  <2>4. Round(links, "next", s)
    BY DEF QueueIs
  <2> QED BY <1>3, <1>11, <2>1, <2>2, <2>3, <2>4, <1>q, RoundAppend
<1>17. \A i, j \in 1 .. n + 1 : i # j => q[i] # q[j]
  <2>1. \A i \in 1 .. n : q[i] # e
    BY <1>3, <1>11, <1>14
  <2>2. \A i, j \in 1 .. n : i # j => q[i] # q[j]
    BY <1>14 DEF QueueIs
  <2>3. \A i \in 1 .. n + 1 : i \in 1 .. n \/ i = n + 1
    BY <1>11
  <2> QED BY <1>14, <2>1, <2>2, <2>3
<1>18. /\ \A i \in 0 .. n : Spot(q, i) = Spot(s, i)
       /\ Spot(q, n + 1) = e /\ Spot(q, n + 2) = ListHead
  <2>1. /\ n + 1 \in 1 .. n + 1 /\ n + 2 \notin 1 .. n + 1
        /\ \A i \in 0 .. n : i \in 1 .. n + 1 <=> i \in 1 .. n
    BY <1>11
  <2> QED BY <1>14, <2>1 DEF Spot
<1>19. Backward(q)'
  <2> SUFFICES ASSUME NEW i \in 0 .. n + 1
               PROVE  links'[Spot(q, i + 1)]["prev"] = Spot(q, i) \/ Excused(q, i)'
    BY <1>14 DEF Backward
  <2>1. CASE i = n + 1
    BY <1>3, <1>5, <1>6, <1>11, <1>18, <2>1 DEF Last
  <2>2. CASE i = n
    <3>1. n \in 0 .. n
      BY <1>11
    <3> QED BY <1>3, <1>4, <1>6, <1>12, <1>18, <2>2, <3>1
  <2>3. CASE i \notin {n, n + 1}
    <3>1. i \in 0 .. n /\ i + 1 \in 0 .. n /\ i # n
      BY <1>11, <2>3
    <3>2. links[Spot(s, i + 1)]["prev"] = Spot(s, i) \/ Excused(s, i)
      BY <3>1 DEF QueueIs, Backward
    <3>3. Excused(s, i) => Excused(q, i)'
      BY <1>1, <1>3, <1>7, <3>1 DEF Excused
    <3> QED BY <1>6, <1>11, <1>18, <3>1, <3>2, <3>3
  <2> QED BY <2>1, <2>2, <2>3
<1>20. BeingTaken' => Len(q) > 0 /\ q[1] = Entry'
  <2> SUFFICES ASSUME BeingTaken PROVE Len(q) > 0 /\ q[1] = Entry
    BY <1>9
  <2>1. n > 0 /\ s[1] = Entry
    BY DEF QueueIs
  <2>2. 1 \in 1 .. n
    BY <1>11, <2>1
  <2> QED BY <1>11, <1>14, <2>1, <2>2
<1>21. InOrder(q)'
  <2>1. /\ sent \in Seq(1 .. MaxRequests) /\ linked \in Seq(1 .. MaxRequests)
        /\ Len(sent) \in Nat /\ Len(linked) \in Nat
    BY LenProperties DEF QueueTypeOK
  <2>2. /\ Len(linked') = Len(linked) + 1 /\ linked'[Len(linked) + 1] = request[e]
        /\ \A i \in 1 .. Len(linked) : linked'[i] = linked[i]
    BY <1>1, <2>1
  <2>3. /\ Len(linked) = Len(sent) + n - (IF BeingTaken THEN 1 ELSE 0)
        /\ n <= Len(linked)
        /\ \A i \in 1 .. Len(sent) : linked[i] = sent[i]
        /\ \A i \in 1 .. n : linked[Len(linked) - n + i] = request[s[i]]
    BY DEF QueueIs, InOrder
  <2>4. Len(sent) <= Len(linked) /\ n <= Len(linked)
    <3>1. BeingTaken => n > 0
      BY DEF QueueIs
    <3> QED BY <1>11, <2>1, <2>3, <3>1
  <2>5. \A i \in 1 .. Len(sent) : linked'[i] = sent[i]
    BY <2>1, <2>2, <2>3, <2>4
  <2>6. ASSUME NEW i \in 1 .. n + 1
        PROVE  linked'[(Len(linked) + 1) - (n + 1) + i] = request[q[i]]
    <3>1. CASE i = n + 1
      <4>1. (Len(linked) + 1) - (n + 1) + i = Len(linked) + 1
        BY <1>11, <2>1, <3>1
      <4> QED BY <1>14, <2>2, <3>1, <4>1
    <3>2. CASE i # n + 1
      <4>1. /\ (Len(linked) + 1) - (n + 1) + i = Len(linked) - n + i
            /\ i \in 1 .. n /\ Len(linked) - n + i \in 1 .. Len(linked)
        BY <1>11, <2>1, <2>4, <3>2
      <4>2. linked'[Len(linked) - n + i] = linked[Len(linked) - n + i]
        BY <2>2, <4>1
      <4>3. linked[Len(linked) - n + i] = request[s[i]]
        BY <2>3, <4>1
      <4>4. q[i] = s[i]
        BY <1>14, <4>1
      <4> QED BY <4>1, <4>2, <4>3, <4>4
    <3> QED BY <3>1, <3>2
  <2>7. Len(linked') = Len(sent) + (n + 1) - (IF BeingTaken THEN 1 ELSE 0)
    BY <1>11, <2>1, <2>2, <2>3
  <2>8. n + 1 <= Len(linked')
    BY <1>11, <2>1, <2>2, <2>3
  <2>9. Len(linked') = Len(sent') + Len(q) - (IF BeingTaken' THEN 1 ELSE 0)
    BY <1>1, <1>9, <1>14, <2>7
  <2>10. \A i \in 1 .. Len(q) : linked'[Len(linked') - Len(q) + i] = request'[q[i]]
    BY <1>1, <1>14, <2>2, <2>6
  <2>11. Len(q) <= Len(linked') /\ \A i \in 1 .. Len(sent') : linked'[i] = sent'[i]
    BY <1>1, <1>14, <2>5, <2>8
  <2> QED BY <2>9, <2>10, <2>11 DEF InOrder
<1>22. QueueIs(q)'
  BY <1>14, <1>15, <1>16, <1>17, <1>19, <1>20, <1>21 DEF QueueIs
<1> QED BY <1>14, <1>22

\* When the only entry is taken out, the first write makes the head its own last.
LEMMA OnlyOneLeaves ==
  ASSUME QueueTypeOK, QueueInv, TailInv, pc[Thread] = "deleting", Len(todo[Thread]) = 3,
         Entry \in Linked, links[Entry]["next"] = ListHead
  PROVE  Last = ListHead
<1>1. \A u \in Threads : pc[u] = "adding" => IsTail(Behind(u)) /\ Behind(u) # Entry
  BY DEF TailInv, Clashing, Entry
<1>2. CASE \E u \in Threads : pc[u] = "adding"
  BY <1>1, <1>2 DEF IsTail, Leaving
<1>3. CASE \A u \in Threads : pc[u] # "adding"
  <2>1. IsTail(Last) /\ Last # Entry
    BY <1>3 DEF TailInv
  <2> QED BY <2>1 DEF IsTail, Leaving
<1> QED BY <1>2, <1>3

\* The writes of list_del(): the first one is excused, the second one takes the
\* first entry off the sequence, the others change nothing that is in the queue.
LEMMA OrderDeleting ==
  ASSUME QueueTypeOK, QueueInv, TailInv, ~fault, thread # "ended", NEW s, QueueIs(s),
         NEW t \in Threads, WriteNext(t), pc[t] = "deleting"
  PROVE  \E rest \in Seq(Entries) : QueueIs(rest)'
<1>1. /\ t = Thread /\ WritePointer(Thread) /\ pc[Thread] = "deleting"
      /\ UNCHANGED <<pc, entry, request, linked, sent>>
      /\ todo'[Thread] = Tail(todo[Thread])
      /\ \A u \in Threads \ {Thread} : todo'[u] = todo[u]
  BY WriteEffect DEF WriteNext, QueueInv, ThreadsInv
<1>2. PICK n \in Cells : DeletingBefore(n)
  BY <1>1 DEF QueueInv, FirstInv
<1>3. PICK e : e = Entry
  OBVIOUS
<1>4. /\ Entry' = e /\ Linked' = Linked
  BY <1>1, <1>3 DEF Entry, Linked, Allocated, Adding
<1>5. /\ e \in Linked /\ e \in Cells /\ e # ListHead /\ Thread \in Threads
      /\ e \in Pointers /\ n \in Pointers /\ n # e /\ ListHead \in Cells
  BY <1>1, <1>2, <1>3, WriteFacts
  DEF QueueInv, ThreadsInv, Entry, Linked, Allocated, DeletingBefore, Cells
<1>6. /\ todo[Thread] # <<>>
      /\ todo[Thread] \in {<<Write(n, "prev", ListHead), Write(ListHead, "next", n),
                             Write(e, "next", LIST_POISON), Write(e, "prev", LIST_POISON)>>,
                           <<Write(ListHead, "next", n), Write(e, "next", LIST_POISON),
                             Write(e, "prev", LIST_POISON)>>,
                           <<Write(e, "next", LIST_POISON), Write(e, "prev", LIST_POISON)>>,
                           <<Write(e, "prev", LIST_POISON)>>}
  BY <1>1, <1>2, <1>3 DEF DeletingBefore, WritePointer
<1>7. \A c \in Cells, f \in Fields :
        links'[c][f] = IF c = Head(todo[Thread]).at /\ f = Head(todo[Thread]).field
                       THEN Head(todo[Thread]).to ELSE links[c][f]
  <2>1. ~fault'
    BY AloneDeleting
  <2> QED BY <1>1, <2>1, WriteEffect
<1>8. /\ s \in Seq(Entries) /\ Len(s) \in Nat
      /\ Spot(s, 0) = ListHead /\ Spot(s, Len(s) + 1) = ListHead
      /\ \A i \in 1 .. Len(s) : Spot(s, i) = s[i] /\ s[i] \in InQueue /\ s[i] # ListHead
      /\ \A i \in 0 .. Len(s) : /\ Spot(s, i) \in InQueue \cup {ListHead}
                                /\ Spot(s, i + 1) \in InQueue \cup {ListHead}
                                /\ links[Spot(s, i)]["next"] = Spot(s, i + 1)
      /\ \A c \in InQueue \cup {ListHead} : c \in Cells
      /\ InQueue \subseteq Linked
  BY QueueFacts, WriteFacts DEF Cells
<1>9. \A i \in 0 .. Len(s) :
        links[Spot(s, i + 1)]["prev"] = Spot(s, i) \/ Excused(s, i)
  BY DEF QueueIs, Backward
<1>10. ASSUME Len(todo[Thread]) > 2
       PROVE  /\ BeingTaken /\ ~SkippedOver /\ InQueue = Linked
              /\ 1 \in 1 .. Len(s) /\ s[1] = e /\ Spot(s, 1) = e
              /\ links[e]["next"] = Spot(s, 2)
  <2>1. ~SkippedOver
    <3>1. Len(todo[Thread]) \in Nat
      BY DEF QueueTypeOK
    <3> QED BY <1>10, <3>1 DEF SkippedOver
  <2>2. BeingTaken /\ InQueue = Linked
    BY <1>1, <2>1 DEF BeingTaken, InQueue
  <2>3. Len(s) > 0 /\ s[1] = e
    BY <1>3, <2>2 DEF QueueIs
  <2>4. 1 \in 1 .. Len(s) /\ 1 \in 0 .. Len(s) /\ 1 + 1 = 2
    BY <1>8, <2>3
  <2>5. links[Spot(s, 1)]["next"] = Spot(s, 2)
    BY <1>8, <2>4
  <2> QED BY <1>8, <2>1, <2>2, <2>3, <2>4, <2>5
<1>11. ASSUME Len(todo[Thread]) <= 2
       PROVE  /\ SkippedOver /\ ~BeingTaken /\ e \notin InQueue
  BY <1>1, <1>3, <1>11 DEF SkippedOver, BeingTaken, InQueue
<1>12. CASE todo[Thread] = <<Write(n, "prev", ListHead), Write(ListHead, "next", n),
                             Write(e, "next", LIST_POISON), Write(e, "prev", LIST_POISON)>>
  <2>1. /\ Head(todo[Thread]) = Write(n, "prev", ListHead)
        /\ todo[Thread][1] = Write(n, "prev", ListHead)
        /\ Len(todo[Thread]) = 4 /\ Len(todo'[Thread]) = 3
    BY <1>1, <1>12
  <2>2. /\ \A c \in Cells : links'[c]["next"] = links[c]["next"]
        /\ \A c \in Cells \ {n} : links'[c]["prev"] = links[c]["prev"]
    BY <1>5, <1>7, <2>1, WriteFacts
  <2>3. n = links[e]["next"]
    BY <1>1, <1>3, <1>5, <2>1, WriteFacts DEF TailInv
  <2>4. n = Spot(s, 2)
    BY <1>10, <2>1, <2>3
  <2>5. /\ SkippedOver' <=> SkippedOver
        /\ BeingTaken' <=> BeingTaken
        /\ \A i : Excused(s, i) => Excused(s, i)'
        /\ Excused(s, 1)'
    <3>1. ~(Len(todo[Thread]) <= 2) /\ ~(Len(todo'[Thread]) <= 2) /\ Len(todo[Thread]) # 3
      BY <2>1
    <3>2. (SkippedOver' <=> SkippedOver) /\ (BeingTaken' <=> BeingTaken)
      BY <1>1, <3>1 DEF SkippedOver, BeingTaken
    <3>3. Excused(s, 1)'
      BY <1>1, <2>1 DEF Excused
    <3>4. \A i : Excused(s, i) => Excused(s, i)'
      BY <1>1, <1>5, <3>1 DEF Excused
    <3> QED BY <3>2, <3>3, <3>4
  <2>6. InQueue' = InQueue
    BY <1>3, <1>4, <2>5 DEF InQueue
  <2>7. ASSUME NEW i \in 0 .. Len(s), i # 1 PROVE Spot(s, i + 1) # n
    <3>1. CASE Len(s) = 1
      <4>1. n = ListHead /\ i = 0 /\ i + 1 = 1
        BY <1>8, <2>4, <2>7, <3>1
      <4> QED BY <1>5, <1>10, <2>1, <4>1
    <3>2. CASE Len(s) # 1
      <4>1. 2 \in 1 .. Len(s) /\ (i + 1 \in 1 .. Len(s) \/ i = Len(s))
        <5>1. PICK m \in Nat : m = Len(s)
          BY <1>8
        <5>2. 1 \in 1 .. m /\ m # 1 /\ i \in 0 .. m
          BY <1>10, <2>1, <3>2, <5>1
        <5>3. 2 \in 1 .. m /\ (i + 1 \in 1 .. m \/ i = m)
          BY <5>2
        <5> QED BY <5>1, <5>3
      <4>2. \A j, k \in 1 .. Len(s) : j # k => s[j] # s[k]
        BY DEF QueueIs
      <4>3. n = s[2] /\ n # ListHead
        BY <1>8, <2>4, <4>1
      <4>4. CASE i + 1 \in 1 .. Len(s)
        <5>1. i + 1 # 2
          BY <2>7
        <5> QED BY <1>8, <4>1, <4>2, <4>3, <4>4, <5>1
      <4>5. CASE i = Len(s)
        BY <1>8, <4>3, <4>5
      <4> QED BY <4>1, <4>4, <4>5
    <3> QED BY <3>1, <3>2
  <2>8. Backward(s)'
    <3> SUFFICES ASSUME NEW i \in 0 .. Len(s), i # 1
                 PROVE  links'[Spot(s, i + 1)]["prev"] = Spot(s, i) \/ Excused(s, i)'
      BY <2>5 DEF Backward
    <3>1. Spot(s, i + 1) \in Cells \ {n}
      BY <1>8, <2>7
    <3> QED BY <1>9, <2>2, <2>5, <3>1
  <2>9. \A c \in InQueue \cup {ListHead} : links'[c]["next"] = links[c]["next"]
    BY <1>8, <2>2
  <2>10. UNCHANGED <<request, linked, sent>>
    BY <1>1
  <2>11. QueueIs(s)'
    BY <1>3, <1>4, <2>5, <2>6, <2>8, <2>9, <2>10, QueueStays
  <2> QED BY <1>8, <2>11
<1>13. ASSUME Len(todo[Thread]) <= 2,
              todo[Thread] \in {<<Write(e, "next", LIST_POISON), Write(e, "prev", LIST_POISON)>>,
                               <<Write(e, "prev", LIST_POISON)>>}
       PROVE  QueueIs(s)'
  <2>1. Head(todo[Thread]).at = e /\ Len(todo'[Thread]) <= 2
    <3>1. CASE todo[Thread] = <<Write(e, "next", LIST_POISON), Write(e, "prev", LIST_POISON)>>
      BY <1>1, <1>5, <3>1, WriteFacts
    <3>2. CASE todo[Thread] = <<Write(e, "prev", LIST_POISON)>>
      BY <1>1, <1>5, <3>2, WriteFacts
    <3> QED BY <1>13, <3>1, <3>2
  <2>2. \A c \in InQueue \cup {ListHead} : c \in Cells \ {e}
    BY <1>5, <1>8, <1>11, <1>13
  <2>3. \A c \in InQueue \cup {ListHead} :
          links'[c]["next"] = links[c]["next"] /\ links'[c]["prev"] = links[c]["prev"]
    BY <1>7, <2>1, <2>2, WriteFacts
  <2>4. /\ SkippedOver' /\ SkippedOver /\ ~BeingTaken' /\ ~BeingTaken
    BY <1>1, <1>13, <2>1 DEF SkippedOver, BeingTaken
  <2>5. \A i : Excused(s, i) => Excused(s, i)'
    <3>1. Len(todo[Thread]) # 3
      <4>1. CASE todo[Thread] = <<Write(e, "next", LIST_POISON), Write(e, "prev", LIST_POISON)>>
        <5>1. Len(todo[Thread]) = 2
          BY <4>1
        <5> QED BY <5>1
      <4>2. CASE todo[Thread] = <<Write(e, "prev", LIST_POISON)>>
        <5>1. Len(todo[Thread]) = 1
          BY <4>2
        <5> QED BY <5>1
      <4> QED BY <1>13, <4>1, <4>2
    <3> QED BY <1>1, <1>5, <3>1 DEF Excused
  <2>6. InQueue' = InQueue
    BY <1>3, <1>4, <2>4 DEF InQueue
  <2>7. Backward(s)'
    BY <2>3, <2>5, BackwardStays
  <2>8. UNCHANGED <<request, linked, sent>>
    BY <1>1
  <2> QED BY <2>3, <2>4, <2>6, <2>7, <2>8, QueueStays
<1>14. CASE todo[Thread] = <<Write(ListHead, "next", n), Write(e, "next", LIST_POISON),
                             Write(e, "prev", LIST_POISON)>>
  <2>1. /\ Head(todo[Thread]) = Write(ListHead, "next", n)
        /\ todo[Thread][1] = Write(ListHead, "next", n)
        /\ Len(todo[Thread]) = 3 /\ Len(todo'[Thread]) = 2
    BY <1>1, <1>14
  <2>2. /\ \A c \in Cells : links'[c]["next"] = IF c = ListHead THEN n ELSE links[c]["next"]
        /\ \A c \in Cells : links'[c]["prev"] = links[c]["prev"]
    BY <1>5, <1>7, <2>1, WriteFacts
  <2>3. n = links[e]["next"]
    BY <1>1, <1>3, <1>5, <2>1, WriteFacts DEF TailInv
  <2>4. n = Spot(s, 2)
    BY <1>10, <2>1, <2>3
  <2>5. PICK q : q = Without(s, 1)
    OBVIOUS
  <2>6. /\ q \in Seq(Entries) /\ Len(q) = Len(s) - 1
        /\ \A i \in 1 .. Len(s) - 1 : q[i] = s[i + 1]
    <3>1. s \in Seq(Entries) /\ 1 \in 1 .. Len(s)
      BY <1>8, <1>10, <2>1
    <3>2. /\ q \in Seq(Entries) /\ Len(q) = Len(s) - 1
          /\ \A i \in 1 .. Len(s) - 1 : q[i] = IF i < 1 THEN s[i] ELSE s[i + 1]
      BY <2>5, <3>1, WithoutFacts
    <3>3. \A i \in 1 .. Len(s) - 1 : ~(i < 1)
      OBVIOUS
    <3> QED BY <3>2, <3>3
  <2>7. Round(links', "next", q)
    <3>1. links'[Spot(s, 1 - 1)]["next"] = Spot(s, 1 + 1)
      BY <1>5, <1>8, <2>2, <2>4
    <3>2. SameAt(links, links', "next", s, (0 .. Len(s)) \ {1 - 1, 1})
      <4>1. \A i \in (0 .. Len(s)) \ {1 - 1, 1} : i \in 1 .. Len(s)
        BY <1>8
      <4> QED BY <1>8, <2>2, <4>1 DEF SameAt
    <3>3. Round(links, "next", s)
      BY DEF QueueIs
    <3> QED BY <1>8, <1>10, <2>1, <2>5, <3>1, <3>2, <3>3, RoundWithout
  <2>8. /\ SkippedOver' /\ ~BeingTaken' /\ BeingTaken /\ InQueue = Linked
    <3>1. Len(todo[Thread]) > 2 /\ Len(todo'[Thread]) <= 2
      BY <2>1
    <3>2. SkippedOver' /\ ~BeingTaken'
      BY <1>1, <3>1 DEF SkippedOver, BeingTaken
    <3> QED BY <1>10, <3>1, <3>2
  <2>9. InQueue' = InQueue \ {e}
    BY <1>3, <1>4, <2>8 DEF InQueue
  <2>10. \A i, j \in 1 .. Len(s) : i # j => s[i] # s[j]
    BY DEF QueueIs
  <2>11. \A i \in 1 .. Len(s) - 1 : i + 1 \in 1 .. Len(s) /\ i + 1 # 1
    BY <1>8
  <2>12. q \in Seq(InQueue')
    <3>1. \A i \in 1 .. Len(s) - 1 : q[i] \in InQueue'
      BY <1>8, <1>10, <2>1, <2>6, <2>9, <2>10, <2>11, SMTT(30)
    <3>2. q \in [1 .. Len(s) - 1 -> Entries]
      BY <2>6, LenProperties
    <3>3. q \in [1 .. Len(s) - 1 -> InQueue']
      BY <3>1, <3>2
    <3>4. Len(s) - 1 \in Nat
      BY <1>8, <1>10, <2>1
    <3> QED BY <3>3, <3>4
  <2>13. \A i, j \in 1 .. Len(q) : i # j => q[i] # q[j]
    <3> SUFFICES ASSUME NEW i \in 1 .. Len(s) - 1, NEW j \in 1 .. Len(s) - 1, i # j
                 PROVE  s[i + 1] # s[j + 1]
      BY <2>6
    <3>1. i + 1 # j + 1
      OBVIOUS
    <3> QED BY <2>10, <2>11, <3>1
  <2>14. \A i \in 1 .. Len(s) : Spot(q, i) = Spot(s, i + 1)
    <3> SUFFICES ASSUME NEW i \in 1 .. Len(s) PROVE Spot(q, i) = Spot(s, i + 1)
      OBVIOUS
    <3>1. i \in 1 .. Len(s) - 1 <=> i + 1 \in 1 .. Len(s)
      BY <1>8
    <3> QED BY <2>6, <3>1 DEF Spot
  <2>15. Backward(q)'
    <3> SUFFICES ASSUME NEW i \in 0 .. Len(s) - 1
                 PROVE  links'[Spot(q, i + 1)]["prev"] = Spot(q, i) \/ Excused(q, i)'
      BY <2>6 DEF Backward
    <3>1. i \in 0 .. Len(s) /\ i + 1 \in 1 .. Len(s) /\ (i + 1) + 1 = i + 2
      BY <1>8
    <3>2. Spot(q, i + 1) = Spot(s, i + 2) /\ Spot(s, i + 2) \in Cells
      <4>1. i + 1 \in 0 .. Len(s)
        BY <3>1
      <4>2. Spot(s, (i + 1) + 1) \in Cells
        BY <1>8, <4>1
      <4> QED BY <2>14, <3>1, <4>2
    <3>3. CASE i = 0
      <4>1. Spot(q, i) = ListHead
        BY <3>3 DEF Spot
      <4>2. links[n]["prev"] = ListHead
        <5>1. CASE n \in Entries
          BY <1>2, <2>1, <5>1 DEF DeletingBefore
        <5>2. CASE n \notin Entries
          <6>1. n = ListHead
            BY <1>2, <5>2 DEF Cells
          <6>2. Last = ListHead
            BY <1>1, <1>3, <1>5, <2>1, <2>3, <6>1, OnlyOneLeaves
          <6> QED BY <6>1, <6>2 DEF Last
        <5> QED BY <5>1, <5>2
      <4> QED BY <1>5, <2>2, <2>4, <3>2, <3>3, <4>1, <4>2
    <3>4. CASE i # 0
      <4>1. i \in 1 .. Len(s) /\ i + 1 \in 0 .. Len(s) /\ i + 1 # 1
        BY <1>8, <3>4
      <4>2. Spot(q, i) = Spot(s, i + 1)
        BY <2>14, <4>1
      <4>3. links[Spot(s, i + 2)]["prev"] = Spot(s, i + 1) \/ Excused(s, i + 1)
        BY <1>9, <3>1, <4>1
      <4>4. Excused(s, i + 1) => Excused(q, i)'
        <5>1. i + 1 = Len(s) <=> i = Len(q)
          BY <1>8, <2>6
        <5>2. \A u \in Threads : pc[u] = "adding" => u # Thread
          BY <1>1
        <5> QED BY <1>1, <1>5, <4>1, <5>1, <5>2 DEF Excused
      <4> QED BY <2>2, <3>2, <4>2, <4>3, <4>4
    <3> QED BY <3>3, <3>4
  <2>16. InOrder(q)'
    <3>1. /\ Len(sent) \in Nat /\ Len(linked) \in Nat
      BY LenProperties DEF QueueTypeOK
    <3>2. /\ Len(linked) = Len(sent) + Len(s) - 1 /\ Len(s) <= Len(linked)
          /\ \A i \in 1 .. Len(sent) : linked[i] = sent[i]
          /\ \A i \in 1 .. Len(s) : linked[Len(linked) - Len(s) + i] = request[s[i]]
      BY <2>8 DEF QueueIs, InOrder
    <3>3. ASSUME NEW i \in 1 .. Len(q)
          PROVE  linked[Len(linked) - Len(q) + i] = request[q[i]]
      <4>1. /\ i \in 1 .. Len(s) - 1
            /\ Len(linked) - Len(q) + i = Len(linked) - Len(s) + (i + 1)
        BY <1>8, <2>6, <3>1
      <4> QED BY <2>6, <2>11, <3>2, <4>1
    <3>4. Len(linked) = Len(sent) + Len(q) /\ Len(q) <= Len(linked)
      BY <1>8, <2>6, <3>1, <3>2
    <3>5. Len(linked) = Len(sent) + Len(q) - (IF BeingTaken' THEN 1 ELSE 0)
      BY <1>8, <2>6, <2>8, <3>1, <3>4
    <3> QED BY <1>1, <3>2, <3>3, <3>4, <3>5 DEF InOrder
  <2>17. QueueIs(q)'
    BY <2>7, <2>8, <2>12, <2>13, <2>15, <2>16 DEF QueueIs
  <2> QED BY <2>6, <2>17
<1>15. CASE todo[Thread] \in {<<Write(e, "next", LIST_POISON), Write(e, "prev", LIST_POISON)>>,
                             <<Write(e, "prev", LIST_POISON)>>}
  <2>1. CASE todo[Thread] = <<Write(e, "next", LIST_POISON), Write(e, "prev", LIST_POISON)>>
    <3>1. Len(todo[Thread]) <= 2
      BY <2>1
    <3> QED BY <1>8, <1>13, <1>15, <3>1
  <2>2. CASE todo[Thread] = <<Write(e, "prev", LIST_POISON)>>
    <3>1. Len(todo[Thread]) <= 2
      BY <2>2
    <3> QED BY <1>8, <1>13, <1>15, <3>1
  <2> QED BY <1>15, <2>1, <2>2
<1> QED BY <1>6, <1>12, <1>14, <1>15

\* Every step keeps the requests in order, until operations clash.
LEMMA StepOrder ==
  QueueTypeOK /\ SafeQueue /\ AloneInv /\ OrderInv /\ [Next]_vars => OrderInv'
<1> SUFFICES ASSUME QueueTypeOK, SafeQueue, AloneInv, OrderInv, [Next]_vars, ~clash',
                    thread' # "ended"
             PROVE  \E q \in Seq(Entries) : QueueIs(q)'
  BY DEF OrderInv
<1>0. thread # "ended"
  BY EndIsFinal
<1>1. CASE Elsewhere
  <2>1. UNCHANGED <<links, request, pc, entry, todo, linked, sent, clash>>
    BY <1>1, ElsewhereFacts
  <2>2. PICK s \in Seq(Entries) : QueueIs(s)
    BY <1>0, <2>1 DEF OrderInv
  <2>3. /\ InQueue' = InQueue /\ Entry' = Entry
        /\ BeingTaken' <=> BeingTaken
        /\ \A i : Excused(s, i) => Excused(s, i)'
    BY <2>1 DEF InQueue, Linked, Allocated, Adding, SkippedOver, Entry, BeingTaken, Excused
  <2>4. Backward(s)'
    BY <2>1, <2>2, <2>3, BackwardStays
  <2>5. QueueIs(s)'
    BY <2>1, <2>2, <2>3, <2>4, QueueStays
  <2> QED BY <2>2, <2>5
<1>2. CASE Next
  <2>1. /\ clash' = clash \/ clash' = (clash \/ Clashing')
    BY <1>2, ElsewhereFacts
    DEF Next, Consume, SendFirst, ReadNeighbours, FreeSent, MakeRequest, Produce,
        ReadTail, WriteNext, LinkEntry, WritePointer, NoteClash, Elsewhere
  <2>2. QueueTypeOK /\ QueueInv /\ TailInv /\ ~fault
    BY <1>0, <1>2, <2>1 DEF SafeQueue, AloneInv, Next
  <2>3. PICK s \in Seq(Entries) : QueueIs(s)
    BY <1>0, <2>1 DEF OrderInv
  <2>4. CASE SendFirst
    BY <2>2, <2>3, <2>4, OrderSendFirst
  <2>5. CASE ReadNeighbours
    <3>1. Thread \in Threads
      BY DEF Threads
    <3> QED BY <2>2, <2>3, <2>5, <3>1, OrderRead
  <2>6. CASE FreeSent
    BY <2>2, <2>3, <2>6, OrderFreeSent
  <2>7. ASSUME NEW t \in Threads, MakeRequest(t) \/ Produce(t)
        PROVE  \E q \in Seq(Entries) : QueueIs(q)'
    <3>1. CASE MakeRequest(t)
      BY <2>2, <2>3, <3>1, OrderMakeRequest
    <3>2. CASE ReadTail(t)
      BY <2>2, <2>3, <3>2, OrderRead
    <3>3. CASE WriteNext(t)
      <4>1. todo[t] # <<>>
        BY <3>3 DEF WriteNext, WritePointer
      <4>2. pc[t] \in {"adding", "deleting"}
        BY <2>2, <4>1 DEF QueueInv, ThreadsInv, QueueTypeOK
      <4> QED BY <1>0, <2>2, <2>3, <3>3, <4>2, OrderAppending, OrderDeleting
    <3>4. CASE LinkEntry(t)
      BY <1>0, <2>2, <2>3, <3>4, OrderLinkEntry
    <3> QED BY <2>7, <3>1, <3>2, <3>3, <3>4 DEF Produce
  <2> QED BY <1>1, <1>2, <2>4, <2>5, <2>6, <2>7 DEF Next, Consume, Elsewhere
<1> QED BY <1>1, <1>2 DEF Elsewhere

\* When no operation is going on, a walk meets the sequence.
LEMMA QuietQueue ==
  ASSUME QueueTypeOK, NEW s, QueueIs(s), Quiet
  PROVE  linked = sent \o Queued /\ Holds(links, Walk(links, "next"))
<1>1. /\ s \in Seq(Entries) /\ Len(s) \in Nat /\ s \in Seq(InQueue)
      /\ InQueue \in SUBSET Entries
      /\ \A i \in 0 .. Len(s) : links[Spot(s, i)]["next"] = Spot(s, i + 1)
  BY QueueFacts DEF QueueIs
<1>2. Walk(links, "next") = s
  <2>1. Len(s) <= Cardinality(Entries)
    BY <1>1, AtMostEntries DEF QueueIs
  <2> QED BY <1>1, <2>1, WalkIsRound DEF QueueIs
<1> HIDE DEF Walk
<1>3. ~BeingTaken /\ \A i : ~Excused(s, i)
  BY DEF Quiet, BeingTaken, Excused, Threads
<1>4. Holds(links, s)
  <2>1. \A i \in 0 .. Len(s) : links[Spot(s, i + 1)]["prev"] = Spot(s, i)
    BY <1>3 DEF QueueIs, Backward
  <2> QED BY <1>1, <2>1 DEF Holds, Spot
<1>5. linked = sent \o [i \in 1 .. Len(s) |-> request[s[i]]]
  <2> DEFINE held == [i \in 1 .. Len(s) |-> request[s[i]]]
  <2> DEFINE Numbers == 0 .. MaxRequests
  <2>1. /\ sent \in Seq(Numbers) /\ linked \in Seq(Numbers)
        /\ Len(sent) \in Nat /\ Len(linked) \in Nat
    <3>1. 1 .. MaxRequests \subseteq Numbers
      BY QueueAssumption
    <3>2. sent \in Seq(1 .. MaxRequests) /\ linked \in Seq(1 .. MaxRequests)
      BY DEF QueueTypeOK
    <3>3. /\ Len(sent) \in Nat /\ sent \in [1 .. Len(sent) -> 1 .. MaxRequests]
          /\ Len(linked) \in Nat /\ linked \in [1 .. Len(linked) -> 1 .. MaxRequests]
      BY <3>2, LenProperties
    <3> HIDE DEF Numbers
    <3>4. /\ sent \in [1 .. Len(sent) -> Numbers]
          /\ linked \in [1 .. Len(linked) -> Numbers]
      BY <3>1, <3>3
    <3> QED BY <3>3, <3>4
  <2>2. /\ held \in Seq(Numbers) /\ Len(held) = Len(s)
        /\ \A i \in 1 .. Len(s) : held[i] = request[s[i]]
    <3>1. \A i \in 1 .. Len(s) : request[s[i]] \in 0 .. MaxRequests
      BY <1>1 DEF QueueTypeOK
    <3> QED BY <1>1, <3>1
  <2> HIDE DEF held, Numbers
  <2>3. /\ sent \o held \in Seq(Numbers) /\ Len(sent \o held) = Len(sent) + Len(s)
        /\ \A i \in 1 .. Len(sent) + Len(s) :
             (sent \o held)[i] = IF i <= Len(sent) THEN sent[i] ELSE held[i - Len(sent)]
    <3>1. /\ sent \o held \in Seq(Numbers) /\ Len(sent \o held) = Len(sent) + Len(held)
          /\ \A i \in 1 .. Len(sent) + Len(held) :
               (sent \o held)[i] = IF i <= Len(sent) THEN sent[i] ELSE held[i - Len(sent)]
      BY <2>1, <2>2, ConcatProperties
    <3> QED BY <2>2, <3>1
  <2>4. /\ Len(linked) = Len(sent) + Len(s)
        /\ \A i \in 1 .. Len(sent) : linked[i] = sent[i]
        /\ \A i \in 1 .. Len(s) : linked[Len(linked) - Len(s) + i] = request[s[i]]
    BY <1>1, <1>3, <2>1 DEF QueueIs, InOrder
  <2>5. ASSUME NEW i \in 1 .. Len(linked) PROVE linked[i] = (sent \o held)[i]
    <3>1. CASE i <= Len(sent)
      BY <1>1, <2>1, <2>3, <2>4, <3>1
    <3>2. CASE ~(i <= Len(sent))
      <4>1. /\ i - Len(sent) \in 1 .. Len(s) /\ i \in 1 .. Len(sent) + Len(s)
            /\ Len(linked) - Len(s) + (i - Len(sent)) = i
        BY <1>1, <2>1, <2>4, <3>2
      <4>2. linked[i] = held[i - Len(sent)]
        BY <2>2, <2>4, <4>1
      <4> QED BY <2>3, <3>2, <4>1, <4>2
    <3> QED BY <3>1, <3>2
  <2>6. linked = sent \o held
    BY <2>1, <2>3, <2>4, <2>5, SeqEqual
  <2> QED BY <2>6 DEF held
<1>6. Queued = [i \in 1 .. Len(s) |-> request[s[i]]]
  <2>1. DOMAIN s = 1 .. Len(s)
    BY <1>1, LenProperties
  <2> QED BY <1>2, <2>1 DEF Queued
<1> QED BY <1>2, <1>4, <1>5, <1>6

\* As long as no two list operations meet at the same pointers the queue is first
\* in, first out and complete, in both directions (send_queue.c:96-101,
\* rtsp_method.c:109), although threads append and delete without a lock: what was
\* linked is what was sent and then what a walk through the queue meets.
THEOREM QueueIsIntact == Spec => []QueueIntact
<1>1. Init => AloneInv
  BY InitAlone
<1>2. Init => OrderInv
  <2> SUFFICES ASSUME Init PROVE QueueIs(<<>>)
    BY EmptySeq DEF OrderInv
  <2>1. /\ <<>> \in Seq(InQueue) /\ Len(<<>>) = 0
    BY EmptySeq
  <2>2. ~BeingTaken
    BY DEF Init, BeingTaken, Threads
  <2>3. links[ListHead]["next"] = ListHead /\ links[ListHead]["prev"] = ListHead
    BY WriteFacts DEF Init, EmptyList
  <2>4. \A i \in Nat : Spot(<<>>, i) = ListHead
    BY DEF Spot
  <2>5. Round(links, "next", <<>>) /\ Backward(<<>>)
    BY <2>1, <2>3, <2>4 DEF Round, Leads, Backward
  <2>6. InOrder(<<>>)
    BY <2>1, <2>2 DEF Init, InOrder
  <2> QED BY <2>1, <2>2, <2>5, <2>6 DEF QueueIs
<1>3. QueueTypeOK /\ SafeQueue /\ AloneInv /\ OrderInv /\ [Next]_vars
        => (QueueTypeOK /\ SafeQueue /\ AloneInv /\ OrderInv)'
  BY StepQueue, StepAlone, StepOrder
<1>4. QueueTypeOK /\ AloneInv /\ OrderInv => QueueIntact
  <2> SUFFICES ASSUME QueueTypeOK, AloneInv, OrderInv, ~clash, thread # "ended"
               PROVE  /\ ~fault
                      /\ Quiet => /\ linked = sent \o Queued
                                  /\ Holds(links, Walk(links, "next"))
    BY DEF QueueIntact
  <2>1. PICK s \in Seq(Entries) : QueueIs(s)
    BY DEF OrderInv
  <2> QED BY <2>1, QuietQueue DEF AloneInv
<1>5. Spec => [](QueueTypeOK /\ SafeQueue /\ AloneInv /\ OrderInv)
  BY <1>1, <1>2, <1>3, InitQueue, PTL DEF Spec
<1> QED BY <1>4, <1>5, PTL
=============================================================================
