------------------------- MODULE SessionListProofs --------------------------
(***************************************************************************)
(* Theorems about SessionList, for every number of channels that are       *)
(* opened and of entries that memory may hold.                             *)
(***************************************************************************)
EXTENDS SessionList, LinkedListProofs

Labels == {"start", "created", "adding", "open", "failed",
           "none", "running", "looping", "ended"} \cup Destroying

\* An agent that writes pointers of the list, which it does with list_mutex.
Critical(t) == pc[t] \in {"adding", "deleting"}

\* The session in an entry is the one whose list_add_tail() returned.
Registered(e) ==
  e \in Allocated /\ addr[owner[e]] = e /\ pc[Opener(owner[e])] = "open"

\* What a walk may meet: the registered sessions that no agent has unlinked.
Members ==
  {e \in Entries :
     Registered(e) /\ \A t \in Destroyers : pc[t] = "unlinked" => sessp[t] # e}
Ring == Members \cup {ListHead}

-----------------------------------------------------------------------------
(* What holds in every interleaving.                                       *)

\* One agent at a time writes the list; an entry is unlinked by one agent.
AgentsInv ==
  /\ pc \in [Agents -> Labels]
  /\ todo \in [Agents -> Seq(Writes)]
  /\ tmp \in [Destroyers -> Cells \cup {NULL}]
  /\ sessp \in [Destroyers -> Entries \cup {NULL}]
  /\ \A t \in Agents :
       /\ Critical(t) => mutex \in {t, Destroyed}
       /\ ~Critical(t) => todo[t] = <<>>
  /\ \A t, u \in Agents : Critical(t) /\ Critical(u) => t = u
  /\ \A t \in Destroyers :
       /\ pc[t] \in Destroying => sessp[t] \in Entries
       /\ pc[t] \in {"deleting", "unlinked"} => Registered(sessp[t])
       /\ pc[t] = "deleting" => sessp[t] \in Members
       /\ \A u \in Destroyers :
            pc[t] = "unlinked" /\ pc[u] = "unlinked" /\ sessp[t] = sessp[u] => t = u

\* A channel has its session, and its thread, when open_chn() has got that far.
ChannelsInv ==
  /\ \A c \in Channels :
       /\ pc[Opener(c)] \in {"start", "failed"} =>
            addr[c] = NULL /\ pc[SessThread(c)] = "none"
       /\ pc[Opener(c)] \in {"created", "adding"} => HasSession(c)
       /\ pc[Opener(c)] = "open" => addr[c] \in Entries
       /\ pc[Deinit] # "none" => pc[Opener(c)] \notin {"created", "adding"}
  /\ mutex = Destroyed => pc[Deinit] = "ended"

\* Each entry of the ring and what the pointers of its neighbours say of it.
Whole ==
  \A p \in Ring :
    /\ links[p]["next"] \in Ring /\ links[links[p]["next"]]["prev"] = p
    /\ links[p]["prev"] \in Ring /\ links[links[p]["prev"]]["next"] = p

\* The ring but for what the head says of its last entry.
ChainTo(tail) ==
  \A p \in Ring :
    /\ links[p]["next"] \in Ring
    /\ links[p]["next"] = ListHead <=> p = tail
    /\ p # tail => links[links[p]["next"]]["prev"] = p
    /\ p # ListHead => links[p]["prev"] \in Ring /\ links[links[p]["prev"]]["next"] = p

\* list_add_tail() puts the session of channel c behind tail.
Inserting(c, tail) ==
  LET e == addr[c]
      left == todo[Opener(c)] IN
    /\ left \in {<<Write(ListHead, "prev", e), Write(e, "next", ListHead),
                   Write(e, "prev", tail), Write(tail, "next", e)>>,
                 <<Write(e, "next", ListHead), Write(e, "prev", tail),
                   Write(tail, "next", e)>>,
                 <<Write(e, "prev", tail), Write(tail, "next", e)>>,
                 <<Write(tail, "next", e)>>}
    /\ Len(left) = 4 => links[ListHead]["prev"] = tail
    /\ Len(left) # 4 => links[ListHead]["prev"] = e
    /\ Len(left) \in {1, 2} => links[e]["next"] = ListHead
    /\ Len(left) = 1 => links[e]["prev"] = tail
    /\ ChainTo(tail)

\* The ring but for e and what p and n say of each other.
RestOf(e, p, n) ==
  /\ \A q \in Ring \ {p, e} :
       links[q]["next"] \in Ring \ {e} /\ links[links[q]["next"]]["prev"] = q
  /\ \A q \in Ring \ {n, e} :
       links[q]["prev"] \in Ring \ {e} /\ links[links[q]["prev"]]["next"] = q

\* list_del() takes the session of agent t out, from between p and n.
Removing(t, p, n) ==
  LET e == sessp[t]
      left == todo[t] IN
    /\ left \in {<<Write(n, "prev", p), Write(p, "next", n),
                   Write(e, "next", LIST_POISON), Write(e, "prev", LIST_POISON)>>,
                 <<Write(p, "next", n), Write(e, "next", LIST_POISON),
                   Write(e, "prev", LIST_POISON)>>,
                 <<Write(e, "next", LIST_POISON), Write(e, "prev", LIST_POISON)>>,
                 <<Write(e, "prev", LIST_POISON)>>}
    /\ e \notin {p, n}
    /\ links[n]["prev"] = IF Len(left) = 4 THEN e ELSE p
    /\ links[p]["next"] = IF Len(left) \in {3, 4} THEN e ELSE n
    /\ Len(left) \in {3, 4} => links[e]["next"] = n
    /\ Len(left) = 1 => links[e]["next"] = LIST_POISON
    /\ RestOf(e, p, n)

\* No walk goes round without meeting the head.
Rising(rank) ==
  \A p \in Ring : links[p]["next"] \in Entries => rank[p] < rank[links[p]["next"]]

RingInv ==
  /\ (\A t \in Agents : ~Critical(t)) => Whole
  /\ \A c \in Channels : pc[Opener(c)] = "adding" => \E tail \in Ring : Inserting(c, tail)
  /\ \A t \in Destroyers : pc[t] = "deleting" => \E p, n \in Ring : Removing(t, p, n)
  /\ \E rank \in [Cells -> Nat] : Rising(rank)
  /\ \A e \in Entries \ Members :
       (\A c \in Channels : pc[Opener(c)] = "adding" => addr[c] # e) =>
         links[e]["next"] \notin Cells

\* The list and its users, whatever runs at once.
ListInv == AgentsInv /\ ChannelsInv /\ RingInv

-----------------------------------------------------------------------------
(* What holds as long as one session at a time is destroyed.               *)

Ending(t) == pc[t] \in Destroying \cup {"looping"}

SoleInv ==
  /\ \A t, u \in Destroyers : Ending(t) /\ Ending(u) => t = u
  /\ \A c \in Channels :
       /\ pc[Deinit] # "none" => pc[SessThread(c)] \in {"none", "ended"}
       /\ pc[SessThread(c)] \in {"running"} \cup Destroying => HasSession(c)
       /\ pc[SessThread(c)] \in Destroying => sessp[SessThread(c)] = addr[c]
       /\ pc[SessThread(c)] # "looping"
  /\ \A t \in Destroyers :
       /\ pc[t] = "walking" => tmp[t] \in Ring
       /\ pc[t] = "found" => sessp[t] \in Members

\* deinit_rtsp_cli() takes the first session each time, which is where its
\* walk begins, and has the second one ahead.
DeinitInv ==
  /\ pc[Deinit] = "walking" => tmp[Deinit] = sessp[Deinit]
  /\ pc[Deinit] \in {"walking", "found"} =>
       /\ sessp[Deinit] = links[ListHead]["next"]
       /\ ahead = links[sessp[Deinit]]["next"]
  /\ pc[Deinit] = "deleting" => ahead \in Ring /\ Removing(Deinit, ListHead, ahead)
  /\ pc[Deinit] \in {"unlinked", "looping"} => ahead = links[ListHead]["next"]
  /\ pc[Deinit] = "looping" /\ sessp[Deinit] = NULL => ahead = ListHead
  /\ pc[Deinit] = "ended" => Members = {}

\* As long as no two of them meet, every agent finds what it looks for.
AloneInv ==
  ~overlap => SoleInv /\ DeinitInv /\ fault \in {"none", "user"}

-----------------------------------------------------------------------------
\* The agents are different ones.
LEMMA AgentFacts ==
  /\ \A c \in Channels : /\ Opener(c) \in Agents /\ Opener(c) \in Openers
                         /\ Opener(c) \notin Destroyers
                         /\ SessThread(c) \in Agents /\ SessThread(c) \in Destroyers
                         /\ SessThread(c) # Deinit
  /\ \A c, d \in Channels : /\ Opener(c) = Opener(d) => c = d
                            /\ SessThread(c) = SessThread(d) => c = d
  /\ Deinit \in Destroyers /\ Destroyers \subseteq Agents
  /\ Deinit \in Agents
  /\ Openers \subseteq Agents /\ \A t \in Openers : t \notin Destroyers
  /\ \A t \in Agents : t \in Destroyers \/ \E c \in Channels : t = Opener(c)
  /\ \A t \in Destroyers : t = Deinit \/ \E c \in Channels : t = SessThread(c)
  /\ Unlocked \notin Agents /\ Destroyed \notin Agents /\ Unlocked # Destroyed
  BY DEF Agents, Openers, Destroyers, SessThreads, Opener, SessThread, Deinit,
         Unlocked, Destroyed

\* What is allocated is a session of a channel.
LEMMA MemberFacts ==
  ASSUME TypeOK
  PROVE  /\ \A e \in Allocated : e \in Entries /\ e \in Cells /\ owner[e] \in Channels
         /\ Members \subseteq Allocated /\ Members \subseteq Entries
         /\ Members \subseteq Cells /\ Ring \subseteq Cells /\ ListHead \in Ring
         /\ ListHead \notin Members
         /\ \A c \in Channels : HasSession(c) => addr[c] \in Allocated
  BY WriteFacts, ChannelsAssumption
  DEF TypeOK, Allocated, Members, Registered, Ring, Cells, HasSession

\* init_rtsp_cli() leaves an empty list.
LEMMA InitList == Init => TypeOK /\ ListInv /\ AloneInv
<1> SUFFICES ASSUME Init PROVE TypeOK /\ ListInv /\ AloneInv
  OBVIOUS
<1>1. /\ links \in Links
      /\ \A c \in Cells : links[c]["next"] = IF c = ListHead THEN ListHead ELSE NULL
      /\ \A c \in Cells : links[c]["prev"] = IF c = ListHead THEN ListHead ELSE NULL
  BY WriteFacts DEF Init, EmptyList, Links
<1>2. /\ \A t \in Openers : t \in Agents /\ pc[t] = "start"
      /\ \A t \in Destroyers : t \in Agents /\ pc[t] = "none"
      /\ \A t \in Agents : pc[t] \in {"start", "none"} /\ todo[t] = <<>>
      /\ pc \in [Agents -> Labels]
  <2>1. /\ pc = [t \in Agents |-> IF t \in Openers THEN "start" ELSE "none"]
        /\ todo = [t \in Agents |-> <<>>]
        /\ {"start", "none"} \subseteq Labels
    BY DEF Init, Labels
  <2>2. \A t \in Destroyers : t \in Agents /\ t \notin Openers
    BY AgentFacts DEF Openers
  <2>3. pc \in [Agents -> Labels]
    BY <2>1
  <2> QED BY <2>1, <2>2, <2>3 DEF Agents
<1>3. TypeOK
  <2>1. links \in Links
    BY <1>1
  <2>2. /\ owner \in [Entries -> Channels \cup {Nobody}]
        /\ addr \in [Channels -> Entries \cup {NULL}]
    BY DEF Init
  <2>3. mutex \in Agents \cup {Unlocked, Destroyed}
    BY DEF Init
  <2>4. \A t \in Openers : pc[t] \in {"start", "created", "adding", "open", "failed"}
    BY <1>2
  <2>5. \A t \in Destroyers : pc[t] \in {"none", "running", "looping", "ended"} \cup Destroying
    BY <1>2
  <2>6. \A t \in Destroyers : tmp[t] \in Cells \cup {NULL} /\ sessp[t] \in Entries \cup {NULL}
    BY DEF Init
  <2>7. \A t \in Agents : todo[t] \in Seq(Writes) /\ Len(todo[t]) <= 4
    BY DEF Init
  <2>8. ahead \in Pointers /\ overlap \in BOOLEAN /\ fault \in Faults
    BY WriteFacts DEF Init, Faults
  <2> QED BY <2>1, <2>2, <2>3, <2>4, <2>5, <2>6, <2>7, <2>8 DEF TypeOK
<1>4. Members = {} /\ Ring = {ListHead}
  BY DEF Members, Ring, Registered, Allocated, Init
<1>5. AgentsInv
  <2>1. todo \in [Agents -> Seq(Writes)]
    BY DEF Init
  <2>2. \A t \in Agents : ~Critical(t)
    BY <1>2 DEF Critical
  <2>3. tmp \in [Destroyers -> Cells \cup {NULL}] /\ sessp \in [Destroyers -> Entries \cup {NULL}]
    BY DEF Init
  <2> QED BY <1>2, <2>1, <2>2, <2>3 DEF AgentsInv, Destroying
<1>6. ChannelsInv
  BY <1>2, AgentFacts DEF ChannelsInv, Init
<1>7. RingInv
  <2>1. Whole
    BY <1>1, <1>4, WriteFacts DEF Whole
  <2>2. [x \in Cells |-> 0] \in [Cells -> Nat] /\ Rising([x \in Cells |-> 0])
    BY <1>1, <1>4, WriteFacts DEF Rising
  <2>3. \A e \in Entries : links[e]["next"] \notin Cells
    BY <1>1, WriteFacts
  <2> QED BY <1>2, <2>1, <2>2, <2>3, AgentFacts DEF RingInv
<1>8. SoleInv /\ DeinitInv
  BY <1>2, <1>4, AgentFacts DEF SoleInv, DeinitInv, Ending, Destroying
<1>9. fault \in {"none", "user"}
  BY DEF Init
<1> QED BY <1>3, <1>5, <1>6, <1>7, <1>8, <1>9 DEF ListInv, AloneInv

-----------------------------------------------------------------------------
(* Steps that write no pointer of a registered session.                    *)

\* The ring is as it was when its pointers and the operation under way are.
LEMMA RingKeeps ==
  ASSUME TypeOK, AgentsInv, RingInv, Members' = Members,
         \A p \in Ring : links'[p] = links[p],
         \A e \in Entries : links'[e] = links[e] \/ links'[e]["next"] \notin Cells,
         \A t \in Agents : Critical(t) \/ Critical(t)' =>
           pc'[t] = pc[t] /\ todo'[t] = todo[t],
         \A t \in Destroyers : pc[t] = "deleting" => sessp'[t] = sessp[t],
         \A c \in Channels : pc[Opener(c)] = "adding" =>
           addr'[c] = addr[c] /\ links'[addr[c]] = links[addr[c]]
  PROVE  RingInv'
<1>1. Ring' = Ring
  BY DEF Ring
<1>2. (\A t \in Agents : ~Critical(t)') => Whole'
  <2> SUFFICES ASSUME \A t \in Agents : ~Critical(t)' PROVE Whole'
    OBVIOUS
  <2>1. \A t \in Agents : ~Critical(t)
    BY DEF Critical
  <2> QED BY <1>1, <2>1 DEF RingInv, Whole
<1>3. ASSUME NEW c \in Channels, pc'[Opener(c)] = "adding"
      PROVE  \E tail \in Ring' : Inserting(c, tail)'
  <2>1. pc[Opener(c)] = "adding" /\ todo'[Opener(c)] = todo[Opener(c)]
    BY <1>3, AgentFacts DEF Critical
  <2>2. PICK tail \in Ring : Inserting(c, tail)
    BY <2>1 DEF RingInv
  <2>3. \A p \in Ring : links[p]["next"] \in Ring
    BY <2>2 DEF Inserting, ChainTo
  <2>4. ChainTo(tail)'
    BY <1>1, <2>2, <2>3 DEF Inserting, ChainTo
  <2>5. Inserting(c, tail)'
    BY <1>1, <2>1, <2>2, <2>4, MemberFacts DEF Inserting
  <2> QED BY <1>1, <2>5
<1>4. ASSUME NEW t \in Destroyers, pc'[t] = "deleting"
      PROVE  \E p, n \in Ring' : Removing(t, p, n)'
  <2>1. pc[t] = "deleting" /\ todo'[t] = todo[t] /\ sessp'[t] = sessp[t]
    BY <1>4, AgentFacts DEF Critical
  <2>2. PICK p \in Ring, n \in Ring : Removing(t, p, n)
    BY <2>1 DEF RingInv
  <2>0. PICK e, k : e = sessp[t] /\ k = Len(todo[t])
    OBVIOUS
  <2>3. e \in Ring /\ p \in Ring /\ n \in Ring
    BY <2>0, <2>1 DEF AgentsInv, Ring
  <2>4. /\ links'[n]["prev"] = IF k = 4 THEN e ELSE p
        /\ links'[p]["next"] = IF k \in {3, 4} THEN e ELSE n
        /\ k \in {3, 4} => links'[e]["next"] = n
        /\ k = 1 => links'[e]["next"] = LIST_POISON
    BY <2>0, <2>2, <2>3 DEF Removing
  <2>5. RestOf(e, p, n)
    BY <2>0, <2>2 DEF Removing
  <2>6. RestOf(e, p, n)'
    BY <1>1, <2>5 DEF RestOf
  <2>7. Removing(t, p, n)'
    BY <1>1, <2>0, <2>1, <2>2, <2>4, <2>6 DEF Removing
  <2> QED BY <1>1, <2>7
<1>5. \E rank \in [Cells -> Nat] : Rising(rank)'
  <2>1. PICK rank \in [Cells -> Nat] : Rising(rank)
    BY DEF RingInv
  <2>2. Rising(rank)'
    BY <1>1, <2>1 DEF Rising
  <2> QED BY <2>2
<1>6. ASSUME NEW e \in Entries \ Members',
             \A c \in Channels : pc'[Opener(c)] = "adding" => addr'[c] # e
      PROVE  links'[e]["next"] \notin Cells
  <2>1. \A c \in Channels : pc[Opener(c)] = "adding" => addr[c] # e
    BY <1>6, AgentFacts DEF Critical
  <2> QED BY <1>6, <2>1 DEF RingInv
<1> QED BY <1>2, <1>3, <1>4, <1>5, <1>6 DEF RingInv

\* An agent that destroys a session goes on without a pointer being written.
LEMMA MoveKeeps ==
  ASSUME TypeOK, ListInv, NEW t \in Destroyers, NEW label \in Labels,
         pc' = [pc EXCEPT ![t] = label],
         {pc[t], label} \cap {"adding", "deleting", "unlinked"} = {},
         UNCHANGED <<links, owner, addr, todo>>,
         NEW e \in Entries \cup {NULL}, sessp' = [sessp EXCEPT ![t] = e],
         label \in Destroying => e \in Entries,
         tmp' \in [Destroyers -> Cells \cup {NULL}],
         \/ mutex' = mutex /\ ~(t = Deinit /\ pc[t] = "ended")
         \/ mutex' = Destroyed /\ t = Deinit /\ label = "ended",
         t = Deinit /\ pc[t] = "none" =>
           \A c \in Channels : pc[Opener(c)] \notin {"created", "adding"},
         (label # "none" /\ pc[t] # "none") \/ t = Deinit
  PROVE  /\ Members' = Members /\ ListInv'
         /\ \A u \in Agents \ {t} : pc'[u] = pc[u]
         /\ pc'[t] = label /\ sessp'[t] = e
         /\ \A u \in Destroyers \ {t} : sessp'[u] = sessp[u]
<1>1. /\ \A u \in Agents \ {t} : pc'[u] = pc[u]
      /\ pc'[t] = label /\ t \in Agents
      /\ \A u \in Destroyers \ {t} : sessp'[u] = sessp[u]
      /\ sessp'[t] = e
      /\ pc' \in [Agents -> Labels]
      /\ sessp' \in [Destroyers -> Entries \cup {NULL}]
  BY AgentFacts DEF ListInv, AgentsInv
<1>2. /\ \A c \in Channels : pc'[Opener(c)] = pc[Opener(c)] /\ Opener(c) # t
      /\ \A u \in Destroyers : pc'[u] \in {"deleting", "unlinked"} \/ pc[u] \in {"deleting", "unlinked"} =>
           pc'[u] = pc[u] /\ sessp'[u] = sessp[u]
      /\ \A u \in Agents : Critical(u) \/ Critical(u)' => pc'[u] = pc[u]
  BY <1>1, AgentFacts, ZenonT(40) DEF Critical
<1>3. /\ Members' = Members
      /\ \A x \in Entries : Registered(x) <=> Registered(x)'
  <2>1. \A x \in Entries : Registered(x) <=> Registered(x)'
    BY <1>2, MemberFacts DEF Registered, Allocated
  <2> QED BY <1>2, <2>1 DEF Members
<1>4. AgentsInv'
  <2>1. \A u \in Agents :
          /\ Critical(u)' => mutex' \in {u, Destroyed}
          /\ ~Critical(u)' => todo'[u] = <<>>
    BY <1>2 DEF ListInv, AgentsInv, Critical
  <2>2. \A u, v \in Agents : Critical(u)' /\ Critical(v)' => u = v
    BY <1>2 DEF ListInv, AgentsInv, Critical
  <2>3. \A u \in Destroyers :
          /\ pc'[u] \in Destroying => sessp'[u] \in Entries
          /\ pc'[u] \in {"deleting", "unlinked"} => Registered(sessp[u])' /\ sessp'[u] = sessp[u]
          /\ pc'[u] = "deleting" => sessp'[u] \in Members'
    <3> SUFFICES ASSUME NEW u \in Destroyers
                 PROVE  /\ pc'[u] \in Destroying => sessp'[u] \in Entries
                        /\ pc'[u] \in {"deleting", "unlinked"} =>
                             Registered(sessp[u])' /\ sessp'[u] = sessp[u]
                        /\ pc'[u] = "deleting" => sessp'[u] \in Members'
      OBVIOUS
    <3>1. pc'[u] \in Destroying => sessp'[u] \in Entries
      BY <1>1, AgentFacts DEF ListInv, AgentsInv
    <3>2. ASSUME pc'[u] \in {"deleting", "unlinked"}
          PROVE  Registered(sessp[u])' /\ sessp'[u] = sessp[u]
      <4>1. PICK x : x = sessp[u]
        OBVIOUS
      <4>2. Registered(x) /\ x \in Entries /\ sessp'[u] = x
        BY <1>2, <3>2, <4>1 DEF ListInv, AgentsInv, Destroying
      <4>3. Registered(x)'
        BY <1>3, <4>2
      <4> QED BY <4>1, <4>2, <4>3
    <3>3. pc'[u] = "deleting" => sessp'[u] \in Members'
      BY <1>2, <1>3 DEF ListInv, AgentsInv
    <3> QED BY <3>1, <3>2, <3>3
  <2>4. \A u, v \in Destroyers :
          pc'[u] = "unlinked" /\ pc'[v] = "unlinked" /\ sessp'[u] = sessp'[v] => u = v
    BY <1>2 DEF ListInv, AgentsInv
  <2>5. todo' \in [Agents -> Seq(Writes)]
    BY DEF ListInv, AgentsInv
  <2> QED BY <1>1, <2>1, <2>2, <2>3, <2>4, <2>5 DEF AgentsInv
<1>5. ChannelsInv'
  <2>1. \A c \in Channels : (pc[SessThread(c)] = "none") => pc'[SessThread(c)] = "none"
    BY <1>1, AgentFacts
  <2>2. pc'[Deinit] # "none" =>
          \A c \in Channels : pc'[Opener(c)] \notin {"created", "adding"}
    BY <1>1, <1>2, AgentFacts DEF ListInv, ChannelsInv
  <2>3. mutex' = Destroyed => pc'[Deinit] = "ended"
    BY <1>1, AgentFacts DEF ListInv, ChannelsInv
  <2>4. \A c \in Channels : HasSession(c)' <=> HasSession(c)
    BY DEF HasSession
  <2> QED BY <1>2, <2>1, <2>2, <2>3, <2>4 DEF ListInv, ChannelsInv
<1>6. RingInv'
  BY <1>2, <1>3, RingKeeps DEF ListInv
<1> QED BY <1>1, <1>3, <1>4, <1>5, <1>6 DEF ListInv

\* create_rtsp_sess() allocates memory that is in no list.
LEMMA StepCreate ==
  ASSUME TypeOK, ListInv, NEW c \in Channels, Create(c)
  PROVE  TypeOK' /\ ListInv' /\ Members' = Members
<1>1. PICK e \in Entries \ Allocated :
        /\ owner' = [owner EXCEPT ![e] = c]
        /\ links' = [links EXCEPT ![e] = [f \in Fields |-> NULL]]
        /\ addr' = [addr EXCEPT ![c] = e]
  BY DEF Create
<1>2. /\ pc[Opener(c)] = "start" /\ pc[Deinit] = "none"
      /\ pc' = [pc EXCEPT ![Opener(c)] = "created", ![SessThread(c)] = "running"]
      /\ UNCHANGED <<mutex, tmp, sessp, todo, ahead, overlap, fault>>
  BY DEF Create
<1>3. /\ \A x \in Cells \ {e} : links'[x] = links[x]
      /\ links'[e]["next"] = NULL
      /\ links' \in Links
  BY <1>1, WriteFacts DEF TypeOK, Links
<1>4. /\ \A x \in Entries \ {e} : owner'[x] = owner[x]
      /\ owner'[e] = c
      /\ \A d \in Channels \ {c} : addr'[d] = addr[d]
      /\ addr'[c] = e /\ e \in Entries /\ owner[e] = Nobody
  BY <1>1 DEF TypeOK, Allocated
<1>5. /\ pc'[Opener(c)] = "created" /\ pc'[SessThread(c)] = "running"
      /\ \A t \in Agents \ {Opener(c), SessThread(c)} : pc'[t] = pc[t]
      /\ pc[SessThread(c)] = "none"
      /\ pc' \in [Agents -> Labels]
  BY <1>2, AgentFacts DEF ListInv, AgentsInv, ChannelsInv, Labels
<1>6. TypeOK'
  <2>1. owner' \in [Entries -> Channels \cup {Nobody}] /\ addr' \in [Channels -> Entries \cup {NULL}]
    BY <1>1 DEF TypeOK
  <2>2. \A t \in Openers : pc'[t] \in {"start", "created", "adding", "open", "failed"}
    BY <1>5, AgentFacts DEF TypeOK, Agents
  <2>3. \A t \in Destroyers : pc'[t] \in {"none", "running", "looping", "ended"} \cup Destroying
    BY <1>5, AgentFacts DEF TypeOK
  <2> QED BY <1>2, <1>3, <2>1, <2>2, <2>3 DEF TypeOK
<1>7. Allocated' = Allocated \cup {e}
  BY <1>4, ChannelsAssumption DEF Allocated
<1>8. /\ Members' = Members
      /\ \A x \in Entries : Registered(x) <=> Registered(x)'
  <2>1. \A x \in Entries : Registered(x) => Registered(x)' /\ x # e
    BY <1>1, <1>2, <1>4, <1>5, <1>7, AgentFacts, MemberFacts DEF Registered
  <2>2. \A x \in Entries : Registered(x)' => Registered(x)
    <3> SUFFICES ASSUME NEW x \in Entries, Registered(x)' PROVE Registered(x)
      OBVIOUS
    <3>1. x # e
      BY <1>4, <1>5 DEF Registered
    <3>2. x \in Allocated /\ owner'[x] = owner[x] /\ owner[x] \in Channels
      BY <1>4, <1>7, <3>1, MemberFacts DEF Registered
    <3>3. owner[x] # c
      BY <1>4, <1>5, <3>1, <3>2 DEF Registered
    <3> QED BY <1>4, <1>5, <3>2, <3>3, AgentFacts DEF Registered
  <2>3. \A t \in Destroyers : pc'[t] = "unlinked" <=> pc[t] = "unlinked"
    BY <1>5, AgentFacts
  <2> QED BY <1>2, <2>1, <2>2, <2>3 DEF Members
<1>9. /\ \A t \in Agents : Critical(t) \/ Critical(t)' => pc'[t] = pc[t]
      /\ \A t \in Destroyers : pc'[t] \in {"deleting", "unlinked"} \/ pc[t] \in {"deleting", "unlinked"} =>
           pc'[t] = pc[t]
  BY <1>2, <1>5, AgentFacts DEF Critical
<1>10. AgentsInv'
  <2>1. \A t \in Agents :
          /\ Critical(t)' => mutex' \in {t, Destroyed}
          /\ ~Critical(t)' => todo'[t] = <<>>
    BY <1>2, <1>9 DEF ListInv, AgentsInv, Critical
  <2>2. \A t, u \in Agents : Critical(t)' /\ Critical(u)' => t = u
    BY <1>9 DEF ListInv, AgentsInv, Critical
  <2>3. \A t \in Destroyers :
          /\ pc'[t] \in Destroying => sessp'[t] \in Entries
          /\ pc'[t] \in {"deleting", "unlinked"} => Registered(sessp[t])'
          /\ pc'[t] = "deleting" => sessp'[t] \in Members'
    <3> SUFFICES ASSUME NEW t \in Destroyers
                 PROVE  /\ pc'[t] \in Destroying => sessp'[t] \in Entries
                        /\ pc'[t] \in {"deleting", "unlinked"} => Registered(sessp[t])'
                        /\ pc'[t] = "deleting" => sessp'[t] \in Members'
      OBVIOUS
    <3>1. pc'[t] \in Destroying => pc'[t] = pc[t]
      BY <1>5, AgentFacts DEF Destroying
    <3>2. ASSUME pc'[t] \in {"deleting", "unlinked"} PROVE Registered(sessp[t])'
      <4>1. PICK x : x = sessp[t]
        OBVIOUS
      <4>2. Registered(x) /\ x \in Entries
        BY <1>9, <3>2, <4>1 DEF ListInv, AgentsInv, Destroying
      <4>3. Registered(x)'
        BY <1>8, <4>2
      <4> QED BY <1>2, <4>1, <4>3
    <3> QED BY <1>2, <1>8, <1>9, <3>1, <3>2 DEF ListInv, AgentsInv
  <2>4. \A t, u \in Destroyers :
          pc'[t] = "unlinked" /\ pc'[u] = "unlinked" /\ sessp'[t] = sessp'[u] => t = u
    BY <1>2, <1>9 DEF ListInv, AgentsInv
  <2>5. todo' \in [Agents -> Seq(Writes)]
    BY <1>2 DEF ListInv, AgentsInv
  <2> QED BY <1>2, <1>5, <2>1, <2>2, <2>3, <2>4, <2>5 DEF ListInv, AgentsInv
<1>11. \A d \in Channels \ {c} : HasSession(d) => HasSession(d)'
  BY <1>4, ChannelsAssumption DEF HasSession
<1>12. HasSession(c)'
  BY <1>4 DEF HasSession
<1>13. ChannelsInv'
  <2>1. \A d \in Channels \ {c} : /\ pc'[Opener(d)] = pc[Opener(d)]
                                  /\ pc'[SessThread(d)] = pc[SessThread(d)]
    BY <1>5, AgentFacts
  <2>2. pc'[Deinit] = "none" /\ mutex' = mutex
    BY <1>2, <1>5, AgentFacts
  <2>3. \A d \in Channels \ {c} :
          /\ pc'[Opener(d)] \in {"start", "failed"} =>
               addr'[d] = NULL /\ pc'[SessThread(d)] = "none"
          /\ pc'[Opener(d)] \in {"created", "adding"} => HasSession(d)'
          /\ pc'[Opener(d)] = "open" => addr'[d] \in Entries
    BY <1>4, <1>11, <2>1 DEF ListInv, ChannelsInv
  <2>4. mutex' # Destroyed
    BY <1>2, <2>2 DEF ListInv, ChannelsInv
  <2> QED BY <1>5, <1>12, <2>2, <2>3, <2>4 DEF ChannelsInv
<1>14. RingInv'
  <2>1. \A p \in Ring : links'[p] = links[p]
    BY <1>1, <1>3, MemberFacts, WriteFacts DEF Ring
  <2>2. \A d \in Channels : pc[Opener(d)] = "adding" =>
          addr'[d] = addr[d] /\ links'[addr[d]] = links[addr[d]]
    <3> SUFFICES ASSUME NEW d \in Channels, pc[Opener(d)] = "adding"
                 PROVE  addr'[d] = addr[d] /\ links'[addr[d]] = links[addr[d]]
      OBVIOUS
    <3>1. d # c /\ HasSession(d)
      BY <1>2 DEF ListInv, ChannelsInv
    <3>2. addr[d] \in Cells \ {e}
      BY <1>1, <3>1, MemberFacts
    <3> QED BY <1>3, <1>4, <3>1, <3>2
  <2>3. \A x \in Entries : links'[x] = links[x] \/ links'[x]["next"] \notin Cells
    BY <1>3, WriteFacts
  <2>4. \A t \in Agents : Critical(t) \/ Critical(t)' => pc'[t] = pc[t] /\ todo'[t] = todo[t]
    BY <1>2, <1>9
  <2> QED BY <1>2, <1>8, <2>1, <2>2, <2>3, <2>4, RingKeeps DEF ListInv
<1> QED BY <1>6, <1>8, <1>10, <1>13, <1>14 DEF ListInv

\* An open_chn() that fails may leave memory behind, in no list.
LEMMA StepCreateFails ==
  ASSUME TypeOK, ListInv, NEW c \in Channels, CreateFails(c)
  PROVE  TypeOK' /\ ListInv' /\ Members' = Members
<1>1. /\ pc[Opener(c)] = "start" /\ pc' = [pc EXCEPT ![Opener(c)] = "failed"]
      /\ UNCHANGED <<links, addr, mutex, tmp, sessp, todo, ahead, overlap, fault>>
      /\ \/ owner' = owner
         \/ \E e \in Entries \ Allocated : owner' = [owner EXCEPT ![e] = c]
  BY DEF CreateFails, Goto
<1>2. /\ owner' \in [Entries -> Channels \cup {Nobody}]
      /\ \A x \in Allocated : owner'[x] = owner[x]
      /\ Allocated \subseteq Allocated'
      /\ \A x \in Allocated' \ Allocated : owner'[x] = c
  BY <1>1 DEF TypeOK, Allocated
<1>3. /\ pc'[Opener(c)] = "failed"
      /\ \A t \in Agents \ {Opener(c)} : pc'[t] = pc[t]
      /\ pc' \in [Agents -> Labels]
  BY <1>1, AgentFacts DEF ListInv, AgentsInv, Labels
<1>4. TypeOK'
  <2>1. \A t \in Openers : pc'[t] \in {"start", "created", "adding", "open", "failed"}
    BY <1>3, AgentFacts DEF TypeOK, Agents
  <2>2. \A t \in Destroyers : pc'[t] \in {"none", "running", "looping", "ended"} \cup Destroying
    BY <1>3, AgentFacts DEF TypeOK
  <2> QED BY <1>1, <1>2, <2>1, <2>2 DEF TypeOK
<1>5. /\ Members' = Members
      /\ \A x \in Entries : Registered(x) <=> Registered(x)'
  <2>1. \A x \in Entries : Registered(x) => Registered(x)'
    BY <1>1, <1>2, <1>3, AgentFacts, MemberFacts DEF Registered
  <2>2. \A x \in Entries : Registered(x)' => Registered(x)
    BY <1>1, <1>2, <1>3, AgentFacts, MemberFacts DEF Registered
  <2>3. \A t \in Destroyers : pc'[t] = pc[t]
    BY <1>3, AgentFacts
  <2> QED BY <1>1, <2>1, <2>2, <2>3 DEF Members
<1>6. /\ \A t \in Agents : Critical(t) \/ Critical(t)' => pc'[t] = pc[t]
      /\ \A t \in Destroyers : pc'[t] = pc[t]
  BY <1>1, <1>3, AgentFacts DEF Critical
<1>7. AgentsInv'
  <2>1. \A t \in Agents :
          /\ Critical(t)' => mutex' \in {t, Destroyed}
          /\ ~Critical(t)' => todo'[t] = <<>>
    BY <1>1, <1>6 DEF ListInv, AgentsInv, Critical
  <2>2. \A t, u \in Agents : Critical(t)' /\ Critical(u)' => t = u
    BY <1>6 DEF ListInv, AgentsInv, Critical
  <2>3. ASSUME NEW t \in Destroyers, pc'[t] \in {"deleting", "unlinked"}
        PROVE  Registered(sessp[t])'
    <3>1. PICK x : x = sessp[t]
      OBVIOUS
    <3>2. Registered(x) /\ x \in Entries
      BY <1>6, <2>3, <3>1 DEF ListInv, AgentsInv, Destroying
    <3>3. Registered(x)'
      BY <1>5, <3>2
    <3> QED BY <1>1, <3>1, <3>3
  <2>4. todo' \in [Agents -> Seq(Writes)] /\ tmp' = tmp /\ sessp' = sessp
    BY <1>1 DEF ListInv, AgentsInv
  <2> QED BY <1>3, <1>5, <1>6, <2>1, <2>2, <2>3, <2>4 DEF ListInv, AgentsInv
<1>8. \A d \in Channels : HasSession(d) => HasSession(d)'
  BY <1>1, <1>2, MemberFacts DEF HasSession
<1>9. ChannelsInv'
  <2>1. \A d \in Channels \ {c} : pc'[Opener(d)] = pc[Opener(d)]
    BY <1>3, AgentFacts
  <2>2. \A d \in Channels : pc'[SessThread(d)] = pc[SessThread(d)]
    BY <1>3, AgentFacts
  <2>3. pc'[Deinit] = pc[Deinit]
    BY <1>3, AgentFacts
  <2> QED BY <1>1, <1>3, <1>8, <2>1, <2>2, <2>3 DEF ListInv, ChannelsInv
<1>10. RingInv'
  BY <1>1, <1>5, <1>6, RingKeeps DEF ListInv
<1> QED BY <1>4, <1>5, <1>7, <1>9, <1>10 DEF ListInv

\* The memory that is freed was unlinked by the one who frees it.
LEMMA StepFree ==
  ASSUME TypeOK, ListInv, NEW t \in Destroyers, Free(t)
  PROVE  TypeOK' /\ ListInv' /\ Members' = Members /\ UNCHANGED fault
<1>0. PICK e : e = sessp[t]
  OBVIOUS
<1>1. pc[t] = "unlinked" /\ e \in Entries /\ Registered(e) /\ e \in Allocated
  BY <1>0 DEF Free, ListInv, AgentsInv, Destroying, Registered
<1>2. /\ owner' = [owner EXCEPT ![e] = Nobody]
      /\ pc' = [pc EXCEPT ![t] = AfterDestroy(t)]
      /\ UNCHANGED <<links, addr, mutex, tmp, sessp, todo, ahead, overlap, fault>>
  BY <1>0, <1>1 DEF Free, Goto
<1>3. /\ AfterDestroy(t) \in {"looping", "ended"} /\ AfterDestroy(t) \in Labels
      /\ pc'[t] = AfterDestroy(t) /\ t \in Agents
      /\ \A u \in Agents \ {t} : pc'[u] = pc[u]
      /\ pc' \in [Agents -> Labels]
  BY <1>2, AgentFacts DEF AfterDestroy, ListInv, AgentsInv, Labels
<1>4. /\ owner' \in [Entries -> Channels \cup {Nobody}]
      /\ \A x \in Entries \ {e} : owner'[x] = owner[x]
      /\ Allocated' = Allocated \ {e}
  BY <1>2 DEF TypeOK, Allocated
<1>5. TypeOK'
  <2>1. \A u \in Openers : pc'[u] \in {"start", "created", "adding", "open", "failed"}
    BY <1>3, AgentFacts DEF TypeOK, Agents
  <2>2. \A u \in Destroyers : pc'[u] \in {"none", "running", "looping", "ended"} \cup Destroying
    BY <1>3, AgentFacts DEF TypeOK
  <2> QED BY <1>2, <1>4, <2>1, <2>2 DEF TypeOK
<1>6. /\ \A c \in Channels : pc'[Opener(c)] = pc[Opener(c)]
      /\ \A u \in Destroyers \ {t} : pc'[u] = pc[u]
      /\ \A u \in Agents : Critical(u) \/ Critical(u)' => pc'[u] = pc[u]
      /\ pc'[t] \notin Destroying
  BY <1>1, <1>3, AgentFacts DEF Critical, Destroying
<1>7. /\ \A x \in Entries \ {e} : Registered(x) <=> Registered(x)'
      /\ e \notin Members
  <2>1. \A x \in Entries \ {e} : Registered(x) <=> Registered(x)'
    BY <1>2, <1>4, <1>6, MemberFacts DEF Registered
  <2> QED BY <1>0, <1>1, <2>1 DEF Members
<1>8. Members' = Members
  <2>1. \A x \in Entries \ {e} :
          (\A u \in Destroyers : pc'[u] = "unlinked" => sessp'[u] # x)
             <=> (\A u \in Destroyers : pc[u] = "unlinked" => sessp[u] # x)
    BY <1>0, <1>2, <1>3, <1>6
  <2>2. e \notin Members'
    BY <1>4 DEF Members, Registered
  <2> QED BY <1>7, <2>1, <2>2 DEF Members
<1>9. AgentsInv'
  <2>1. \A u \in Agents :
          /\ Critical(u)' => mutex' \in {u, Destroyed}
          /\ ~Critical(u)' => todo'[u] = <<>>
    BY <1>1, <1>2, <1>6 DEF ListInv, AgentsInv, Critical
  <2>2. \A u, v \in Agents : Critical(u)' /\ Critical(v)' => u = v
    BY <1>6 DEF ListInv, AgentsInv, Critical
  <2>3. ASSUME NEW u \in Destroyers, pc'[u] \in {"deleting", "unlinked"}
        PROVE  Registered(sessp[u])'
    <3>1. PICK x : x = sessp[u]
      OBVIOUS
    <3>2. u # t /\ pc[u] = pc'[u]
      BY <1>6, <2>3 DEF Destroying
    <3>3. Registered(x) /\ x \in Entries
      BY <2>3, <3>1, <3>2 DEF ListInv, AgentsInv, Destroying
    <3>4. x # e
      BY <1>0, <1>1, <1>7, <2>3, <3>1, <3>2 DEF ListInv, AgentsInv
    <3>5. Registered(x)'
      BY <1>7, <3>3, <3>4
    <3> QED BY <1>2, <3>1, <3>5
  <2>4. todo' \in [Agents -> Seq(Writes)] /\ tmp' = tmp /\ sessp' = sessp
    BY <1>2 DEF ListInv, AgentsInv
  <2>5. \A u \in Destroyers : pc'[u] \in Destroying => pc'[u] = pc[u]
    BY <1>6
  <2>6. \A u \in Destroyers :
          /\ pc'[u] \in Destroying => sessp'[u] \in Entries
          /\ pc'[u] = "deleting" => sessp'[u] \in Members'
          /\ \A v \in Destroyers :
               pc'[u] = "unlinked" /\ pc'[v] = "unlinked" /\ sessp'[u] = sessp'[v] => u = v
    BY <1>8, <2>4, <2>5 DEF ListInv, AgentsInv, Destroying
  <2> QED BY <1>3, <2>1, <2>2, <2>3, <2>4, <2>6 DEF ListInv, AgentsInv
<1>10. \A d \in Channels : pc[Opener(d)] \in {"created", "adding"} => HasSession(d)'
  <2> SUFFICES ASSUME NEW d \in Channels, pc[Opener(d)] \in {"created", "adding"}
               PROVE  HasSession(d)'
    OBVIOUS
  <2>1. HasSession(d)
    BY DEF ListInv, ChannelsInv
  <2>2. addr[d] # e
    BY <1>1, <2>1 DEF HasSession, Registered
  <2> QED BY <1>2, <1>4, <2>1, <2>2 DEF HasSession
<1>11. ChannelsInv'
  <2>1. \A d \in Channels : pc[SessThread(d)] = "none" => pc'[SessThread(d)] = "none"
    BY <1>1, <1>6, AgentFacts
  <2>2. pc'[Deinit] # "none" => pc[Deinit] # "none"
    BY <1>1, <1>6, AgentFacts
  <2>3. mutex' = Destroyed => pc'[Deinit] = "ended"
    BY <1>1, <1>2, <1>6, AgentFacts DEF ListInv, ChannelsInv
  <2> QED BY <1>2, <1>6, <1>10, <2>1, <2>2, <2>3 DEF ListInv, ChannelsInv
<1>12. RingInv'
  BY <1>2, <1>6, <1>8, RingKeeps DEF ListInv
<1> QED BY <1>2, <1>5, <1>8, <1>9, <1>11, <1>12 DEF ListInv

-----------------------------------------------------------------------------
(* The operations on the list.                                             *)

\* list_add_tail() begins, with the mutex, and finds the last session.
LEMMA StepBeginInsert ==
  ASSUME TypeOK, ListInv, NEW c \in Channels, BeginInsert(c)
  PROVE  TypeOK' /\ ListInv' /\ Members' = Members
<1> DEFINE t == Opener(c)
<1>0. PICK e, tail : e = addr[c] /\ tail = links[ListHead]["prev"]
  OBVIOUS
<1>1. /\ pc[t] = "created" /\ mutex = Unlocked /\ mutex' = t
      /\ todo' = [todo EXCEPT ![t] = ListAddTail(links, e)]
      /\ pc' = [pc EXCEPT ![t] = "adding"]
      /\ UNCHANGED <<links, owner, addr, tmp, sessp, ahead, overlap, fault>>
  BY <1>0 DEF BeginInsert, Goto
<1>2. /\ \A u \in Agents : ~Critical(u)
      /\ Whole
  <2>1. \A u \in Agents : ~Critical(u)
    BY <1>1, AgentFacts DEF ListInv, AgentsInv
  <2> QED BY <2>1 DEF ListInv, RingInv
<1>3. /\ HasSession(c) /\ e \in Allocated /\ e \in Entries /\ e \in Cells
      /\ tail \in Ring /\ tail \in Cells /\ t \in Agents
  BY <1>0, <1>1, <1>2, MemberFacts, AgentFacts DEF ListInv, ChannelsInv, Whole
<1>4. /\ ListAddTail(links, e) = <<Write(ListHead, "prev", e), Write(e, "next", ListHead),
                                   Write(e, "prev", tail), Write(tail, "next", e)>>
      /\ ListAddTail(links, e) \in Seq(Writes) /\ Len(ListAddTail(links, e)) = 4
      /\ Len(ListAddTail(links, e)) <= 4
  <2>1. ListAddTail(links, e) = <<Write(ListHead, "prev", e), Write(e, "next", ListHead),
                                  Write(e, "prev", tail), Write(tail, "next", e)>>
    BY <1>0 DEF ListAddTail, ListAdd
  <2> HIDE DEF t
  <2> QED BY <1>3, <2>1, WriteFacts
<1>5. /\ pc'[t] = "adding" /\ todo'[t] = ListAddTail(links, e)
      /\ \A u \in Agents \ {t} : pc'[u] = pc[u] /\ todo'[u] = todo[u]
      /\ pc' \in [Agents -> Labels] /\ todo' \in [Agents -> Seq(Writes)]
      /\ \A u \in Destroyers : u # t /\ pc'[u] = pc[u]
  <2>1. "adding" \in Labels
    BY DEF Labels
  <2> QED BY <1>1, <1>3, <1>4, <2>1, AgentFacts DEF ListInv, AgentsInv
<1> HIDE DEF t
<1>6. TypeOK'
  <2>1. \A u \in Openers : pc'[u] \in {"start", "created", "adding", "open", "failed"}
    BY <1>5, AgentFacts DEF TypeOK
  <2>2. \A u \in Destroyers : pc'[u] \in {"none", "running", "looping", "ended"} \cup Destroying
    BY <1>5, AgentFacts DEF TypeOK
  <2>3. \A u \in Agents : todo'[u] \in Seq(Writes) /\ Len(todo'[u]) <= 4
    BY <1>4, <1>5 DEF TypeOK
  <2> QED BY <1>1, <1>3, <2>1, <2>2, <2>3 DEF TypeOK
<1>7. /\ Members' = Members /\ Ring' = Ring
      /\ \A x \in Entries : Registered(x) <=> Registered(x)'
  <2>1. \A d \in Channels : pc'[Opener(d)] = "open" <=> pc[Opener(d)] = "open"
    BY <1>1, <1>5, AgentFacts
  <2>2. \A x \in Entries : Registered(x) <=> Registered(x)'
    BY <1>1, <2>1, MemberFacts DEF Registered, Allocated
  <2>3. Members' = Members
    BY <1>1, <1>5, <2>2 DEF Members
  <2> QED BY <2>2, <2>3 DEF Ring
<1>8. \A u \in Agents : Critical(u)' <=> u = t
  BY <1>2, <1>3, <1>5 DEF Critical
<1>9. AgentsInv'
  <2>1. \A u \in Agents :
          /\ Critical(u)' => mutex' \in {u, Destroyed}
          /\ ~Critical(u)' => todo'[u] = <<>>
    BY <1>1, <1>2, <1>5, <1>8 DEF ListInv, AgentsInv
  <2>2. ASSUME NEW u \in Destroyers, pc'[u] \in {"deleting", "unlinked"}
        PROVE  Registered(sessp[u])'
    <3>1. PICK x : x = sessp[u]
      OBVIOUS
    <3>2. Registered(x) /\ x \in Entries
      BY <1>5, <2>2, <3>1 DEF ListInv, AgentsInv, Destroying
    <3>3. Registered(x)'
      BY <1>7, <3>2
    <3> QED BY <1>1, <3>1, <3>3
  <2> QED BY <1>1, <1>5, <1>7, <1>8, <2>1, <2>2 DEF ListInv, AgentsInv
<1>10. ChannelsInv'
  <2>1. \A d \in Channels \ {c} : pc'[Opener(d)] = pc[Opener(d)]
    BY <1>5, AgentFacts DEF t
  <2>2. \A d \in Channels : pc'[SessThread(d)] = pc[SessThread(d)]
    BY <1>5, AgentFacts
  <2>3. pc'[Deinit] = pc[Deinit]
    BY <1>5, AgentFacts
  <2>4. \A d \in Channels : HasSession(d)' <=> HasSession(d)
    BY <1>1 DEF HasSession
  <2>5. mutex' # Destroyed
    BY <1>1, <1>3, AgentFacts
  <2>6. pc[Deinit] = "none" /\ pc'[Opener(c)] = "adding" /\ HasSession(c)
    <3>1. pc[Deinit] = "none" /\ HasSession(c)
      BY <1>1 DEF ListInv, ChannelsInv, t
    <3> QED BY <1>5, <3>1 DEF t
  <2> QED BY <1>1, <2>1, <2>2, <2>3, <2>4, <2>5, <2>6 DEF ListInv, ChannelsInv
<1>11. Inserting(c, tail)'
  <2>1. ChainTo(tail)'
    BY <1>0, <1>1, <1>2, <1>7, MemberFacts DEF Whole, ChainTo
  <2> QED BY <1>0, <1>1, <1>4, <1>5, <1>7, <2>1 DEF Inserting, t
<1>12. RingInv'
  <2>1. \A d \in Channels : pc'[Opener(d)] = "adding" => d = c
    BY <1>8, AgentFacts DEF Critical, t
  <2>2. \A u \in Destroyers : pc'[u] # "deleting"
    BY <1>2, <1>5, AgentFacts DEF Critical
  <2>3. \E rank \in [Cells -> Nat] : Rising(rank)'
    <3>1. PICK rank \in [Cells -> Nat] : Rising(rank)
      BY DEF ListInv, RingInv
    <3>2. Rising(rank)'
      BY <1>1, <1>7, <3>1 DEF Rising
    <3> QED BY <3>2
  <2>4. ASSUME NEW x \in Entries \ Members' PROVE links'[x]["next"] \notin Cells
    BY <1>1, <1>2, <1>7, <2>4, AgentFacts DEF ListInv, RingInv, Critical
  <2>5. Critical(t)'
    BY <1>3, <1>8
  <2> QED BY <1>3, <1>7, <1>11, <2>1, <2>2, <2>3, <2>4, <2>5 DEF RingInv
<1> QED BY <1>6, <1>7, <1>9, <1>10, <1>12 DEF ListInv

\* list_del() begins: the session is in the list, between two others.
LEMMA StepBeginRemove ==
  ASSUME TypeOK, ListInv, NEW t \in Destroyers, BeginRemove(t), fault' = "none"
  PROVE  /\ TypeOK' /\ ListInv' /\ Members' = Members
         /\ \E p, n \in Ring :
              p = links[sessp[t]]["prev"] /\ n = links[sessp[t]]["next"] /\ Removing(t, p, n)'
<1>0. PICK e, p, n : e = sessp[t] /\ p = links[e]["prev"] /\ n = links[e]["next"]
  OBVIOUS
<1>1. /\ pc[t] = "found" /\ mutex = Unlocked /\ mutex' = t
      /\ e \in Allocated /\ n \in Cells
      /\ todo' = [todo EXCEPT ![t] = ListDel(links, e)]
      /\ pc' = [pc EXCEPT ![t] = "deleting"]
      /\ UNCHANGED <<links, owner, addr, tmp, sessp, ahead, overlap, fault>>
  BY <1>0 DEF BeginRemove, Fault, Goto
<1>2. /\ \A u \in Agents : ~Critical(u)
      /\ Whole
  <2>1. \A u \in Agents : ~Critical(u)
    BY <1>1, AgentFacts DEF ListInv, AgentsInv
  <2> QED BY <2>1 DEF ListInv, RingInv
<1>3. /\ e \in Members /\ e \in Entries /\ e \in Cells /\ t \in Agents /\ e \in Ring
      /\ Registered(e)
  <2>1. \A c \in Channels : pc[Opener(c)] # "adding"
    BY <1>2, AgentFacts DEF Critical
  <2>2. e \in Members
    BY <1>0, <1>1, <2>1, MemberFacts DEF ListInv, RingInv
  <2> QED BY <2>2, AgentFacts, MemberFacts DEF Members, Ring
<1>4. /\ p \in Ring /\ n \in Ring /\ p \in Cells /\ n \in Cells
      /\ links[n]["prev"] = e /\ links[p]["next"] = e
  BY <1>0, <1>2, <1>3, MemberFacts DEF Whole
<1>5. e \notin {p, n}
  <2>1. PICK rank \in [Cells -> Nat] : Rising(rank)
    BY DEF ListInv, RingInv
  <2>2. n # e
    BY <1>0, <1>3, <2>1 DEF Rising
  <2> QED BY <1>0, <1>4, <2>2
<1>6. /\ ListDel(links, e) = <<Write(n, "prev", p), Write(p, "next", n),
                               Write(e, "next", LIST_POISON), Write(e, "prev", LIST_POISON)>>
      /\ ListDel(links, e) \in Seq(Writes) /\ Len(ListDel(links, e)) = 4
      /\ Len(ListDel(links, e)) <= 4
  <2>1. ListDel(links, e) = <<Write(n, "prev", p), Write(p, "next", n),
                              Write(e, "next", LIST_POISON), Write(e, "prev", LIST_POISON)>>
    BY <1>0 DEF ListDel
  <2> QED BY <1>3, <1>4, <2>1, WriteFacts
<1>7. /\ pc'[t] = "deleting" /\ todo'[t] = ListDel(links, e)
      /\ \A u \in Agents \ {t} : pc'[u] = pc[u] /\ todo'[u] = todo[u]
      /\ pc' \in [Agents -> Labels] /\ todo' \in [Agents -> Seq(Writes)]
      /\ \A u \in Openers : u # t /\ pc'[u] = pc[u]
  <2>1. "deleting" \in Labels
    BY DEF Labels, Destroying
  <2> QED BY <1>1, <1>3, <1>6, <2>1, AgentFacts DEF ListInv, AgentsInv
<1>8. TypeOK'
  <2>1. \A u \in Openers : pc'[u] \in {"start", "created", "adding", "open", "failed"}
    BY <1>7 DEF TypeOK
  <2>2. \A u \in Destroyers : pc'[u] \in {"none", "running", "looping", "ended"} \cup Destroying
    BY <1>7, AgentFacts DEF TypeOK, Destroying
  <2>3. \A u \in Agents : todo'[u] \in Seq(Writes) /\ Len(todo'[u]) <= 4
    BY <1>6, <1>7 DEF TypeOK
  <2> QED BY <1>1, <1>3, <2>1, <2>2, <2>3 DEF TypeOK
<1>9. /\ Members' = Members /\ Ring' = Ring
      /\ \A x \in Entries : Registered(x) <=> Registered(x)'
  <2>1. \A d \in Channels : pc'[Opener(d)] = pc[Opener(d)]
    BY <1>7, AgentFacts
  <2>2. \A x \in Entries : Registered(x) <=> Registered(x)'
    BY <1>1, <2>1, MemberFacts DEF Registered, Allocated
  <2>3. \A u \in Destroyers : pc'[u] = "unlinked" <=> pc[u] = "unlinked"
    BY <1>1, <1>7, AgentFacts
  <2>4. Members' = Members
    BY <1>1, <2>2, <2>3 DEF Members
  <2> QED BY <2>2, <2>4 DEF Ring
<1>10. \A u \in Agents : Critical(u)' <=> u = t
  BY <1>2, <1>3, <1>7 DEF Critical
<1>11. AgentsInv'
  <2>1. \A u \in Agents :
          /\ Critical(u)' => mutex' \in {u, Destroyed}
          /\ ~Critical(u)' => todo'[u] = <<>>
    BY <1>1, <1>2, <1>7, <1>10 DEF ListInv, AgentsInv
  <2>2. ASSUME NEW u \in Destroyers, pc'[u] \in {"deleting", "unlinked"}
        PROVE  Registered(sessp[u])'
    <3>1. PICK x : x = sessp[u]
      OBVIOUS
    <3>2. Registered(x) /\ x \in Entries
      BY <1>0, <1>3, <1>7, <2>2, <3>1, AgentFacts DEF ListInv, AgentsInv, Destroying
    <3>3. Registered(x)'
      BY <1>9, <3>2
    <3> QED BY <1>1, <3>1, <3>3
  <2>3. \A u \in Destroyers : pc'[u] \in Destroying => sessp'[u] \in Entries
    BY <1>0, <1>1, <1>3, <1>7, AgentFacts DEF ListInv, AgentsInv
  <2>4. \A u \in Destroyers : pc'[u] = "deleting" => sessp'[u] \in Members'
    BY <1>0, <1>1, <1>3, <1>9, <1>10, AgentFacts DEF Critical
  <2>5. \A u, v \in Destroyers :
          pc'[u] = "unlinked" /\ pc'[v] = "unlinked" /\ sessp'[u] = sessp'[v] => u = v
    BY <1>1, <1>7, AgentFacts DEF ListInv, AgentsInv
  <2>6. tmp' = tmp /\ sessp' = sessp
    BY <1>1
  <2> QED BY <1>7, <1>10, <2>1, <2>2, <2>3, <2>4, <2>5, <2>6 DEF ListInv, AgentsInv
<1>12. ChannelsInv'
  <2>1. \A d \in Channels : pc'[Opener(d)] = pc[Opener(d)]
    BY <1>7, AgentFacts
  <2>2. \A d \in Channels : pc[SessThread(d)] = "none" => pc'[SessThread(d)] = "none"
    BY <1>1, <1>7, AgentFacts
  <2>3. pc'[Deinit] # "none" => pc[Deinit] # "none"
    BY <1>1, <1>7, AgentFacts
  <2>4. \A d \in Channels : HasSession(d)' <=> HasSession(d)
    BY <1>1 DEF HasSession
  <2>5. mutex' # Destroyed
    BY <1>1, <1>3, AgentFacts
  <2> QED BY <1>1, <2>1, <2>2, <2>3, <2>4, <2>5 DEF ListInv, ChannelsInv
<1>13. Removing(t, p, n)'
  <2>1. RestOf(e, p, n)'
    BY <1>0, <1>1, <1>2, <1>9 DEF Whole, RestOf
  <2> QED BY <1>0, <1>1, <1>4, <1>5, <1>6, <1>7, <1>9, <2>1 DEF Removing
<1>14. RingInv'
  <2>1. \A d \in Channels : pc'[Opener(d)] # "adding"
    BY <1>3, <1>10, AgentFacts DEF Critical
  <2>2. \A u \in Destroyers : pc'[u] = "deleting" => u = t
    BY <1>10, AgentFacts DEF Critical
  <2>3. \E rank \in [Cells -> Nat] : Rising(rank)'
    <3>1. PICK rank \in [Cells -> Nat] : Rising(rank)
      BY DEF ListInv, RingInv
    <3>2. Rising(rank)'
      BY <1>1, <1>9, <3>1 DEF Rising
    <3> QED BY <3>2
  <2>4. ASSUME NEW x \in Entries \ Members' PROVE links'[x]["next"] \notin Cells
    BY <1>1, <1>2, <1>9, <2>4, AgentFacts DEF ListInv, RingInv, Critical
  <2>5. Critical(t)'
    BY <1>3, <1>10
  <2> QED BY <1>3, <1>4, <1>9, <1>13, <2>1, <2>2, <2>3, <2>4, <2>5 DEF RingInv
<1>15. \E x, y \in Ring :
         x = links[sessp[t]]["prev"] /\ y = links[sessp[t]]["next"] /\ Removing(t, x, y)'
  BY <1>0, <1>4, <1>13
<1> QED BY <1>8, <1>9, <1>11, <1>12, <1>14, <1>15 DEF ListInv

\* An agent in the middle of its operation performs the next write.
LEMMA WriteKeeps ==
  ASSUME TypeOK, ListInv, NEW t \in Agents, Critical(t), WriteNext(t),
         Valid(Head(todo[t]).at)
  PROVE  /\ TypeOK' /\ AgentsInv' /\ ChannelsInv'
         /\ Members' = Members /\ Ring' = Ring
         /\ UNCHANGED <<owner, addr, mutex, pc, tmp, sessp, ahead, overlap, fault>>
         /\ todo'[t] = Tail(todo[t])
         /\ \A u \in Agents \ {t} : todo'[u] = todo[u]
         /\ \A x \in Cells, f \in Fields :
              links'[x][f] = IF x = Head(todo[t]).at /\ f = Head(todo[t]).field
                             THEN Head(todo[t]).to ELSE links[x][f]
<1>1. /\ Len(todo[t]) > 1
      /\ links' = Put(links, Head(todo[t]))
      /\ todo' = [todo EXCEPT ![t] = Tail(@)]
      /\ UNCHANGED <<owner, addr, mutex, pc, tmp, sessp, ahead, overlap, fault>>
  BY DEF WriteNext
<1>2. todo \in [Agents -> Seq(Writes)] /\ Len(todo[t]) <= 4 /\ links \in Links
  BY DEF ListInv, AgentsInv, TypeOK
<1>3. /\ todo[t] \in Seq(Writes) /\ todo[t] # <<>>
  <2>1. todo[t] \in Seq(Writes)
    BY <1>2
  <2>2. todo[t] # <<>>
    BY <1>1
  <2> QED BY <2>1, <2>2
<1>4. Head(todo[t]) \in Writes /\ Tail(todo[t]) \in Seq(Writes) /\ Len(Tail(todo[t])) <= 4
  BY <1>2, <1>3
<1>5. /\ links' \in Links
      /\ \A x \in Cells, f \in Fields :
           links'[x][f] = IF x = Head(todo[t]).at /\ f = Head(todo[t]).field
                          THEN Head(todo[t]).to ELSE links[x][f]
  BY <1>1, <1>2, <1>4, PutFacts
<1>6. /\ todo' \in [Agents -> Seq(Writes)] /\ todo'[t] = Tail(todo[t])
      /\ \A u \in Agents \ {t} : todo'[u] = todo[u]
  BY <1>1, <1>2, <1>4
<1>7. TypeOK'
  <2>1. \A u \in Agents : todo'[u] \in Seq(Writes) /\ Len(todo'[u]) <= 4
    BY <1>4, <1>6 DEF TypeOK
  <2> QED BY <1>1, <1>5, <2>1 DEF TypeOK
<1>8. /\ Members' = Members /\ Ring' = Ring
      /\ \A x : Registered(x)' <=> Registered(x)
  BY <1>1 DEF Members, Ring, Registered, Allocated
<1>9. AgentsInv'
  <2>1. \A u \in Agents : /\ Critical(u)' <=> Critical(u)
                          /\ ~Critical(u) => todo'[u] = <<>>
    BY <1>1, <1>6 DEF Critical, ListInv, AgentsInv
  <2>2. ASSUME NEW u \in Destroyers, pc'[u] \in {"deleting", "unlinked"}
        PROVE  Registered(sessp[u])'
    <3>1. PICK x : x = sessp[u]
      OBVIOUS
    <3>2. Registered(x)
      BY <1>1, <2>2, <3>1 DEF ListInv, AgentsInv
    <3>3. Registered(x)'
      BY <1>8, <3>2
    <3> QED BY <1>1, <3>1, <3>3
  <2> QED BY <1>1, <1>6, <1>8, <2>1, <2>2 DEF ListInv, AgentsInv
<1>10. ChannelsInv'
  BY <1>1 DEF ListInv, ChannelsInv, HasSession
<1> QED BY <1>1, <1>5, <1>6, <1>7, <1>8, <1>9, <1>10

\* The session that is being inserted is not in the list.
LEMMA NewFacts ==
  ASSUME TypeOK, ListInv, NEW c \in Channels, pc[Opener(c)] = "adding"
  PROVE  /\ addr[c] \in Allocated /\ addr[c] \in Entries /\ addr[c] \in Cells
         /\ addr[c] \notin Ring /\ owner[addr[c]] = c
         /\ Critical(Opener(c)) /\ Opener(c) \in Agents
         /\ \A d \in Channels : pc[Opener(d)] = "adding" => d = c
         /\ \A u \in Destroyers : pc[u] # "deleting"
<1>1. HasSession(c)
  BY DEF ListInv, ChannelsInv
<1>2. addr[c] \notin Members /\ addr[c] # ListHead
  BY <1>1, WriteFacts DEF HasSession, Members, Registered
<1>3. Critical(Opener(c)) /\ Opener(c) \in Agents
  BY AgentFacts DEF Critical
<1>4. \A u \in Agents : Critical(u) => u = Opener(c)
  BY <1>3 DEF ListInv, AgentsInv
<1> QED BY <1>1, <1>2, <1>3, <1>4, MemberFacts, AgentFacts DEF HasSession, Ring, Critical

\* The first three writes of list_add_tail(): the chain of next pointers, which
\* the walks follow, is left alone.
LEMMA StepInserting ==
  ASSUME TypeOK, ListInv, NEW c \in Channels,
         pc[Opener(c)] = "adding", WriteNext(Opener(c))
  PROVE  /\ TypeOK' /\ ListInv' /\ Members' = Members
         /\ UNCHANGED <<owner, addr, mutex, pc, tmp, sessp, ahead, overlap, fault>>
         /\ \A p \in Ring : links'[p]["next"] = links[p]["next"]
<1> DEFINE t == Opener(c)
<1>0. PICK e : e = addr[c]
  OBVIOUS
<1>1. PICK tail \in Ring : Inserting(c, tail)
  BY DEF ListInv, RingInv
<1>2. /\ e \in Allocated /\ e \in Entries /\ e \in Cells /\ e \in Pointers
      /\ e \notin Ring /\ tail \in Cells /\ tail \in Pointers /\ ListHead \in Cells
      /\ ListHead \in Ring
  BY <1>0, NewFacts, MemberFacts, WriteFacts
<1>3. todo[t] \in {<<Write(ListHead, "prev", e), Write(e, "next", ListHead),
                     Write(e, "prev", tail), Write(tail, "next", e)>>,
                   <<Write(e, "next", ListHead), Write(e, "prev", tail),
                     Write(tail, "next", e)>>,
                   <<Write(e, "prev", tail), Write(tail, "next", e)>>}
  <2>1. ASSUME todo[t] = <<Write(tail, "next", e)>> PROVE FALSE
    <3>1. Len(todo[t]) = 1 /\ Len(todo[t]) > 1
      BY <2>1 DEF WriteNext
    <3> QED BY <3>1
  <2> QED BY <1>0, <1>1, <2>1 DEF Inserting
<1>4. Valid(Head(todo[t]).at)
  <2>1. Head(todo[t]).at \in {ListHead, e}
    BY <1>2, <1>3, WriteFacts
  <2> QED BY <1>2, <2>1 DEF Valid
<1>5. /\ TypeOK' /\ AgentsInv' /\ ChannelsInv'
      /\ Members' = Members /\ Ring' = Ring
      /\ UNCHANGED <<owner, addr, mutex, pc, tmp, sessp, ahead, overlap, fault>>
      /\ todo'[t] = Tail(todo[t])
      /\ \A x \in Cells, f \in Fields :
           links'[x][f] = IF x = Head(todo[t]).at /\ f = Head(todo[t]).field
                          THEN Head(todo[t]).to ELSE links[x][f]
  BY <1>4, NewFacts, WriteKeeps
<1>6. /\ \A p \in Cells \ {e} : links'[p]["next"] = links[p]["next"]
      /\ Inserting(c, tail)'
  <2>0. ChainTo(tail) /\ addr'[c] = e
    BY <1>0, <1>1, <1>5 DEF Inserting
  <2>1. CASE todo[t] = <<Write(ListHead, "prev", e), Write(e, "next", ListHead),
                         Write(e, "prev", tail), Write(tail, "next", e)>>
    <3>1. /\ Head(todo[t]) = Write(ListHead, "prev", e)
          /\ todo'[t] = <<Write(e, "next", ListHead), Write(e, "prev", tail),
                          Write(tail, "next", e)>>
          /\ Len(todo'[t]) = 3
      BY <1>5, <2>1
    <3>2. /\ \A p \in Cells : links'[p]["next"] = links[p]["next"]
          /\ \A p \in Cells \ {ListHead} : links'[p]["prev"] = links[p]["prev"]
          /\ links'[ListHead]["prev"] = e
      BY <1>2, <1>5, <3>1, WriteFacts
    <3>3. ChainTo(tail)'
      BY <1>2, <1>5, <2>0, <3>2, MemberFacts DEF ChainTo
    <3>4. Inserting(c, tail)'
      BY <2>0, <3>1, <3>2, <3>3 DEF Inserting
    <3> QED BY <3>2, <3>4
  <2>2. CASE todo[t] = <<Write(e, "next", ListHead), Write(e, "prev", tail),
                         Write(tail, "next", e)>>
    <3>1. /\ Head(todo[t]) = Write(e, "next", ListHead)
          /\ todo'[t] = <<Write(e, "prev", tail), Write(tail, "next", e)>>
          /\ Len(todo'[t]) = 2 /\ Len(todo[t]) = 3
      BY <1>5, <2>2
    <3>2. /\ \A p \in Cells \ {e} : links'[p]["next"] = links[p]["next"]
          /\ \A p \in Cells : links'[p]["prev"] = links[p]["prev"]
          /\ links'[e]["next"] = ListHead
      BY <1>2, <1>5, <3>1, WriteFacts
    <3>3. links[ListHead]["prev"] = e
      BY <1>0, <1>1, <3>1 DEF Inserting
    <3>4. ChainTo(tail)'
      BY <1>2, <1>5, <2>0, <3>2, MemberFacts DEF ChainTo
    <3>5. Inserting(c, tail)'
      BY <1>2, <2>0, <3>1, <3>2, <3>3, <3>4 DEF Inserting
    <3> QED BY <3>2, <3>5
  <2>3. CASE todo[t] = <<Write(e, "prev", tail), Write(tail, "next", e)>>
    <3>1. /\ Head(todo[t]) = Write(e, "prev", tail)
          /\ todo'[t] = <<Write(tail, "next", e)>>
          /\ Len(todo'[t]) = 1 /\ Len(todo[t]) = 2
      BY <1>5, <2>3
    <3>2. /\ \A p \in Cells : links'[p]["next"] = links[p]["next"]
          /\ \A p \in Cells \ {e} : links'[p]["prev"] = links[p]["prev"]
          /\ links'[e]["prev"] = tail
      BY <1>2, <1>5, <3>1, WriteFacts
    <3>3. links[ListHead]["prev"] = e /\ links[e]["next"] = ListHead
      BY <1>0, <1>1, <3>1 DEF Inserting
    <3>4. ChainTo(tail)'
      BY <1>2, <1>5, <2>0, <3>2, MemberFacts DEF ChainTo
    <3>5. ListHead # e
      BY <1>2
    <3>6. Inserting(c, tail)'
      BY <1>2, <2>0, <3>1, <3>2, <3>3, <3>4, <3>5 DEF Inserting
    <3> QED BY <3>2, <3>6
  <2> QED BY <1>3, <2>1, <2>2, <2>3
<1>7. \A p \in Ring : links'[p]["next"] = links[p]["next"]
  BY <1>2, <1>6, MemberFacts
<1>8. RingInv'
  <2>1. \A d \in Channels : pc'[Opener(d)] = "adding" => d = c
    BY <1>5, NewFacts
  <2>2. \A u \in Destroyers : pc'[u] # "deleting"
    BY <1>5, NewFacts
  <2>3. Critical(t)'
    BY <1>5 DEF Critical
  <2>4. \E rank \in [Cells -> Nat] : Rising(rank)'
    <3>1. PICK rank \in [Cells -> Nat] : Rising(rank)
      BY DEF ListInv, RingInv
    <3>2. Rising(rank)'
      BY <1>5, <1>7, <3>1 DEF Rising
    <3> QED BY <3>2
  <2>5. ASSUME NEW x \in Entries \ Members',
               \A d \in Channels : pc'[Opener(d)] = "adding" => addr'[d] # x
        PROVE  links'[x]["next"] \notin Cells
    <3>1. x # e /\ x \in Cells /\ x \notin Members
      BY <1>0, <1>5, <2>5, WriteFacts
    <3>2. links[x]["next"] \notin Cells
      BY <1>5, <2>5, <3>1 DEF ListInv, RingInv
    <3> QED BY <1>6, <3>1, <3>2
  <2> QED BY <1>5, <1>6, <2>1, <2>2, <2>3, <2>4, <2>5, AgentFacts DEF RingInv
<1> QED BY <1>5, <1>7, <1>8 DEF ListInv

\* The session that is being removed is one of the list, until the end.
LEMMA OldFacts ==
  ASSUME TypeOK, ListInv, NEW t \in Destroyers, pc[t] = "deleting"
  PROVE  /\ sessp[t] \in Members /\ sessp[t] \in Ring /\ sessp[t] \in Entries
         /\ sessp[t] \in Allocated /\ sessp[t] \in Cells /\ Registered(sessp[t])
         /\ Critical(t) /\ t \in Agents
         /\ \A u \in Destroyers : pc[u] = "deleting" => u = t
         /\ \A c \in Channels : pc[Opener(c)] # "adding"
         /\ \A x \in Entries \ Members : links[x]["next"] \notin Cells
<1>1. sessp[t] \in Members
  BY DEF ListInv, AgentsInv
<1>2. Critical(t) /\ t \in Agents
  BY AgentFacts DEF Critical
<1>3. \A u \in Agents : Critical(u) => u = t
  BY <1>2 DEF ListInv, AgentsInv
<1>4. \A u \in Destroyers : pc[u] = "deleting" => u = t
  BY <1>3, AgentFacts DEF Critical
<1>5. \A c \in Channels : pc[Opener(c)] # "adding"
  BY <1>3, AgentFacts DEF Critical
<1>6. \A x \in Entries \ Members : links[x]["next"] \notin Cells
  BY <1>5 DEF ListInv, RingInv
<1> QED BY <1>1, <1>2, <1>4, <1>5, <1>6, MemberFacts DEF Members, Ring

\* The first three writes of list_del(): who looks at the list sees it with
\* the session or without it, and nobody loses his way.
LEMMA StepRemoving ==
  ASSUME TypeOK, ListInv, NEW t \in Destroyers, pc[t] = "deleting", WriteNext(t),
         NEW p \in Ring, NEW n \in Ring, Removing(t, p, n)
  PROVE  /\ TypeOK' /\ ListInv' /\ Members' = Members
         /\ UNCHANGED <<owner, addr, mutex, pc, tmp, sessp, ahead, overlap, fault>>
         /\ Removing(t, p, n)'
         /\ Len(todo[t]) \in {2, 3, 4} /\ todo'[t] = Tail(todo[t])
         /\ \A x \in Cells :
              links'[x]["next"] = IF x = p /\ Len(todo[t]) = 3 THEN n
                                  ELSE IF x = sessp[t] /\ Len(todo[t]) = 2 THEN LIST_POISON
                                  ELSE links[x]["next"]
<1>0. PICK e : e = sessp[t]
  OBVIOUS
<1>1. /\ e \in Ring /\ e \in Entries /\ e \in Cells /\ e \in Allocated /\ e \in Pointers
      /\ p \in Cells /\ n \in Cells /\ p \in Pointers /\ n \in Pointers
      /\ e \notin {p, n} /\ t \in Agents /\ Critical(t) /\ e \in Members
  BY <1>0, OldFacts, MemberFacts, WriteFacts DEF Removing
<1>2. todo[t] \in {<<Write(n, "prev", p), Write(p, "next", n),
                     Write(e, "next", LIST_POISON), Write(e, "prev", LIST_POISON)>>,
                   <<Write(p, "next", n), Write(e, "next", LIST_POISON),
                     Write(e, "prev", LIST_POISON)>>,
                   <<Write(e, "next", LIST_POISON), Write(e, "prev", LIST_POISON)>>}
  <2>1. ASSUME todo[t] = <<Write(e, "prev", LIST_POISON)>> PROVE FALSE
    <3>1. Len(todo[t]) = 1 /\ Len(todo[t]) > 1
      BY <2>1 DEF WriteNext
    <3> QED BY <3>1
  <2> QED BY <1>0, <2>1 DEF Removing
<1>3. Valid(Head(todo[t]).at)
  <2>1. Head(todo[t]).at \in {n, p, e}
    BY <1>1, <1>2, WriteFacts
  <2> QED BY <1>1, <2>1, MemberFacts DEF Valid, Ring
<1>4. /\ TypeOK' /\ AgentsInv' /\ ChannelsInv'
      /\ Members' = Members /\ Ring' = Ring
      /\ UNCHANGED <<owner, addr, mutex, pc, tmp, sessp, ahead, overlap, fault>>
      /\ todo'[t] = Tail(todo[t])
      /\ \A x \in Cells, f \in Fields :
           links'[x][f] = IF x = Head(todo[t]).at /\ f = Head(todo[t]).field
                          THEN Head(todo[t]).to ELSE links[x][f]
  BY <1>1, <1>3, WriteKeeps
<1>5. RestOf(e, p, n)
  BY <1>0 DEF Removing
<1>6. PICK rank \in [Cells -> Nat] : Rising(rank)
  BY DEF ListInv, RingInv
<1>7. /\ Removing(t, p, n)' /\ Rising(rank)'
      /\ \A x \in Entries \ Members : links'[x]["next"] = links[x]["next"]
      /\ Len(todo[t]) \in {2, 3, 4}
      /\ \A x \in Cells :
           links'[x]["next"] = IF x = p /\ Len(todo[t]) = 3 THEN n
                               ELSE IF x = e /\ Len(todo[t]) = 2 THEN LIST_POISON
                               ELSE links[x]["next"]
  <2>0. sessp'[t] = e
    BY <1>0, <1>4
  <2>1. CASE todo[t] = <<Write(n, "prev", p), Write(p, "next", n),
                         Write(e, "next", LIST_POISON), Write(e, "prev", LIST_POISON)>>
    <3>1. /\ Head(todo[t]) = Write(n, "prev", p)
          /\ todo'[t] = <<Write(p, "next", n), Write(e, "next", LIST_POISON),
                          Write(e, "prev", LIST_POISON)>>
          /\ Len(todo'[t]) = 3 /\ Len(todo[t]) = 4
      BY <1>4, <2>1
    <3>2. /\ \A x \in Cells : links'[x]["next"] = links[x]["next"]
          /\ \A x \in Cells \ {n} : links'[x]["prev"] = links[x]["prev"]
          /\ links'[n]["prev"] = p
      <4>1. /\ Head(todo[t]).at = n /\ Head(todo[t]).field = "prev" /\ Head(todo[t]).to = p
            /\ "next" \in Fields /\ "prev" \in Fields
        BY <1>1, <3>1, WriteFacts
      <4> QED BY <1>1, <1>4, <4>1
    <3>3. links[n]["prev"] = e /\ links[p]["next"] = e /\ links[e]["next"] = n
      BY <1>0, <3>1 DEF Removing
    <3>4. RestOf(e, p, n)'
      BY <1>1, <1>4, <1>5, <3>2, <3>3, MemberFacts DEF RestOf
    <3>5. Removing(t, p, n)'
      BY <1>1, <2>0, <3>1, <3>2, <3>3, <3>4 DEF Removing
    <3>6. Rising(rank)'
      BY <1>4, <1>6, <3>2, MemberFacts DEF Rising
    <3>7. Len(todo[t]) \notin {2, 3} /\ Len(todo[t]) \in {2, 3, 4}
      BY <3>1
    <3>8. \A x \in Entries : x \in Cells
      BY WriteFacts
    <3> QED BY <3>2, <3>5, <3>6, <3>7, <3>8
  <2>2. CASE todo[t] = <<Write(p, "next", n), Write(e, "next", LIST_POISON),
                         Write(e, "prev", LIST_POISON)>>
    <3>1. /\ Head(todo[t]) = Write(p, "next", n)
          /\ todo'[t] = <<Write(e, "next", LIST_POISON), Write(e, "prev", LIST_POISON)>>
          /\ Len(todo'[t]) = 2 /\ Len(todo[t]) = 3
      BY <1>4, <2>2
    <3>2. /\ \A x \in Cells : links'[x]["prev"] = links[x]["prev"]
          /\ \A x \in Cells \ {p} : links'[x]["next"] = links[x]["next"]
          /\ links'[p]["next"] = n
      BY <1>1, <1>4, <3>1, WriteFacts, SMTT(30)
    <3>3. links[n]["prev"] = p /\ links[p]["next"] = e /\ links[e]["next"] = n
      BY <1>0, <3>1 DEF Removing
    <3>4. RestOf(e, p, n)'
      BY <1>1, <1>4, <1>5, <3>2, <3>3, MemberFacts DEF RestOf
    <3>5. Removing(t, p, n)'
      BY <1>1, <2>0, <3>1, <3>2, <3>3, <3>4 DEF Removing
    <3>6. Rising(rank)'
      <4>1. n \in Entries => rank[p] < rank[n]
        <5>1. rank[p] < rank[e] /\ (n \in Entries => rank[e] < rank[n])
          BY <1>1, <1>6, <3>3 DEF Rising
        <5>2. rank[p] \in Nat /\ rank[e] \in Nat /\ rank[n] \in Nat
          BY <1>1
        <5> QED BY <5>1, <5>2
      <4> QED BY <1>4, <1>6, <3>2, <4>1, MemberFacts DEF Rising
    <3>7. Len(todo[t]) # 2 /\ Len(todo[t]) \in {2, 3, 4}
      BY <3>1
    <3>8. \A x \in Entries \ Members : x \in Cells \ {p}
      BY WriteFacts DEF Ring
    <3> QED BY <3>1, <3>2, <3>5, <3>6, <3>7, <3>8
  <2>3. CASE todo[t] = <<Write(e, "next", LIST_POISON), Write(e, "prev", LIST_POISON)>>
    <3>1. /\ Head(todo[t]) = Write(e, "next", LIST_POISON)
          /\ todo'[t] = <<Write(e, "prev", LIST_POISON)>>
          /\ Len(todo'[t]) = 1 /\ Len(todo[t]) = 2
      BY <1>4, <2>3
    <3>2. /\ \A x \in Cells : links'[x]["prev"] = links[x]["prev"]
          /\ \A x \in Cells \ {e} : links'[x]["next"] = links[x]["next"]
          /\ links'[e]["next"] = LIST_POISON
      <4>1. /\ Head(todo[t]).at = e /\ Head(todo[t]).field = "next"
            /\ Head(todo[t]).to = LIST_POISON
            /\ "next" \in Fields /\ "prev" \in Fields
        BY <1>1, <3>1, WriteFacts
      <4> QED BY <1>1, <1>4, <4>1
    <3>3. links[n]["prev"] = p /\ links[p]["next"] = n
      BY <1>0, <3>1 DEF Removing
    <3>4. RestOf(e, p, n)'
      BY <1>1, <1>4, <1>5, <3>2, <3>3, MemberFacts DEF RestOf
    <3>5. Removing(t, p, n)'
      BY <1>1, <2>0, <3>1, <3>2, <3>3, <3>4 DEF Removing
    <3>6. Rising(rank)'
      BY <1>4, <1>6, <3>2, MemberFacts, WriteFacts DEF Rising
    <3>7. Len(todo[t]) # 3 /\ Len(todo[t]) \in {2, 3, 4}
      BY <3>1
    <3>8. \A x \in Entries \ Members : x \in Cells \ {e}
      BY <1>1, WriteFacts
    <3> QED BY <3>1, <3>2, <3>5, <3>6, <3>7, <3>8
  <2> QED BY <1>2, <2>1, <2>2, <2>3
<1>8. RingInv'
  <2>1. \A d \in Channels : pc'[Opener(d)] # "adding"
    BY <1>4, OldFacts
  <2>2. \A u \in Destroyers : pc'[u] = "deleting" => u = t
    BY <1>4, OldFacts
  <2>3. Critical(t)'
    BY <1>1, <1>4 DEF Critical
  <2>4. \A x \in Entries \ Members' : links'[x]["next"] \notin Cells
    BY <1>4, <1>7, OldFacts
  <2> QED BY <1>1, <1>4, <1>7, <2>1, <2>2, <2>3, <2>4 DEF RingInv
<1> QED BY <1>0, <1>4, <1>7, <1>8 DEF ListInv

\* The last write of an operation, with which the agent gives the mutex back.
LEMMA LastKeeps ==
  ASSUME TypeOK, ListInv, NEW t \in Agents, Critical(t),
         NEW label \in {"open", "unlinked"},
         IF t \in Destroyers THEN label = "unlinked" ELSE label = "open",
         NEW w \in Writes, todo[t] = <<w>>, Valid(w.at), WriteLast(t, label)
  PROVE  /\ TypeOK'
         /\ UNCHANGED <<owner, addr, tmp, sessp, ahead, overlap, fault>>
         /\ pc' \in [Agents -> Labels] /\ todo' \in [Agents -> Seq(Writes)]
         /\ pc'[t] = label /\ \A u \in Agents \ {t} : pc'[u] = pc[u]
         /\ \A u \in Agents : ~Critical(u)' /\ todo'[u] = <<>>
         /\ mutex' = Destroyed => mutex = Destroyed
         /\ \A x \in Cells, f \in Fields :
              links'[x][f] = IF x = w.at /\ f = w.field THEN w.to ELSE links[x][f]
<1>1. /\ links' = Put(links, w)
      /\ todo' = [todo EXCEPT ![t] = <<>>]
      /\ mutex' = IF mutex = t THEN Unlocked ELSE mutex
      /\ pc' = [pc EXCEPT ![t] = label]
      /\ UNCHANGED <<owner, addr, tmp, sessp, ahead, overlap, fault>>
  <2>1. Head(todo[t]) = w
    OBVIOUS
  <2> QED BY <2>1 DEF WriteLast, Goto
<1>2. /\ pc \in [Agents -> Labels] /\ todo \in [Agents -> Seq(Writes)] /\ links \in Links
      /\ label \in Labels
  BY DEF ListInv, AgentsInv, TypeOK, Labels, Destroying
<1>3. /\ pc' \in [Agents -> Labels] /\ todo' \in [Agents -> Seq(Writes)]
      /\ pc'[t] = label /\ todo'[t] = <<>>
      /\ \A u \in Agents \ {t} : pc'[u] = pc[u] /\ todo'[u] = todo[u]
  BY <1>1, <1>2
<1>4. \A u \in Agents \ {t} : ~Critical(u) /\ todo[u] = <<>>
  BY DEF ListInv, AgentsInv
<1>5. \A u \in Agents : ~Critical(u)' /\ todo'[u] = <<>>
  BY <1>3, <1>4 DEF Critical
<1>6. /\ links' \in Links
      /\ \A x \in Cells, f \in Fields :
           links'[x][f] = IF x = w.at /\ f = w.field THEN w.to ELSE links[x][f]
  BY <1>1, <1>2, PutFacts
<1>7. mutex' \in Agents \cup {Unlocked, Destroyed} /\ (mutex' = Destroyed => mutex = Destroyed)
  BY <1>1, AgentFacts DEF TypeOK
<1>8. TypeOK'
  <2>1. \A u \in Openers : pc'[u] \in {"start", "created", "adding", "open", "failed"}
    BY <1>3, AgentFacts DEF TypeOK
  <2>2. \A u \in Destroyers : pc'[u] \in {"none", "running", "looping", "ended"} \cup Destroying
    BY <1>3, AgentFacts DEF TypeOK, Destroying
  <2>3. \A u \in Agents : todo'[u] \in Seq(Writes) /\ Len(todo'[u]) <= 4
    BY <1>3, <1>5
  <2> QED BY <1>1, <1>6, <1>7, <2>1, <2>2, <2>3 DEF TypeOK
<1> QED BY <1>1, <1>3, <1>5, <1>6, <1>7, <1>8

\* With the last write of list_add_tail() the session is in the list, behind
\* all others.
LEMMA StepEndInsert ==
  ASSUME TypeOK, ListInv, NEW c \in Channels, EndInsert(c)
  PROVE  /\ TypeOK' /\ ListInv' /\ Members' = Members \cup {addr[c]}
         /\ UNCHANGED <<owner, addr, tmp, sessp, ahead, overlap, fault>>
         /\ pc'[Opener(c)] = "open" /\ \A u \in Agents \ {Opener(c)} : pc'[u] = pc[u]
         /\ links[addr[c]]["next"] = ListHead
         /\ \E tail \in Ring :
              /\ links[tail]["next"] = ListHead
              /\ \A x \in Cells :
                   links'[x]["next"] = IF x = tail THEN addr[c] ELSE links[x]["next"]
<1> DEFINE t == Opener(c)
<1>0. PICK e : e = addr[c]
  OBVIOUS
<1>1. pc[t] = "adding" /\ WriteLast(t, "open") /\ Len(todo[t]) = 1
  BY DEF EndInsert, WriteLast
<1>2. PICK tail \in Ring : Inserting(c, tail)
  BY <1>1 DEF ListInv, RingInv
<1>3. /\ e \in Allocated /\ e \in Entries /\ e \in Cells /\ e \in Pointers
      /\ e \notin Ring /\ tail \in Cells /\ ListHead \in Cells
      /\ ListHead \in Ring /\ owner[e] = c /\ Critical(t) /\ t \in Agents /\ t \notin Destroyers
      /\ "next" \in Fields /\ "prev" \in Fields
  BY <1>0, <1>1, NewFacts, MemberFacts, WriteFacts, AgentFacts
<1>4. todo[t] = <<Write(tail, "next", e)>>
  BY <1>0, <1>1, <1>2, OneLeft DEF Inserting
<1>5. /\ Write(tail, "next", e) \in Writes /\ Write(tail, "next", e).at = tail
      /\ Write(tail, "next", e).field = "next" /\ Write(tail, "next", e).to = e
      /\ Valid(tail)
  BY <1>3, WriteFacts, MemberFacts DEF Valid, Ring
<1>6. /\ TypeOK'
      /\ UNCHANGED <<owner, addr, tmp, sessp, ahead, overlap, fault>>
      /\ pc' \in [Agents -> Labels] /\ todo' \in [Agents -> Seq(Writes)]
      /\ pc'[t] = "open" /\ \A u \in Agents \ {t} : pc'[u] = pc[u]
      /\ \A u \in Agents : ~Critical(u)' /\ todo'[u] = <<>>
      /\ mutex' = Destroyed => mutex = Destroyed
      /\ \A x \in Cells, f \in Fields :
           links'[x][f] = IF x = tail /\ f = "next" THEN e ELSE links[x][f]
  BY <1>1, <1>3, <1>4, <1>5, LastKeeps
<1>7. /\ \A x \in Cells \ {tail} : links'[x]["next"] = links[x]["next"]
      /\ \A x \in Cells : links'[x]["prev"] = links[x]["prev"]
      /\ links'[tail]["next"] = e
      /\ links[ListHead]["prev"] = e /\ links[e]["next"] = ListHead
      /\ links[e]["prev"] = tail /\ ChainTo(tail)
  BY <1>0, <1>1, <1>2, <1>3, <1>6 DEF Inserting
<1>8. /\ \A u \in Destroyers : pc'[u] = pc[u]
      /\ \A d \in Channels \ {c} : pc'[Opener(d)] = pc[Opener(d)]
  BY <1>3, <1>6, AgentFacts
<1>9. /\ \A x \in Entries : Registered(x)' <=> Registered(x) \/ x = e
      /\ ~Registered(e)
  <2>1. ~Registered(e)
    BY <1>1, <1>3 DEF Registered
  <2>2. ASSUME NEW x \in Allocated PROVE Registered(x)' <=> Registered(x) \/ x = e
    <3>1. CASE owner[x] = c
      BY <1>0, <1>1, <1>3, <1>6, <2>1, <3>1 DEF Registered, Allocated
    <3>2. CASE owner[x] # c
      BY <1>3, <1>6, <1>8, <3>2, MemberFacts DEF Registered, Allocated
    <3> QED BY <3>1, <3>2
  <2>3. \A x \in Entries \ Allocated : ~Registered(x)' /\ ~Registered(x)
    BY <1>6 DEF Registered, Allocated
  <2> QED BY <1>3, <2>1, <2>2, <2>3
<1>10. Members' = Members \cup {e} /\ Ring' = Ring \cup {e}
  <2>1. \A u \in Destroyers : pc[u] = "unlinked" => sessp[u] # e
    BY <1>9 DEF ListInv, AgentsInv
  <2>2. Members' = Members \cup {e}
    BY <1>3, <1>6, <1>8, <1>9, <2>1 DEF Members
  <2> QED BY <2>2 DEF Ring
<1>11. AgentsInv'
  <2>1. ASSUME NEW u \in Destroyers, pc'[u] \in {"deleting", "unlinked"}
        PROVE  Registered(sessp[u])'
    <3>1. PICK x : x = sessp[u]
      OBVIOUS
    <3>2. Registered(x) /\ x \in Entries
      BY <1>8, <2>1, <3>1 DEF ListInv, AgentsInv, Destroying
    <3>3. Registered(x)'
      BY <1>9, <3>2
    <3> QED BY <1>6, <3>1, <3>3
  <2>2. \A u \in Destroyers : pc'[u] # "deleting"
    BY <1>6, AgentFacts DEF Critical
  <2> QED BY <1>6, <1>8, <2>1, <2>2 DEF ListInv, AgentsInv
<1>12. ChannelsInv'
  <2>1. e \in Entries /\ pc'[Deinit] = pc[Deinit] /\ pc'[Opener(c)] = "open"
    BY <1>3, <1>6, <1>8, AgentFacts
  <2>2. \A d \in Channels : HasSession(d)' <=> HasSession(d)
    BY <1>6 DEF HasSession
  <2>3. \A d \in Channels : pc'[SessThread(d)] = pc[SessThread(d)]
    BY <1>8, AgentFacts
  <2>4. addr'[c] \in Entries
    BY <1>0, <1>3, <1>6
  <2> HIDE DEF t
  <2> QED BY <1>6, <1>8, <2>1, <2>2, <2>3, <2>4 DEF ListInv, ChannelsInv
<1>13. Whole'
  <2>1. ASSUME NEW p \in Ring'
        PROVE  links'[p]["next"] \in Ring' /\ links'[links'[p]["next"]]["prev"] = p
    BY <1>3, <1>7, <1>10, <2>1, MemberFacts DEF ChainTo
  <2>2. ASSUME NEW p \in Ring'
        PROVE  links'[p]["prev"] \in Ring' /\ links'[links'[p]["prev"]]["next"] = p
    BY <1>3, <1>7, <1>10, <2>2, MemberFacts DEF ChainTo
  <2> QED BY <2>1, <2>2 DEF Whole
<1>14. \E rank \in [Cells -> Nat] : Rising(rank)'
  <2>1. PICK rank \in [Cells -> Nat] : Rising(rank)
    BY DEF ListInv, RingInv
  <2>2. PICK r : r = [rank EXCEPT ![e] = rank[tail] + 1]
    OBVIOUS
  <2>3. /\ r \in [Cells -> Nat] /\ r[e] = rank[tail] + 1 /\ rank[tail] \in Nat
        /\ \A x \in Cells \ {e} : r[x] = rank[x]
    BY <1>3, <2>1, <2>2
  <2>4. ASSUME NEW p \in Ring', links'[p]["next"] \in Entries
        PROVE  r[p] < r[links'[p]["next"]]
    <3>1. CASE p = tail
      BY <1>3, <1>7, <2>3, <3>1
    <3>2. CASE p = e
      BY <1>3, <1>7, <2>4, <3>2, WriteFacts
    <3>3. CASE p \in Ring \ {tail}
      <4>1. /\ p # e /\ p \in Cells /\ links'[p]["next"] = links[p]["next"]
            /\ links[p]["next"] \in Ring /\ links[p]["next"] # e
            /\ links[p]["next"] \in Cells
        BY <1>3, <1>7, <3>3, MemberFacts DEF ChainTo
      <4>2. rank[p] < rank[links[p]["next"]]
        BY <2>1, <2>4, <3>3, <4>1 DEF Rising
      <4> QED BY <2>3, <4>1, <4>2
    <3> QED BY <1>10, <2>4, <3>1, <3>2, <3>3
  <2>5. Rising(r)'
    BY <2>4 DEF Rising
  <2> QED BY <2>3, <2>5
<1>15. RingInv'
  <2>1. \A d \in Channels : pc'[Opener(d)] # "adding"
    BY <1>6, AgentFacts DEF Critical
  <2>2. \A u \in Destroyers : pc'[u] # "deleting"
    BY <1>6, AgentFacts DEF Critical
  <2>3. ASSUME NEW x \in Entries \ Members' PROVE links'[x]["next"] \notin Cells
    <3>1. x # e /\ x \notin Members /\ x \in Cells /\ x # tail
      BY <1>3, <1>10, <2>3, WriteFacts DEF Ring
    <3>2. \A d \in Channels : pc[Opener(d)] = "adding" => addr[d] # x
      BY <1>0, <1>1, <3>1, NewFacts
    <3>3. links[x]["next"] \notin Cells
      BY <2>3, <3>1, <3>2 DEF ListInv, RingInv
    <3> QED BY <1>7, <3>1, <3>3
  <2> QED BY <1>13, <1>14, <2>1, <2>2, <2>3 DEF RingInv
<1>16. /\ links[e]["next"] = ListHead /\ links[tail]["next"] = ListHead
       /\ \A x \in Cells : links'[x]["next"] = IF x = tail THEN e ELSE links[x]["next"]
  BY <1>7 DEF ChainTo
<1> QED BY <1>0, <1>6, <1>10, <1>11, <1>12, <1>15, <1>16 DEF ListInv

\* With the last write of list_del() the session is in the list no more.
LEMMA StepEndRemove ==
  ASSUME TypeOK, ListInv, NEW t \in Destroyers, EndRemove(t),
         NEW p \in Ring, NEW n \in Ring, Removing(t, p, n)
  PROVE  /\ TypeOK' /\ ListInv' /\ Members' = Members \ {sessp[t]}
         /\ UNCHANGED <<owner, addr, tmp, sessp, ahead, overlap, fault>>
         /\ links'[p]["next"] = n
         /\ \A x \in Cells : links'[x]["next"] = links[x]["next"]
         /\ pc'[t] = "unlinked" /\ \A u \in Agents \ {t} : pc'[u] = pc[u]
<1>0. PICK e : e = sessp[t]
  OBVIOUS
<1>1. pc[t] = "deleting" /\ WriteLast(t, "unlinked") /\ Len(todo[t]) = 1
  BY DEF EndRemove, WriteLast
<1>2. /\ e \in Members /\ e \in Ring /\ e \in Entries /\ e \in Allocated /\ e \in Cells
      /\ Registered(e) /\ Critical(t) /\ t \in Agents /\ p \in Cells /\ n \in Cells
      /\ "next" \in Fields /\ "prev" \in Fields /\ LIST_POISON \in Pointers \ Cells
      /\ ListHead # e
  BY <1>0, <1>1, OldFacts, MemberFacts, WriteFacts
<1>3. todo[t] = <<Write(e, "prev", LIST_POISON)>>
  BY <1>0, <1>1, OneLeft DEF Removing
<1>4. /\ Write(e, "prev", LIST_POISON) \in Writes /\ Write(e, "prev", LIST_POISON).at = e
      /\ Write(e, "prev", LIST_POISON).field = "prev"
      /\ Write(e, "prev", LIST_POISON).to = LIST_POISON
      /\ Valid(e)
  BY <1>2, WriteFacts DEF Valid
<1>5. /\ TypeOK'
      /\ UNCHANGED <<owner, addr, tmp, sessp, ahead, overlap, fault>>
      /\ pc' \in [Agents -> Labels] /\ todo' \in [Agents -> Seq(Writes)]
      /\ pc'[t] = "unlinked" /\ \A u \in Agents \ {t} : pc'[u] = pc[u]
      /\ \A u \in Agents : ~Critical(u)' /\ todo'[u] = <<>>
      /\ mutex' = Destroyed => mutex = Destroyed
      /\ \A x \in Cells, f \in Fields :
           links'[x][f] = IF x = e /\ f = "prev" THEN LIST_POISON ELSE links[x][f]
  BY <1>1, <1>2, <1>3, <1>4, LastKeeps
<1>6. /\ \A x \in Cells : links'[x]["next"] = links[x]["next"]
      /\ \A x \in Cells \ {e} : links'[x]["prev"] = links[x]["prev"]
      /\ e \notin {p, n} /\ links[n]["prev"] = p /\ links[p]["next"] = n
      /\ links[e]["next"] = LIST_POISON /\ RestOf(e, p, n)
  BY <1>0, <1>1, <1>2, <1>5 DEF Removing
<1>7. /\ \A u \in Destroyers \ {t} : pc'[u] = pc[u]
      /\ \A d \in Channels : pc'[Opener(d)] = pc[Opener(d)]
  BY <1>5, AgentFacts
<1>8. \A x \in Entries : Registered(x)' <=> Registered(x)
  BY <1>5, <1>7, MemberFacts DEF Registered, Allocated
<1>9. Members' = Members \ {e} /\ Ring' = Ring \ {e}
  <2>1. Members' = Members \ {e}
    BY <1>0, <1>1, <1>2, <1>5, <1>7, <1>8 DEF Members
  <2> QED BY <1>2, <2>1 DEF Ring
<1>10. AgentsInv'
  <2>1. ASSUME NEW u \in Destroyers, pc'[u] \in {"deleting", "unlinked"}
        PROVE  Registered(sessp[u])'
    <3>1. PICK x : x = sessp[u]
      OBVIOUS
    <3>2. Registered(x) /\ x \in Entries
      BY <1>0, <1>2, <1>7, <2>1, <3>1 DEF ListInv, AgentsInv, Destroying
    <3>3. Registered(x)'
      BY <1>8, <3>2
    <3> QED BY <1>5, <3>1, <3>3
  <2>2. \A u \in Destroyers : pc'[u] # "deleting"
    BY <1>5, AgentFacts DEF Critical
  <2>3. \A u \in Destroyers : pc'[u] \in Destroying => sessp'[u] \in Entries
    BY <1>0, <1>2, <1>5, <1>7 DEF ListInv, AgentsInv
  <2>4. \A u \in Destroyers \ {t} : pc[u] = "unlinked" => sessp[u] # e
    BY <1>2 DEF Members
  <2>5. \A u, v \in Destroyers :
          pc'[u] = "unlinked" /\ pc'[v] = "unlinked" /\ sessp'[u] = sessp'[v] => u = v
    BY <1>0, <1>5, <1>7, <2>4 DEF ListInv, AgentsInv
  <2>6. tmp' = tmp /\ sessp' = sessp
    BY <1>5
  <2> QED BY <1>5, <2>1, <2>2, <2>3, <2>5, <2>6 DEF ListInv, AgentsInv
<1>11. ChannelsInv'
  <2>1. \A d \in Channels : pc[SessThread(d)] = "none" => pc'[SessThread(d)] = "none"
    BY <1>1, <1>7, AgentFacts
  <2>2. pc'[Deinit] # "none" => pc[Deinit] # "none"
    BY <1>1, <1>7, AgentFacts
  <2>3. mutex' = Destroyed => pc'[Deinit] = "ended"
    BY <1>1, <1>5, <1>7, AgentFacts DEF ListInv, ChannelsInv
  <2>4. \A d \in Channels : HasSession(d)' <=> HasSession(d)
    BY <1>5 DEF HasSession
  <2> QED BY <1>5, <1>7, <2>1, <2>2, <2>3, <2>4 DEF ListInv, ChannelsInv
<1>12. Whole'
  <2>1. ASSUME NEW q \in Ring'
        PROVE  links'[q]["next"] \in Ring' /\ links'[links'[q]["next"]]["prev"] = q
    BY <1>2, <1>6, <1>9, <2>1, MemberFacts DEF RestOf
  <2>2. ASSUME NEW q \in Ring'
        PROVE  links'[q]["prev"] \in Ring' /\ links'[links'[q]["prev"]]["next"] = q
    BY <1>2, <1>6, <1>9, <2>2, MemberFacts DEF RestOf
  <2> QED BY <2>1, <2>2 DEF Whole
<1>13. RingInv'
  <2>1. \A d \in Channels : pc'[Opener(d)] # "adding"
    BY <1>5, AgentFacts DEF Critical
  <2>2. \A u \in Destroyers : pc'[u] # "deleting"
    BY <1>5, AgentFacts DEF Critical
  <2>3. \E rank \in [Cells -> Nat] : Rising(rank)'
    <3>1. PICK rank \in [Cells -> Nat] : Rising(rank)
      BY DEF ListInv, RingInv
    <3>2. Rising(rank)'
      BY <1>6, <1>9, <3>1, MemberFacts DEF Rising
    <3> QED BY <3>2
  <2>4. ASSUME NEW x \in Entries \ Members' PROVE links'[x]["next"] \notin Cells
    <3>1. \A y \in Entries \ Members : links[y]["next"] \notin Cells
      BY <1>1, OldFacts
    <3> QED BY <1>2, <1>6, <1>9, <2>4, <3>1, WriteFacts
  <2> QED BY <1>12, <2>1, <2>2, <2>3, <2>4 DEF RingInv
<1> QED BY <1>0, <1>2, <1>5, <1>6, <1>9, <1>10, <1>11, <1>13 DEF ListInv

-----------------------------------------------------------------------------
(* The steps that write no pointer.                                        *)

\* Whoever reads the next entry of one that is in the list reads one that is
\* in the list, when that one is not being removed.
LEMMA RingNext ==
  ASSUME TypeOK, ListInv
  PROVE  /\ links[ListHead]["next"] \in Ring
         /\ (\A t \in Destroyers : pc[t] # "deleting") =>
              \A p \in Ring : links[p]["next"] \in Ring
<1>1. CASE \A t \in Agents : ~Critical(t)
  BY <1>1, MemberFacts DEF ListInv, RingInv, Whole
<1>2. CASE \E c \in Channels : pc[Opener(c)] = "adding"
  <2>1. PICK c \in Channels, tail \in Ring : Inserting(c, tail)
    BY <1>2 DEF ListInv, RingInv
  <2> QED BY <2>1, MemberFacts DEF Inserting, ChainTo
<1>3. CASE \E t \in Destroyers : pc[t] = "deleting"
  <2>1. PICK t \in Destroyers : pc[t] = "deleting"
    BY <1>3
  <2>2. PICK p \in Ring, n \in Ring : Removing(t, p, n)
    BY <2>1 DEF ListInv, RingInv
  <2>3. PICK e : e = sessp[t]
    OBVIOUS
  <2>4. /\ RestOf(e, p, n) /\ e \in Ring /\ e # ListHead /\ ListHead \in Ring
        /\ links[p]["next"] \in {e, n}
    BY <2>1, <2>2, <2>3, OldFacts, MemberFacts, WriteFacts DEF Removing
  <2>5. links[ListHead]["next"] \in Ring
    BY <2>4 DEF RestOf
  <2> QED BY <1>3, <2>5
<1>4. ASSUME NEW t \in Agents, Critical(t)
      PROVE  \/ \E c \in Channels : pc[Opener(c)] = "adding"
             \/ \E u \in Destroyers : pc[u] = "deleting"
  <2>1. CASE t \in Destroyers
    BY <1>4, <2>1 DEF TypeOK, Critical, Destroying
  <2>2. CASE t \in Openers
    BY <1>4, <2>2 DEF TypeOK, Critical, Openers
  <2> QED BY <2>1, <2>2 DEF Agents
<1> QED BY <1>1, <1>2, <1>3, <1>4

\* The variables stay what they are when an agent that destroys goes on.
LEMMA MoveTypes ==
  ASSUME TypeOK, AgentsInv, NEW t \in Destroyers,
         NEW label \in {"looping", "ended"} \cup Destroying,
         pc' = [pc EXCEPT ![t] = label],
         UNCHANGED <<links, owner, addr, todo, fault>>,
         mutex' \in {mutex, Destroyed},
         sessp' \in [Destroyers -> Entries \cup {NULL}],
         tmp' \in [Destroyers -> Cells \cup {NULL}],
         ahead' \in Pointers, overlap' \in BOOLEAN
  PROVE  TypeOK'
<1>1. /\ \A u \in Agents \ {t} : pc'[u] = pc[u]
      /\ pc'[t] = label
  BY AgentFacts DEF AgentsInv
<1>2. \A u \in Openers : pc'[u] \in {"start", "created", "adding", "open", "failed"}
  BY <1>1, AgentFacts DEF TypeOK
<1>3. \A u \in Destroyers : pc'[u] \in {"none", "running", "looping", "ended"} \cup Destroying
  BY <1>1, AgentFacts DEF TypeOK
<1>4. mutex' \in Agents \cup {Unlocked, Destroyed}
  BY DEF TypeOK
<1> QED BY <1>2, <1>3, <1>4 DEF TypeOK

\* A fault leaves everything as it is; what follows it is not looked at.
LEMMA StepFault ==
  ASSUME TypeOK, ListInv, NEW what \in Faults, Fault(what)
  PROVE  TypeOK' /\ ListInv' /\ Members' = Members
<1>1. /\ UNCHANGED <<links, owner, addr, mutex, pc, tmp, sessp, todo, ahead, overlap>>
      /\ fault' \in Faults
  BY DEF Fault
<1>2. TypeOK'
  BY <1>1 DEF TypeOK
<1>3. /\ Members' = Members /\ Ring' = Ring
      /\ \A x : Registered(x)' <=> Registered(x)
      /\ \A u : Critical(u)' <=> Critical(u)
  BY <1>1 DEF Members, Ring, Registered, Allocated, Critical
<1>4. AgentsInv'
  <2>1. ASSUME NEW u \in Destroyers, pc'[u] \in {"deleting", "unlinked"}
        PROVE  Registered(sessp[u])'
    <3>1. PICK x : x = sessp[u]
      OBVIOUS
    <3>2. Registered(x)
      BY <1>1, <2>1, <3>1 DEF ListInv, AgentsInv
    <3>3. Registered(x)'
      BY <1>3, <3>2
    <3> QED BY <1>1, <3>1, <3>3
  <2> QED BY <1>1, <1>3, <2>1 DEF ListInv, AgentsInv
<1>5. ChannelsInv'
  BY <1>1 DEF ListInv, ChannelsInv, HasSession
<1>6. RingInv'
  BY <1>1, <1>3, RingKeeps DEF ListInv
<1> QED BY <1>2, <1>3, <1>4, <1>5, <1>6 DEF ListInv

\* The walk of destroy_rtsp_sess() changes nothing for anybody else.
LEMMA StepSearch ==
  ASSUME TypeOK, ListInv, NEW t \in Destroyers, Search(t)
  PROVE  TypeOK' /\ ListInv' /\ Members' = Members
<1>1. /\ pc[t] = "walking" /\ sessp[t] \in Entries /\ t \in Agents
      /\ sessp \in [Destroyers -> Entries \cup {NULL}]
      /\ pc \in [Agents -> Labels]
      /\ tmp \in [Destroyers -> Cells \cup {NULL}]
  BY AgentFacts DEF Search, ListInv, AgentsInv, Destroying
<1>2. ASSUME NEW label \in {"walking", "found", "looping", "ended"},
             pc' = [pc EXCEPT ![t] = label], tmp' \in [Destroyers -> Cells \cup {NULL}],
             UNCHANGED <<links, owner, addr, mutex, sessp, todo, ahead, overlap, fault>>
      PROVE  TypeOK' /\ ListInv' /\ Members' = Members
  <2>1. sessp' = [sessp EXCEPT ![t] = sessp[t]]
    BY <1>1, <1>2
  <2>2. label \in Labels /\ label \in {"looping", "ended"} \cup Destroying
    BY DEF Labels, Destroying
  <2>3. UNCHANGED <<links, owner, addr, todo>> /\ mutex' = mutex /\ fault' = fault
    BY <1>2
  <2>4. ListInv' /\ Members' = Members
    BY <1>1, <1>2, <2>1, <2>2, <2>3, MoveKeeps
  <2>5. sessp' \in [Destroyers -> Entries \cup {NULL}] /\ ahead' \in Pointers /\ overlap' \in BOOLEAN
    BY <1>1, <1>2 DEF TypeOK
  <2>6. TypeOK'
    BY <1>2, <2>2, <2>3, <2>5, MoveTypes DEF ListInv
  <2> QED BY <2>4, <2>6
<1>3. CASE /\ tmp[t] = sessp[t] /\ Goto(t, "found")
           /\ UNCHANGED <<links, owner, addr, mutex, tmp, sessp, todo, ahead, overlap, fault>>
  BY <1>1, <1>2, <1>3 DEF Goto
<1>4. CASE /\ tmp[t] = ListHead /\ Goto(t, AfterDestroy(t))
           /\ UNCHANGED <<links, owner, addr, mutex, tmp, sessp, todo, ahead, overlap, fault>>
  BY <1>1, <1>2, <1>4 DEF Goto, AfterDestroy
<1>5. CASE /\ links[tmp[t]]["next"] \in Cells
           /\ tmp' = [tmp EXCEPT ![t] = links[tmp[t]]["next"]]
           /\ UNCHANGED <<links, owner, addr, mutex, pc, sessp, todo, ahead, overlap, fault>>
  <2>1. pc' = [pc EXCEPT ![t] = "walking"]
    BY <1>1, <1>5
  <2>2. tmp' \in [Destroyers -> Cells \cup {NULL}]
    BY <1>1, <1>5
  <2> QED BY <1>2, <1>5, <2>1, <2>2
<1>6. CASE Fault("walk")
  BY <1>6, StepFault DEF Faults
<1> QED BY <1>3, <1>4, <1>5, <1>6 DEF Search

\* The end of a session thread.
LEMMA StepThreadEnds ==
  ASSUME TypeOK, ListInv, NEW c \in Channels, ThreadEnds(c)
  PROVE  TypeOK' /\ ListInv' /\ Members' = Members
<1> DEFINE t == SessThread(c)
<1>1. /\ pc[t] = "running" /\ t \in Destroyers /\ t # Deinit /\ addr[c] \in Entries
      /\ sessp \in [Destroyers -> Entries \cup {NULL}]
      /\ tmp \in [Destroyers -> Cells \cup {NULL}]
  BY AgentFacts DEF ThreadEnds, HasSession, ListInv, AgentsInv
<1>2. /\ sessp' = [sessp EXCEPT ![t] = addr[c]]
      /\ tmp' = [tmp EXCEPT ![t] = links[ListHead]["next"]]
      /\ pc' = [pc EXCEPT ![t] = "walking"]
      /\ UNCHANGED <<links, owner, addr, todo>> /\ mutex' = mutex
      /\ ahead' = ahead /\ fault' = fault
  BY DEF ThreadEnds, BeginDestroy, Goto
<1>3. tmp' \in [Destroyers -> Cells \cup {NULL}]
  BY <1>1, <1>2, RingNext, MemberFacts
<1>4. "walking" \in Labels /\ "walking" \in {"looping", "ended"} \cup Destroying
  BY DEF Labels, Destroying
<1> HIDE DEF t
<1>5. ListInv' /\ Members' = Members
  <2>1. {pc[t], "walking"} \cap {"adding", "deleting", "unlinked"} = {}
    BY <1>1
  <2>2. mutex' = mutex /\ ~(t = Deinit /\ pc[t] = "ended")
    BY <1>1, <1>2
  <2>3. UNCHANGED <<links, owner, addr, todo>>
    BY <1>2
  <2>4. /\ t = Deinit /\ pc[t] = "none" =>
             \A d \in Channels : pc[Opener(d)] \notin {"created", "adding"}
        /\ "walking" # "none" /\ pc[t] # "none"
    BY <1>1
  <2>5. PICK e \in Entries : e = addr[c]
    BY <1>1
  <2>6. sessp' = [sessp EXCEPT ![t] = e]
    BY <1>2, <2>5
  <2> QED BY <1>1, <1>2, <1>3, <1>4, <2>1, <2>2, <2>3, <2>4, <2>6, MoveKeeps
<1>6. /\ overlap' \in BOOLEAN /\ ahead' \in Pointers
      /\ sessp' \in [Destroyers -> Entries \cup {NULL}]
  BY <1>1, <1>2 DEF ThreadEnds, BeginDestroy, TypeOK
<1>7. TypeOK'
  BY <1>1, <1>2, <1>3, <1>4, <1>6, MoveTypes DEF ListInv
<1> QED BY <1>5, <1>7

\* deinit_rtsp_cli() begins its walk.
LEMMA StepDeinitBegins ==
  ASSUME TypeOK, ListInv, DeinitBegins
  PROVE  TypeOK' /\ ListInv' /\ Members' = Members
<1>0. PICK first : first = links[ListHead]["next"]
  OBVIOUS
<1>1. CASE Fault("walk")
  BY <1>1, StepFault DEF Faults
<1>2. CASE /\ first = ListHead \/ first \in Allocated
           /\ sessp' = [sessp EXCEPT ![Deinit] = IF first = ListHead THEN NULL ELSE first]
           /\ ahead' = links[first]["next"]
           /\ tmp' = [tmp EXCEPT ![Deinit] = links[ListHead]["next"]]
           /\ Goto(Deinit, IF first = ListHead THEN "looping" ELSE "walking")
           /\ overlap' = (overlap \/ \E t \in SessThreads : pc[t] \notin {"none", "ended"})
           /\ UNCHANGED <<links, owner, addr, mutex, todo, fault>>
  <2>1. PICK e, label :
          /\ e = IF first = ListHead THEN NULL ELSE first
          /\ label = IF first = ListHead THEN "looping" ELSE "walking"
    OBVIOUS
  <2>2. /\ first \in Cells /\ (first # ListHead => first \in Entries)
        /\ Deinit \in Destroyers /\ pc[Deinit] = "none"
        /\ \A c \in Channels : pc[Opener(c)] \notin {"created", "adding"}
        /\ sessp \in [Destroyers -> Entries \cup {NULL}]
        /\ tmp \in [Destroyers -> Cells \cup {NULL}]
        /\ first # NULL
    BY <1>0, <1>2, RingNext, MemberFacts, AgentFacts, WriteFacts
    DEF DeinitBegins, ListInv, AgentsInv
  <2>3. /\ label \in Labels /\ label \in {"looping", "ended"} \cup Destroying
        /\ {pc[Deinit], label} \cap {"adding", "deleting", "unlinked"} = {}
        /\ e \in Entries \cup {NULL}
        /\ label \in Destroying => e \in Entries
    BY <2>1, <2>2 DEF Labels, Destroying
  <2>4. /\ pc' = [pc EXCEPT ![Deinit] = label]
        /\ sessp' = [sessp EXCEPT ![Deinit] = e]
        /\ mutex' = mutex /\ ~(pc[Deinit] = "ended")
        /\ fault' = fault
    BY <1>2, <2>1, <2>2 DEF Goto
  <2>5. UNCHANGED <<links, owner, addr, todo>>
    BY <1>2
  <2>6. /\ tmp' \in [Destroyers -> Cells \cup {NULL}]
        /\ sessp' \in [Destroyers -> Entries \cup {NULL}]
        /\ ahead' \in Pointers /\ overlap' \in BOOLEAN
    BY <1>0, <1>2, <2>2, <2>3, <2>4, WriteFacts DEF TypeOK, Links
  <2>7. ListInv' /\ Members' = Members
    BY <2>2, <2>3, <2>4, <2>5, <2>6, MoveKeeps
  <2>8. TypeOK'
    BY <2>2, <2>3, <2>4, <2>5, <2>6, MoveTypes DEF ListInv
  <2> QED BY <2>7, <2>8
<1> QED BY <1>0, <1>1, <1>2 DEF DeinitBegins

\* deinit_rtsp_cli() goes to the next session, or ends.
LEMMA StepDeinitGoesOn ==
  ASSUME TypeOK, ListInv, DeinitGoesOn
  PROVE  TypeOK' /\ ListInv' /\ Members' = Members
<1>1. /\ Deinit \in Destroyers /\ pc[Deinit] = "looping"
      /\ sessp \in [Destroyers -> Entries \cup {NULL}]
      /\ tmp \in [Destroyers -> Cells \cup {NULL}]
      /\ pc[Deinit] # "ended" /\ pc[Deinit] # "none"
  BY AgentFacts DEF DeinitGoesOn, ListInv, AgentsInv
<1>2. CASE Fault("walk")
  BY <1>2, StepFault DEF Faults
<1>3. CASE /\ mutex' = Destroyed
           /\ Goto(Deinit, "ended")
           /\ UNCHANGED <<links, owner, addr, tmp, sessp, todo, ahead, overlap, fault>>
  <2>1. /\ "ended" \in Labels /\ "ended" \in {"looping", "ended"} \cup Destroying
        /\ {pc[Deinit], "ended"} \cap {"adding", "deleting", "unlinked"} = {}
        /\ "ended" \notin Destroying
    BY <1>1 DEF Labels, Destroying
  <2>2. PICK e \in Entries \cup {NULL} : e = sessp[Deinit]
    BY <1>1
  <2>3. /\ pc' = [pc EXCEPT ![Deinit] = "ended"]
        /\ sessp' = [sessp EXCEPT ![Deinit] = e]
        /\ fault' = fault /\ tmp' = tmp
        /\ ahead' \in Pointers /\ overlap' \in BOOLEAN
        /\ sessp' \in [Destroyers -> Entries \cup {NULL}]
        /\ tmp' \in [Destroyers -> Cells \cup {NULL}]
    BY <1>1, <1>3, <2>2 DEF Goto, TypeOK
  <2>4. UNCHANGED <<links, owner, addr, todo>>
    BY <1>3
  <2>5. ListInv' /\ Members' = Members
    BY <1>1, <1>3, <2>1, <2>3, <2>4, MoveKeeps
  <2>6. TypeOK'
    BY <1>1, <1>3, <2>1, <2>3, <2>4, MoveTypes DEF ListInv
  <2> QED BY <2>5, <2>6
<1>4. CASE /\ ahead \in Allocated /\ BeginDestroy(Deinit, ahead)
           /\ ahead' = links[ahead]["next"]
           /\ UNCHANGED <<links, owner, addr, mutex, todo, fault>>
  <2>1. /\ "walking" \in Labels /\ "walking" \in {"looping", "ended"} \cup Destroying
        /\ {pc[Deinit], "walking"} \cap {"adding", "deleting", "unlinked"} = {}
    BY <1>1 DEF Labels, Destroying
  <2>2. PICK e \in Entries : e = ahead
    BY <1>4 DEF Allocated
  <2>3. /\ pc' = [pc EXCEPT ![Deinit] = "walking"]
        /\ sessp' = [sessp EXCEPT ![Deinit] = e]
        /\ tmp' = [tmp EXCEPT ![Deinit] = links[ListHead]["next"]]
        /\ overlap' \in BOOLEAN
        /\ mutex' = mutex /\ fault' = fault
    BY <1>4, <2>2 DEF BeginDestroy, Goto, TypeOK
  <2>4. UNCHANGED <<links, owner, addr, todo>>
    BY <1>4
  <2>5. /\ sessp' \in [Destroyers -> Entries \cup {NULL}]
        /\ tmp' \in [Destroyers -> Cells \cup {NULL}]
        /\ ahead' \in Pointers
    <3>1. links[ListHead]["next"] \in Cells
      BY RingNext, MemberFacts
    <3>2. links[e]["next"] \in Pointers
      BY <2>2, WriteFacts DEF TypeOK, Links
    <3> QED BY <1>1, <1>4, <2>2, <2>3, <3>1, <3>2
  <2>6. ListInv' /\ Members' = Members
    BY <1>1, <2>1, <2>3, <2>4, <2>5, MoveKeeps
  <2>7. TypeOK'
    BY <1>1, <2>1, <2>3, <2>4, <2>5, MoveTypes DEF ListInv
  <2> QED BY <2>6, <2>7
<1> QED BY <1>2, <1>3, <1>4 DEF DeinitGoesOn

\* An agent writes only while it inserts or removes a session.
LEMMA WritersAreCritical ==
  ASSUME TypeOK, ListInv, NEW t \in Agents, WriteNext(t)
  PROVE  /\ t \in Destroyers => pc[t] = "deleting"
         /\ t \in Openers => pc[t] = "adding"
<1>1. todo[t] # <<>>
  BY DEF WriteNext
<1>2. Critical(t)
  BY <1>1 DEF ListInv, AgentsInv
<1> QED BY <1>2 DEF Critical, TypeOK, Destroying

\* A session comes into the list, and goes from it, with one write: the last
\* of its insertion and the last of its removal.
RegistryStep ==
  \/ Members' = Members
  \/ \E c \in Channels : EndInsert(c) /\ addr[c] \notin Members /\ Members' = Members \cup {addr[c]}
  \/ \E t \in Destroyers : EndRemove(t) /\ sessp[t] \in Members /\ Members' = Members \ {sessp[t]}

\* Every step of the library and of its users keeps the list.
LEMMA StepList == TypeOK /\ ListInv /\ [Next]_vars => TypeOK' /\ ListInv' /\ RegistryStep
<1> SUFFICES ASSUME TypeOK, ListInv, [Next]_vars PROVE TypeOK' /\ ListInv' /\ RegistryStep
  OBVIOUS
<1>1. ASSUME NEW c \in Channels, Create(c) PROVE TypeOK' /\ ListInv' /\ RegistryStep
  BY <1>1, StepCreate DEF RegistryStep
<1>2. ASSUME NEW c \in Channels, CreateFails(c) PROVE TypeOK' /\ ListInv' /\ RegistryStep
  BY <1>2, StepCreateFails DEF RegistryStep
<1>3. ASSUME NEW c \in Channels, Open(c) PROVE TypeOK' /\ ListInv' /\ RegistryStep
  <2>1. CASE BeginInsert(c)
    BY <2>1, StepBeginInsert DEF RegistryStep
  <2>2. CASE EndInsert(c)
    <3>1. addr[c] \notin Members
      BY <2>2, NewFacts DEF EndInsert, Ring
    <3> QED BY <2>2, <3>1, StepEndInsert DEF RegistryStep
  <2>3. CASE WriteNext(Opener(c))
    <3>1. pc[Opener(c)] = "adding"
      BY <2>3, AgentFacts, WritersAreCritical
    <3> QED BY <2>3, <3>1, StepInserting DEF RegistryStep
  <2> QED BY <1>3, <2>1, <2>2, <2>3 DEF Open
<1>4. ASSUME NEW c \in Channels, ThreadEnds(c) PROVE TypeOK' /\ ListInv' /\ RegistryStep
  BY <1>4, StepThreadEnds DEF RegistryStep
<1>5. ASSUME NEW c \in Channels, ThreadRunsOn(c) \/ UseStaleId(c) PROVE TypeOK' /\ ListInv' /\ RegistryStep
  BY <1>5, StepFault DEF RegistryStep, ThreadRunsOn, UseStaleId, Faults
<1>6. ASSUME fault = "none", NEW t \in Destroyers, Destroy(t) PROVE TypeOK' /\ ListInv' /\ RegistryStep
  <2>1. CASE Search(t)
    BY <2>1, StepSearch DEF RegistryStep
  <2>2. CASE BeginRemove(t)
    <3>1. CASE fault' = "none"
      BY <2>2, <3>1, StepBeginRemove DEF RegistryStep
    <3>2. CASE fault' # "none"
      <4>1. \E what \in {"list", "lock"} : Fault(what)
        BY <1>6, <2>2, <3>2 DEF BeginRemove
      <4> QED BY <4>1, StepFault DEF RegistryStep, Faults
    <3> QED BY <3>1, <3>2
  <2>3. CASE EndRemove(t)
    <3>1. PICK p \in Ring, n \in Ring : Removing(t, p, n)
      BY <2>3 DEF EndRemove, ListInv, RingInv
    <3>2. sessp[t] \in Members
      BY <2>3, OldFacts DEF EndRemove
    <3> QED BY <2>3, <3>1, <3>2, StepEndRemove DEF RegistryStep
  <2>4. CASE Free(t)
    BY <2>4, StepFree DEF RegistryStep
  <2>5. CASE WriteNext(t)
    <3>1. pc[t] = "deleting"
      BY <2>5, AgentFacts, WritersAreCritical
    <3>2. PICK p \in Ring, n \in Ring : Removing(t, p, n)
      BY <3>1 DEF ListInv, RingInv
    <3> QED BY <2>5, <3>1, <3>2, StepRemoving DEF RegistryStep
  <2> QED BY <1>6, <2>1, <2>2, <2>3, <2>4, <2>5 DEF Destroy
<1>7. ASSUME DeinitBegins \/ DeinitGoesOn PROVE TypeOK' /\ ListInv' /\ RegistryStep
  BY <1>7, StepDeinitBegins, StepDeinitGoesOn DEF RegistryStep
<1>8. ASSUME UNCHANGED vars PROVE TypeOK' /\ ListInv' /\ RegistryStep
  <2>1. Fault(fault) /\ fault \in Faults
    BY <1>8 DEF vars, Fault, TypeOK
  <2> QED BY <2>1, StepFault DEF RegistryStep
<1> QED BY <1>1, <1>2, <1>3, <1>4, <1>5, <1>6, <1>7, <1>8 DEF Next

-----------------------------------------------------------------------------
(* What a walk meets.                                                      *)

\* Those that a walk reaches: list_del() has led the pointers past a session
\* with its second write, when two are left.
Passed(e) == \E t \in Destroyers : pc[t] = "deleting" /\ sessp[t] = e /\ Len(todo[t]) \in {1, 2}
Reached == {e \in Members : ~Passed(e)}

Listing == Walk(links, "next")

\* A walk that nobody disturbs meets all of them, each once, and comes round;
\* no other sequence does.
ListingInv ==
  /\ Listing \in Seq(Reached) /\ Len(Listing) \in Nat /\ Round(links, "next", Listing)
  /\ \A i \in 1 .. Len(Listing) : Listing[i] \in Reached
  /\ \A i, j \in 1 .. Len(Listing) : i # j => Listing[i] # Listing[j]
  /\ \A e \in Reached : \E i \in 1 .. Len(Listing) : Listing[i] = e
  /\ \A s \in Seq(Entries) : Round(links, "next", s) => Listing = s

\* The pointers of what a walk reaches lead to what it reaches, and from there.
LEMMA ReachedLeads ==
  ASSUME TypeOK, ListInv
  PROVE  /\ Reached \in SUBSET Entries /\ Reached \subseteq Members
         /\ \A p \in Reached \cup {ListHead} : links[p]["next"] \in Reached \cup {ListHead}
         /\ \A q \in Reached : \E p \in Reached \cup {ListHead} : links[p]["next"] = q
<1>1. Reached \in SUBSET Entries /\ Reached \subseteq Members
  BY DEF Reached, Members
<1>2. (\A t \in Destroyers : pc[t] # "deleting") => Reached = Members
  BY DEF Reached, Passed
<1>3. CASE \A t \in Agents : ~Critical(t)
  <2>1. Reached = Members /\ Whole
    BY <1>2, <1>3, AgentFacts DEF Critical, ListInv, RingInv
  <2> QED BY <1>1, <2>1 DEF Whole, Ring
<1>4. ASSUME NEW c \in Channels, pc[Opener(c)] = "adding"
      PROVE  /\ \A p \in Reached \cup {ListHead} : links[p]["next"] \in Reached \cup {ListHead}
             /\ \A q \in Reached : \E p \in Reached \cup {ListHead} : links[p]["next"] = q
  <2>1. Reached = Members /\ ListHead \notin Members
    BY <1>2, <1>4, NewFacts, MemberFacts
  <2>2. PICK tail \in Ring : ChainTo(tail)
    BY <1>4 DEF ListInv, RingInv, Inserting
  <2> QED BY <2>1, <2>2 DEF ChainTo, Ring
<1>5. ASSUME NEW t \in Destroyers, pc[t] = "deleting"
      PROVE  /\ \A p \in Reached \cup {ListHead} : links[p]["next"] \in Reached \cup {ListHead}
             /\ \A q \in Reached : \E p \in Reached \cup {ListHead} : links[p]["next"] = q
  <2>1. PICK p \in Ring, n \in Ring : Removing(t, p, n)
    BY <1>5 DEF ListInv, RingInv
  <2>2. PICK e, k : e = sessp[t] /\ k = Len(todo[t])
    OBVIOUS
  <2>3. e \in Ring /\ e # ListHead /\ e \notin {p, n} /\ ListHead \in Ring
    BY <1>5, <2>1, <2>2, OldFacts, MemberFacts DEF Removing
  <2>4. /\ links[p]["next"] = IF k \in {3, 4} THEN e ELSE n
        /\ k \in {3, 4} => links[e]["next"] = n
        /\ RestOf(e, p, n)
    BY <2>1, <2>2 DEF Removing
  <2>5. k \in {1, 2, 3, 4}
    <3>1. todo[t] \in {<<Write(n, "prev", p), Write(p, "next", n),
                         Write(e, "next", LIST_POISON), Write(e, "prev", LIST_POISON)>>,
                       <<Write(p, "next", n), Write(e, "next", LIST_POISON),
                         Write(e, "prev", LIST_POISON)>>,
                       <<Write(e, "next", LIST_POISON), Write(e, "prev", LIST_POISON)>>,
                       <<Write(e, "prev", LIST_POISON)>>}
      BY <2>1, <2>2 DEF Removing
    <3> QED BY <2>2, <3>1
  <2>6. \A u \in Destroyers : pc[u] = "deleting" => u = t
    BY <1>5, OldFacts
  <2>7. Reached \cup {ListHead} = IF k \in {1, 2} THEN Ring \ {e} ELSE Ring
    BY <1>5, <2>2, <2>3, <2>6 DEF Reached, Passed, Ring
  <2>8. \A q \in Reached : q \in Ring /\ q # ListHead
    BY <1>1, MemberFacts DEF Ring
  <2>9. ASSUME NEW x \in Reached \cup {ListHead}
        PROVE  links[x]["next"] \in Reached \cup {ListHead}
    <3>1. x \in Ring /\ (k \in {1, 2} => x # e)
      BY <2>7
    <3>2. CASE x \notin {p, e}
      <4>1. links[x]["next"] \in Ring \ {e}
        BY <2>4, <3>1, <3>2 DEF RestOf
      <4> QED BY <2>7, <4>1
    <3>3. CASE x = e
      BY <2>1, <2>3, <2>4, <2>5, <2>7, <3>1, <3>3
    <3>4. CASE x = p
      BY <2>1, <2>3, <2>4, <2>5, <2>7, <3>4
    <3> QED BY <3>2, <3>3, <3>4
  <2>10. ASSUME NEW q \in Reached
         PROVE  \E x \in Reached \cup {ListHead} : links[x]["next"] = q
    <3>1. q \in Ring /\ (k \in {1, 2} => q # e)
      BY <2>7, <2>8
    <3>2. CASE q \notin {n, e}
      <4>1. links[q]["prev"] \in Ring \ {e} /\ links[links[q]["prev"]]["next"] = q
        BY <2>4, <3>1, <3>2 DEF RestOf
      <4> QED BY <2>7, <4>1
    <3>3. CASE q = e
      BY <2>1, <2>3, <2>4, <2>5, <2>7, <3>1, <3>3
    <3>4. CASE q = n
      BY <2>1, <2>3, <2>4, <2>5, <2>7, <3>4
    <3> QED BY <3>2, <3>3, <3>4
  <2> QED BY <2>9, <2>10
<1>6. (\A t \in Agents : ~Critical(t)) \/ (\E c \in Channels : pc[Opener(c)] = "adding")
        \/ (\E t \in Destroyers : pc[t] = "deleting")
  <2> SUFFICES ASSUME NEW t \in Agents, Critical(t)
               PROVE  \/ \E c \in Channels : pc[Opener(c)] = "adding"
                      \/ \E u \in Destroyers : pc[u] = "deleting"
    OBVIOUS
  <2> QED BY AgentFacts DEF Critical, TypeOK, Destroying
<1> QED BY <1>1, <1>3, <1>4, <1>5, <1>6

\* They are what a walk meets.
LEMMA WalksMeetReached == TypeOK /\ ListInv => ListingInv
<1> SUFFICES ASSUME TypeOK, ListInv PROVE ListingInv
  OBVIOUS
<1>1. PICK rank \in [Cells -> Nat] : Rising(rank)
  BY DEF ListInv, RingInv
<1>2. /\ Reached \in SUBSET Entries /\ Reached \subseteq Members
      /\ \A p \in Reached \cup {ListHead} : links[p]["next"] \in Reached \cup {ListHead}
      /\ \A q \in Reached : \E p \in Reached \cup {ListHead} : links[p]["next"] = q
  BY ReachedLeads
<1>3. Climbs(links, "next", Reached, rank)
  BY <1>1, <1>2 DEF Climbs, Rising, Ring
<1>4. /\ Listing \in Seq(Reached) /\ Round(links, "next", Listing)
      /\ Len(Listing) \in Nat
      /\ \A i \in 1 .. Len(Listing) : Listing[i] \in Reached
      /\ \A i, j \in 1 .. Len(Listing) : i # j => Listing[i] # Listing[j]
      /\ \A s \in Seq(Entries) : Round(links, "next", s) => Listing = s
  BY <1>2, <1>3, WalkFacts DEF Listing
<1>5. \A q \in Reached : \E i \in 1 .. Len(Listing) : Listing[i] = q
  <2>1. AllLedTo(links, "next", Reached)
    BY <1>2 DEF AllLedTo
  <2>2. \A q \in Reached : \E i \in 1 .. Len(Walk(links, "next")) : Walk(links, "next")[i] = q
    BY <1>2, <1>3, <2>1, WalkMeetsAll
  <2> QED BY <2>2 DEF Listing
<1> QED BY <1>4, <1>5 DEF ListingInv

-----------------------------------------------------------------------------
(* The registry that the list implements.                                  *)

Gone == {c \in Channels : pc[Opener(c)] = "open"} \ ToSet(ListedChannels)

\* The channels in the list are those of the sessions that a walk meets, and
\* are different ones.
LEMMA ListedFacts ==
  ASSUME TypeOK, ListInv
  PROVE  /\ Listing \in Seq(Reached) /\ Listing \in Seq(Entries) /\ Len(Listing) \in Nat
         /\ ListedChannels \in Seq(Channels) /\ Len(ListedChannels) = Len(Listing)
         /\ \A i \in 1 .. Len(Listing) :
              /\ Listing[i] \in Reached /\ Listing[i] \in Entries
              /\ ListedChannels[i] = owner[Listing[i]] /\ ListedChannels[i] \in Channels
              /\ addr[ListedChannels[i]] = Listing[i]
              /\ pc[Opener(ListedChannels[i])] = "open"
         /\ ToSet(ListedChannels) = {ListedChannels[i] : i \in 1 .. Len(Listing)}
<1>1. /\ Listing \in Seq(Reached) /\ Len(Listing) \in Nat
      /\ \A i \in 1 .. Len(Listing) : Listing[i] \in Reached
  BY WalksMeetReached DEF ListingInv
<1>2. Listing \in [1 .. Len(Listing) -> Reached] /\ DOMAIN Listing = 1 .. Len(Listing)
  BY <1>1, LenProperties
<1>3. Listing \in Seq(Entries)
  BY <1>1, <1>2, ReachedLeads
<1>4. \A e \in Reached : /\ e \in Entries /\ owner[e] \in Channels /\ addr[owner[e]] = e
                         /\ pc[Opener(owner[e])] = "open"
  BY ReachedLeads, MemberFacts DEF Members, Registered
<1>5. ListedChannels = [i \in 1 .. Len(Listing) |-> owner[Listing[i]]]
  <2>1. ListedChannels = [i \in DOMAIN Listing |-> owner[Listing[i]]]
    BY DEF ListedChannels, Listing
  <2> QED BY <1>2, <2>1
<1> HIDE DEF Listing, ListedChannels
<1>6. ListedChannels \in Seq(Channels) /\ Len(ListedChannels) = Len(Listing)
  BY <1>1, <1>4, <1>5
<1>7. \A i \in 1 .. Len(Listing) : ListedChannels[i] = owner[Listing[i]]
  BY <1>5
<1>8. ToSet(ListedChannels) = {ListedChannels[i] : i \in 1 .. Len(Listing)}
  BY <1>5 DEF ToSet
<1> QED BY <1>1, <1>3, <1>4, <1>6, <1>7, <1>8

\* Steps that leave the pointers of the list as they are.
LEMMA ListingKept ==
  ASSUME TypeOK, ListInv, ListingInv',
         \A p \in Reached \cup {ListHead} : links'[p]["next"] = links[p]["next"],
         \A e \in Members : owner'[e] = owner[e],
         \A c \in Channels : pc'[Opener(c)] = "open" <=> pc[Opener(c)] = "open"
  PROVE  ListedChannels' = ListedChannels /\ Gone' = Gone
<1>1. PICK s : s = Listing
  OBVIOUS
<1>2. /\ s \in Seq(Entries) /\ s \in Seq(Reached) /\ Len(s) \in Nat /\ Round(links, "next", s)
      /\ DOMAIN s = 1 .. Len(s) /\ \A i \in DOMAIN s : s[i] \in Members
  BY <1>1, ListedFacts, LenProperties, WalksMeetReached, ReachedLeads DEF ListingInv
<1>3. \A i \in 0 .. Len(s) : Spot(s, i) \in Reached \cup {ListHead}
  BY <1>2, SpotFacts
<1>4. Round(links', "next", s)
  BY <1>2, <1>3 DEF Round, Leads
<1>5. Listing' = s
  BY <1>2, <1>4 DEF ListingInv
<1>6. /\ ListedChannels = [i \in DOMAIN s |-> owner[s[i]]]
      /\ ListedChannels' = [i \in DOMAIN s |-> owner'[s[i]]]
  BY <1>1, <1>5 DEF ListedChannels, Listing
<1>7. ListedChannels' = ListedChannels
  BY <1>2, <1>6
<1>8. {c \in Channels : pc'[Opener(c)] = "open"} = {c \in Channels : pc[Opener(c)] = "open"}
  OBVIOUS
<1> QED BY <1>7, <1>8 DEF Gone

\* The last write of an insertion registers the channel.
LEMMA InsertRegisters ==
  ASSUME TypeOK, ListInv, NEW c \in Channels, EndInsert(c), ListingInv'
  PROVE  Registry!Register(c)
<1>1. PICK e, s : e = addr[c] /\ s = Listing
  OBVIOUS
<1>2. pc[Opener(c)] = "adding"
  BY DEF EndInsert
<1>3. /\ UNCHANGED owner /\ pc'[Opener(c)] = "open"
      /\ \A u \in Agents \ {Opener(c)} : pc'[u] = pc[u]
      /\ links[e]["next"] = ListHead
  BY <1>1, StepEndInsert
<1>4. PICK tail \in Ring :
        /\ links[tail]["next"] = ListHead
        /\ \A x \in Cells : links'[x]["next"] = IF x = tail THEN e ELSE links[x]["next"]
  BY <1>1, StepEndInsert
<1>5. e \in Entries /\ e \in Cells /\ e \notin Ring /\ owner[e] = c
  BY <1>1, <1>2, NewFacts
<1>6. /\ s \in Seq(Entries) /\ Len(s) \in Nat /\ Round(links, "next", s)
      /\ \A i \in 1 .. Len(s) : s[i] \in Reached
      /\ \A x \in Reached : \E i \in 1 .. Len(s) : s[i] = x
  BY <1>1, ListedFacts, WalksMeetReached DEF ListingInv
<1>7. /\ \A i \in 0 .. Len(s) : links[Spot(s, i)]["next"] = Spot(s, i + 1)
      /\ Spot(s, 0) = ListHead
      /\ \A i \in 1 .. Len(s) : Spot(s, i) = s[i]
      /\ \A i \in 0 .. Len(s) : Spot(s, i) \in Ring /\ Spot(s, i) \in Cells
  BY <1>6, SpotFacts, ReachedLeads, MemberFacts DEF Round, Leads, Ring
<1>8. \A u \in Destroyers : pc[u] # "deleting"
  BY <1>2, NewFacts
<1>9. \E i \in 0 .. Len(s) : Spot(s, i) = tail
  <2>1. CASE tail = ListHead
    <3>1. 0 \in 0 .. Len(s)
      BY <1>6
    <3> QED BY <1>7, <2>1, <3>1
  <2>2. CASE tail # ListHead
    <3>1. tail \in Reached
      BY <1>8, <2>2 DEF Ring, Reached, Passed
    <3>2. PICK i \in 1 .. Len(s) : s[i] = tail
      BY <1>6, <3>1
    <3>3. i \in 0 .. Len(s)
      OBVIOUS
    <3> QED BY <1>7, <3>2, <3>3
  <2> QED BY <2>1, <2>2
<1>10. Spot(s, Len(s)) = tail /\ \A i \in 0 .. Len(s) - 1 : Spot(s, i) # tail
  <2>1. \A i \in 1 .. Len(s) : Spot(s, i) # ListHead
    BY <1>6, <1>7, ReachedLeads, WriteFacts
  <2>2. \A i \in 0 .. Len(s) - 1 : i \in 0 .. Len(s) /\ Spot(s, i + 1) # ListHead
    BY <1>6, <2>1
  <2>3. \A i \in 0 .. Len(s) - 1 : Spot(s, i) # tail
    BY <1>4, <1>7, <2>2
  <2>4. \A i \in 0 .. Len(s) : i = Len(s) \/ i \in 0 .. Len(s) - 1
    BY <1>6
  <2> QED BY <1>9, <2>3, <2>4
<1>11. Append(s, e) \in Seq(Entries) /\ Round(links', "next", Append(s, e))
  <2>1. links'[e]["next"] = ListHead
    BY <1>3, <1>4, <1>5
  <2>2. links'[Spot(s, Len(s))]["next"] = e
    BY <1>4, <1>10, MemberFacts
  <2>3. SameAt(links, links', "next", s, 0 .. Len(s) - 1)
    <3> SUFFICES ASSUME NEW i \in 0 .. Len(s) - 1
                 PROVE  links'[Spot(s, i)]["next"] = links[Spot(s, i)]["next"]
      BY DEF SameAt
    <3>1. Spot(s, i) \in Cells /\ Spot(s, i) # tail
      BY <1>6, <1>7, <1>10
    <3> QED BY <1>4, <3>1
  <2> QED BY <1>5, <1>6, <2>1, <2>2, <2>3, RoundAppend
<1>12. Listing' = Append(s, e)
  BY <1>11 DEF ListingInv
<1> DEFINE n == Len(s)
           r == ListedChannels
<1>13. /\ r \in Seq(Channels) /\ Len(r) = n
       /\ \A i \in 1 .. n : r[i] = owner[s[i]] /\ pc[Opener(r[i])] = "open"
       /\ ToSet(r) = {r[i] : i \in 1 .. n}
  BY <1>1, ListedFacts
<1>14. ListedChannels' = Append(r, c)
  <2>1. /\ Append(s, e) \in Seq(Entries) /\ Len(Append(s, e)) = n + 1
        /\ Append(s, e)[n + 1] = e /\ \A i \in 1 .. n : Append(s, e)[i] = s[i]
        /\ DOMAIN Append(s, e) = 1 .. n + 1
    BY <1>5, <1>6, AppendProperties, LenProperties
  <2>2. ListedChannels' = [i \in 1 .. n + 1 |-> owner[Append(s, e)[i]]]
    BY <1>3, <1>12, <2>1 DEF ListedChannels, Listing
  <2>3. \A i \in 1 .. n + 1 : owner[Append(s, e)[i]] = IF i = n + 1 THEN c ELSE r[i]
    <3>1. \A i \in 1 .. n + 1 : i = n + 1 \/ i \in 1 .. n
      BY <1>6
    <3> QED BY <1>5, <1>13, <2>1, <3>1
  <2>4. ListedChannels' = [i \in 1 .. n + 1 |-> IF i = n + 1 THEN c ELSE r[i]]
    BY <2>2, <2>3
  <2> DEFINE a == Append(r, c)
             b == [i \in 1 .. n + 1 |-> IF i = n + 1 THEN c ELSE r[i]]
  <2>5. /\ a \in Seq(Channels) /\ Len(a) = n + 1 /\ a[n + 1] = c
        /\ \A i \in 1 .. n : a[i] = r[i]
    BY <1>13, AppendProperties
  <2>6. /\ b \in Seq(Channels) /\ Len(b) = n + 1
        /\ \A i \in 1 .. n + 1 : b[i] = IF i = n + 1 THEN c ELSE r[i]
    <3>1. \A i \in 1 .. n : r[i] \in Channels
      BY <1>13, ElementOfSeq
    <3>2. n + 1 \in Nat
      BY <1>6
    <3>3. \A i \in 1 .. n + 1 : i = n + 1 \/ i \in 1 .. n
      BY <1>6
    <3> HIDE DEF n, r
    <3> QED BY <3>1, <3>2, <3>3
  <2> HIDE DEF a, b
  <2>7. \A i \in 1 .. n + 1 : a[i] = b[i]
    <3>1. \A i \in 1 .. n + 1 : i = n + 1 \/ i \in 1 .. n
      BY <1>6
    <3> QED BY <2>5, <2>6, <3>1
  <2>8. a = b
    BY <2>5, <2>6, <2>7, SeqEqual
  <2> QED BY <2>4, <2>8 DEF a, b
<1>15. c \notin ToSet(r) /\ c \notin Gone
  BY <1>2, <1>13 DEF Gone
<1>16. ToSet(Append(r, c)) = ToSet(r) \cup {c}
  <2> DEFINE a == Append(r, c)
  <2>1. /\ DOMAIN a = 1 .. n + 1 /\ a[n + 1] = c
        /\ \A i \in 1 .. n : a[i] = r[i]
    BY <1>13, AppendProperties, LenProperties
  <2>2. /\ \A i \in 1 .. n + 1 : i = n + 1 \/ i \in 1 .. n
        /\ n + 1 \in 1 .. n + 1 /\ \A i \in 1 .. n : i \in 1 .. n + 1
    BY <1>6
  <2> HIDE DEF a, r, n
  <2>3. ToSet(a) = {a[i] : i \in 1 .. n + 1}
    BY <2>1 DEF ToSet
  <2> QED BY <1>13, <2>1, <2>2, <2>3 DEF a
<1>17. {d \in Channels : pc'[Opener(d)] = "open"} = {d \in Channels : pc[Opener(d)] = "open"} \cup {c}
  BY <1>3, AgentFacts
<1>18. Gone' = Gone
  BY <1>14, <1>15, <1>16, <1>17 DEF Gone
<1> HIDE DEF n, r
<1>19. c \notin ToSet(ListedChannels) \cup Gone /\ ListedChannels' = Append(ListedChannels, c)
  BY <1>14, <1>15 DEF r
<1>20. Registry!ToSet(ListedChannels) = ToSet(ListedChannels)
  BY DEF ToSet, Registry!ToSet
<1> QED BY <1>18, <1>19, <1>20 DEF Registry!Register, Gone

\* The second write of a removal takes the channel out.
LEMMA RemovalLeaves ==
  ASSUME TypeOK, ListInv, NEW t \in Destroyers, pc[t] = "deleting", WriteNext(t),
         Len(todo[t]) = 3, ListingInv'
  PROVE  \E c \in Channels : Registry!Leave(c)
<1>1. PICK e, s : e = sessp[t] /\ s = Listing
  OBVIOUS
<1>2. PICK p \in Ring, n \in Ring : Removing(t, p, n)
  BY DEF ListInv, RingInv
<1>3. /\ UNCHANGED <<owner, pc>>
      /\ \A x \in Cells : links'[x]["next"] = IF x = p THEN n ELSE links[x]["next"]
  BY <1>2, StepRemoving
<1>4. /\ e \in Members /\ e \in Entries /\ e \notin {p, n} /\ p \in Cells
      /\ links[p]["next"] = e /\ links[e]["next"] = n
      /\ \A q \in Ring \ {p, e} : links[q]["next"] \in Ring \ {e}
  BY <1>1, <1>2, OldFacts, MemberFacts DEF Removing, RestOf
<1>5. e \in Reached
  BY <1>1, <1>4, OldFacts DEF Reached, Passed
<1>6. /\ s \in Seq(Entries) /\ Len(s) \in Nat /\ Round(links, "next", s)
      /\ \A i \in 1 .. Len(s) : s[i] \in Reached
      /\ \A i, j \in 1 .. Len(s) : i # j => s[i] # s[j]
      /\ \A x \in Reached : \E i \in 1 .. Len(s) : s[i] = x
  BY <1>1, ListedFacts, WalksMeetReached DEF ListingInv
<1>7. /\ \A i \in 0 .. Len(s) : links[Spot(s, i)]["next"] = Spot(s, i + 1)
      /\ Spot(s, 0) = ListHead
      /\ \A i \in 1 .. Len(s) : Spot(s, i) = s[i]
      /\ \A i \in 0 .. Len(s) : Spot(s, i) \in Ring /\ Spot(s, i) \in Cells
  BY <1>6, SpotFacts, ReachedLeads, MemberFacts DEF Round, Leads, Ring
<1>8. PICK k \in 1 .. Len(s) : s[k] = e
  BY <1>5, <1>6
<1>9. /\ k \in 0 .. Len(s) /\ k - 1 \in 0 .. Len(s) /\ (k - 1) + 1 = k
      /\ Spot(s, k) = e /\ Spot(s, k + 1) = n
  <2>1. k \in 0 .. Len(s) /\ k - 1 \in 0 .. Len(s) /\ (k - 1) + 1 = k
    BY <1>6
  <2> QED BY <1>4, <1>7, <1>8, <2>1
<1>10. \A i \in (0 .. Len(s)) \ {k - 1, k} : Spot(s, i) # p
  <2> SUFFICES ASSUME NEW i \in (0 .. Len(s)) \ {k - 1, k}, Spot(s, i) = p PROVE FALSE
    OBVIOUS
  <2>1. Spot(s, i + 1) = e /\ e # ListHead
    BY <1>4, <1>7, WriteFacts
  <2>2. i + 1 \in 1 .. Len(s)
    BY <1>6, <2>1 DEF Spot
  <2>3. s[i + 1] = s[k] /\ i + 1 # k
    BY <1>7, <1>8, <2>1, <2>2
  <2> QED BY <1>6, <2>2, <2>3
<1>11. Spot(s, k - 1) = p
  <2>1. Spot(s, k - 1) \in Ring /\ links[Spot(s, k - 1)]["next"] = e
    BY <1>7, <1>9
  <2>2. Spot(s, k - 1) # e
    <3>1. CASE k = 1
      BY <1>4, <1>7, <3>1, WriteFacts
    <3>2. CASE k # 1
      <4>1. k - 1 \in 1 .. Len(s) /\ k - 1 # k
        BY <1>6, <3>2
      <4> QED BY <1>6, <1>7, <1>8, <4>1
    <3> QED BY <3>1, <3>2
  <2> QED BY <1>4, <2>1, <2>2
<1>12. Without(s, k) \in Seq(Entries) /\ Round(links', "next", Without(s, k))
  <2>1. links'[Spot(s, k - 1)]["next"] = Spot(s, k + 1)
    BY <1>3, <1>4, <1>9, <1>11
  <2>2. SameAt(links, links', "next", s, (0 .. Len(s)) \ {k - 1, k})
    <3> SUFFICES ASSUME NEW i \in (0 .. Len(s)) \ {k - 1, k}
                 PROVE  links'[Spot(s, i)]["next"] = links[Spot(s, i)]["next"]
      BY DEF SameAt
    <3>1. Spot(s, i) \in Cells /\ Spot(s, i) # p
      BY <1>7, <1>10
    <3> QED BY <1>3, <3>1
  <2> QED BY <1>6, <2>1, <2>2, RoundWithout
<1>13. Listing' = Without(s, k)
  BY <1>12 DEF ListingInv
<1> DEFINE m == Len(s)
           r == ListedChannels
<1>14. PICK c : c = r[k]
  OBVIOUS
<1>15. /\ r \in Seq(Channels) /\ Len(r) = m
       /\ \A i \in 1 .. m : r[i] = owner[s[i]] /\ addr[r[i]] = s[i] /\ r[i] \in Channels
       /\ ToSet(r) = {r[i] : i \in 1 .. m}
       /\ c \in Channels /\ pc[Opener(c)] = "open"
  BY <1>1, <1>14, ListedFacts
<1>16. \A i \in 1 .. m : i # k => r[i] # c
  BY <1>6, <1>14, <1>15
<1>17. /\ Without(r, k) \in Seq(Channels) /\ Len(Without(r, k)) = m - 1
       /\ \A i \in 1 .. m - 1 : Without(r, k)[i] = IF i < k THEN r[i] ELSE r[i + 1]
  <2>1. r \in Seq(Channels) /\ Len(r) = m /\ k \in 1 .. Len(r)
    BY <1>15
  <2> HIDE DEF r, m
  <2>2. /\ Without(r, k) \in Seq(Channels) /\ Len(Without(r, k)) = Len(r) - 1
        /\ \A i \in 1 .. Len(r) - 1 : Without(r, k)[i] = IF i < k THEN r[i] ELSE r[i + 1]
    BY <2>1, WithoutFacts
  <2> QED BY <2>1, <2>2
<1>18. /\ Without(s, k) \in Seq(Entries) /\ Len(Without(s, k)) = m - 1
       /\ \A i \in 1 .. m - 1 : Without(s, k)[i] = IF i < k THEN s[i] ELSE s[i + 1]
  <2>1. s \in Seq(Entries)
    BY <1>6
  <2>2. /\ Without(s, k) \in Seq(Entries) /\ Len(Without(s, k)) = Len(s) - 1
        /\ \A i \in 1 .. Len(s) - 1 : Without(s, k)[i] = IF i < k THEN s[i] ELSE s[i + 1]
    BY <2>1, WithoutFacts
  <2> QED BY <2>2
<1>19. \A i \in 1 .. m - 1 : i \in 1 .. m /\ i + 1 \in 1 .. m
  BY <1>6
<1>20. DOMAIN Without(s, k) = 1 .. m - 1 /\ DOMAIN Without(r, k) = 1 .. m - 1
  BY <1>17, <1>18, LenProperties
<1>21. ListedChannels' = Without(r, k)
  <2> DEFINE w == Without(r, k)
             b == [i \in 1 .. m - 1 |-> owner[Without(s, k)[i]]]
  <2>1. ListedChannels' = b
    BY <1>3, <1>13, <1>20 DEF ListedChannels, Listing
  <2>2. \A i \in 1 .. m - 1 : owner[Without(s, k)[i]] = Without(r, k)[i]
    <3> SUFFICES ASSUME NEW i \in 1 .. m - 1 PROVE owner[Without(s, k)[i]] = Without(r, k)[i]
      OBVIOUS
    <3>1. CASE i < k
      BY <1>15, <1>17, <1>18, <1>19, <3>1
    <3>2. CASE ~(i < k)
      BY <1>15, <1>17, <1>18, <1>19, <3>2
    <3> QED BY <3>1, <3>2
  <2>3. w = [i \in 1 .. m - 1 |-> w[i]]
    BY <1>17, <1>20, LenProperties
  <2>4. b = [i \in 1 .. m - 1 |-> w[i]]
    BY <2>2
  <2> QED BY <2>1, <2>3, <2>4
<1>22. ToSet(Without(r, k)) = ToSet(r) \ {c}
  <2>0. DEFINE w == Without(r, k)
  <2>1. ToSet(w) = {w[i] : i \in 1 .. m - 1}
    BY <1>20 DEF ToSet
  <2>2. \A i \in 1 .. m - 1 : w[i] \in ToSet(r) /\ w[i] # c
    <3> SUFFICES ASSUME NEW i \in 1 .. m - 1 PROVE w[i] \in ToSet(r) /\ w[i] # c
      OBVIOUS
    <3>1. CASE i < k
      <4>1. w[i] = r[i] /\ i \in 1 .. m /\ i # k
        BY <1>17, <1>19, <3>1
      <4> HIDE DEF w
      <4> QED BY <1>15, <1>16, <4>1
    <3>2. CASE ~(i < k)
      <4>1. w[i] = r[i + 1] /\ i + 1 \in 1 .. m /\ i + 1 # k
        BY <1>17, <1>19, <3>2
      <4> HIDE DEF w
      <4> QED BY <1>15, <1>16, <4>1
    <3> QED BY <3>1, <3>2
  <2>3. ASSUME NEW d \in ToSet(r), d # c PROVE \E i \in 1 .. m - 1 : w[i] = d
    <3>1. PICK j \in 1 .. m : r[j] = d
      BY <1>15
    <3>2. j # k
      BY <1>14, <2>3, <3>1
    <3>3. CASE j < k
      <4>1. j \in 1 .. m - 1 /\ w[j] = r[j]
        BY <1>6, <1>17, <3>3
      <4> QED BY <3>1, <4>1
    <3>4. CASE ~(j < k)
      <4>1. j - 1 \in 1 .. m - 1 /\ ~(j - 1 < k) /\ (j - 1) + 1 = j
        BY <1>6, <3>2, <3>4
      <4>2. w[j - 1] = r[j]
        BY <1>17, <4>1
      <4> QED BY <3>1, <4>1, <4>2
    <3> QED BY <3>3, <3>4
  <2> HIDE DEF w
  <2>4. ToSet(w) = ToSet(r) \ {c}
    BY <2>1, <2>2, <2>3
  <2> QED BY <2>4 DEF w
<1>23. Gone' = Gone \cup {c}
  <2>1. {d \in Channels : pc'[Opener(d)] = "open"} = {d \in Channels : pc[Opener(d)] = "open"}
    BY <1>3
  <2>2. Gone' = {d \in Channels : pc[Opener(d)] = "open"} \ (ToSet(r) \ {c})
    BY <1>21, <1>22, <2>1 DEF Gone
  <2> HIDE DEF r
  <2>3. c \in {d \in Channels : pc[Opener(d)] = "open"}
    BY <1>15
  <2> QED BY <2>2, <2>3 DEF Gone, r
<1>24. Without(r, k) = Registry!RemoveAt(ListedChannels, k)
  BY DEF Without, Registry!RemoveAt
<1>25. k \in 1 .. Len(ListedChannels) /\ ListedChannels[k] = c
  BY <1>14, <1>15
<1>26. Registry!Leave(c)
  <2> HIDE DEF r
  <2>1. /\ ListedChannels' = Registry!RemoveAt(ListedChannels, k)
        /\ Gone' = Gone \cup {c}
    BY <1>21, <1>23, <1>24 DEF r
  <2>2. \E i \in 1 .. Len(ListedChannels) :
          ListedChannels[i] = c /\ ListedChannels' = Registry!RemoveAt(ListedChannels, i)
    BY <1>25, <2>1
  <2> QED BY <2>1, <2>2 DEF Registry!Leave, Gone
<1> QED BY <1>15, <1>26

\* A step of the library registers a channel, or one leaves, or neither.
LEMMA StepRegistry ==
  TypeOK /\ ListInv /\ ListingInv' /\ [Next]_vars =>
    \/ \E c \in Channels : Registry!Register(c) \/ Registry!Leave(c)
    \/ ListedChannels' = ListedChannels /\ Gone' = Gone
<1> SUFFICES ASSUME TypeOK, ListInv, ListingInv', [Next]_vars
             PROVE  \/ \E c \in Channels : Registry!Register(c) \/ Registry!Leave(c)
                    \/ ListedChannels' = ListedChannels /\ Gone' = Gone
  OBVIOUS
<1> DEFINE Same == ListedChannels' = ListedChannels /\ Gone' = Gone
<1>0. pc \in [Agents -> Labels] /\ \A t \in Destroyers, c \in Channels : Opener(c) # t
  BY AgentFacts DEF ListInv, AgentsInv
<1> DEFINE Walked == Reached \cup {ListHead}
<1>12. Walked \subseteq Ring
  BY ReachedLeads DEF Ring
<1>13. ASSUME \A p \in Walked : links'[p]["next"] = links[p]["next"],
              \A e \in Members : owner'[e] = owner[e],
              \A c \in Channels : pc'[Opener(c)] = "open" <=> pc[Opener(c)] = "open"
       PROVE  Same
  BY <1>13, ListingKept
<1> HIDE DEF Same, Walked
<1>1. ASSUME NEW c \in Channels, Create(c) PROVE Same
  <2>1. PICK e \in Entries \ Allocated :
          /\ owner' = [owner EXCEPT ![e] = c]
          /\ links' = [links EXCEPT ![e] = [f \in Fields |-> NULL]]
    BY <1>1 DEF Create
  <2>2. \A x \in Ring : x # e
    BY <2>1, MemberFacts, WriteFacts DEF Ring
  <2>3. \A x \in Ring : x \in Cells /\ links'[x]["next"] = links[x]["next"]
    BY <2>1, <2>2, MemberFacts DEF TypeOK, Links
  <2>4. \A x \in Members : owner'[x] = owner[x]
    BY <2>1, <2>2, MemberFacts DEF TypeOK, Ring
  <2>5. \A d \in Channels : pc'[Opener(d)] = "open" <=> pc[Opener(d)] = "open"
    BY <1>0, <1>1, AgentFacts DEF Create
  <2> QED BY <1>12, <1>13, <2>3, <2>4, <2>5
<1>2. ASSUME NEW c \in Channels, CreateFails(c) PROVE Same
  <2>1. UNCHANGED links
    BY <1>2 DEF CreateFails
  <2>2. \A x \in Members : owner'[x] = owner[x]
    BY <1>2, MemberFacts DEF CreateFails, TypeOK
  <2>3. \A d \in Channels : pc'[Opener(d)] = "open" <=> pc[Opener(d)] = "open"
    BY <1>0, <1>2, AgentFacts DEF CreateFails, Goto
  <2> QED BY <1>13, <2>1, <2>2, <2>3
<1>3. ASSUME NEW c \in Channels, Open(c) PROVE Registry!Register(c) \/ Same
  <2>1. CASE BeginInsert(c)
    <3>1. UNCHANGED <<links, owner>>
      BY <2>1 DEF BeginInsert
    <3>2. \A d \in Channels : pc'[Opener(d)] = "open" <=> pc[Opener(d)] = "open"
      BY <1>0, <2>1, AgentFacts DEF BeginInsert, Goto
    <3> QED BY <1>13, <3>1, <3>2
  <2>2. CASE EndInsert(c)
    BY <2>2, InsertRegisters
  <2>3. CASE WriteNext(Opener(c))
    <3>1. pc[Opener(c)] = "adding"
      BY <2>3, AgentFacts, WritersAreCritical
    <3>2. UNCHANGED <<owner, pc>> /\ \A p \in Ring : links'[p]["next"] = links[p]["next"]
      BY <2>3, <3>1, StepInserting
    <3> QED BY <1>12, <1>13, <3>2
  <2> QED BY <1>3, <2>1, <2>2, <2>3 DEF Open
<1>4. ASSUME UNCHANGED <<links, owner>>,
             \A d \in Channels : pc'[Opener(d)] = "open" <=> pc[Opener(d)] = "open"
      PROVE  Same
  BY <1>4, <1>13
<1>5. ASSUME NEW t \in Destroyers, NEW label, Goto(t, label)
      PROVE  \A d \in Channels : pc'[Opener(d)] = "open" <=> pc[Opener(d)] = "open"
  BY <1>0, <1>5 DEF Goto
<1>6. ASSUME NEW what, Fault(what) PROVE Same
  BY <1>4, <1>6 DEF Fault
<1>7. ASSUME NEW c \in Channels, ThreadEnds(c) PROVE Same
  BY <1>4, <1>5, <1>7, AgentFacts DEF ThreadEnds, BeginDestroy
<1>8. ASSUME NEW c \in Channels, ThreadRunsOn(c) \/ UseStaleId(c) PROVE Same
  BY <1>6, <1>8 DEF ThreadRunsOn, UseStaleId
<1>9. ASSUME NEW t \in Destroyers, Destroy(t)
      PROVE  Same \/ \E c \in Channels : Registry!Leave(c)
  <2>1. CASE Search(t)
    BY <1>4, <1>5, <1>6, <2>1 DEF Search
  <2>2. CASE BeginRemove(t)
    BY <1>4, <1>5, <1>6, <2>2 DEF BeginRemove
  <2>3. CASE EndRemove(t)
    <3>1. PICK p \in Ring, n \in Ring : Removing(t, p, n)
      BY <2>3 DEF EndRemove, ListInv, RingInv
    <3>2. /\ UNCHANGED owner /\ \A x \in Cells : links'[x]["next"] = links[x]["next"]
          /\ \A u \in Agents \ {t} : pc'[u] = pc[u]
      BY <2>3, <3>1, StepEndRemove
    <3>3. \A x \in Ring : links'[x]["next"] = links[x]["next"]
      BY <3>2, MemberFacts
    <3>4. \A d \in Channels : pc'[Opener(d)] = pc[Opener(d)]
      BY <1>0, <3>2, AgentFacts
    <3> QED BY <1>12, <1>13, <3>2, <3>3, <3>4
  <2>4. CASE Free(t)
    <3>1. CASE sessp[t] \in Allocated
      <4>1. /\ pc[t] = "unlinked" /\ owner' = [owner EXCEPT ![sessp[t]] = Nobody]
            /\ UNCHANGED links
        BY <2>4, <3>1 DEF Free
      <4>2. sessp[t] \notin Members
        BY <4>1 DEF Members
      <4>3. \A x \in Members : owner'[x] = owner[x]
        BY <4>1, <4>2 DEF TypeOK, Members
      <4>4. \A d \in Channels : pc'[Opener(d)] = "open" <=> pc[Opener(d)] = "open"
        BY <1>5, <2>4, <3>1 DEF Free
      <4> QED BY <1>13, <4>1, <4>3, <4>4
    <3>2. CASE sessp[t] \notin Allocated
      BY <1>6, <2>4, <3>2 DEF Free
    <3> QED BY <3>1, <3>2
  <2>5. CASE WriteNext(t)
    <3>1. pc[t] = "deleting"
      BY <2>5, AgentFacts, WritersAreCritical
    <3>2. PICK p \in Ring, n \in Ring : Removing(t, p, n)
      BY <3>1 DEF ListInv, RingInv
    <3>3. CASE Len(todo[t]) = 3
      BY <2>5, <3>1, <3>3, RemovalLeaves
    <3>4. CASE Len(todo[t]) # 3
      <4>1. /\ UNCHANGED <<owner, pc>>
            /\ \A x \in Cells :
                 links'[x]["next"] = IF x = sessp[t] /\ Len(todo[t]) = 2 THEN LIST_POISON
                                     ELSE links[x]["next"]
        BY <2>5, <3>1, <3>2, <3>4, StepRemoving
      <4>2. Len(todo[t]) = 2 => sessp[t] \notin Walked
        <5>1. sessp[t] # ListHead
          BY <3>1, OldFacts, WriteFacts
        <5> QED BY <3>1, <5>1 DEF Walked, Reached, Passed
      <4>3. \A x \in Walked : links'[x]["next"] = links[x]["next"]
        BY <1>12, <4>1, <4>2, MemberFacts
      <4> QED BY <1>13, <4>1, <4>3
    <3> QED BY <3>3, <3>4
  <2> QED BY <1>9, <2>1, <2>2, <2>3, <2>4, <2>5 DEF Destroy
<1>10. ASSUME DeinitBegins \/ DeinitGoesOn PROVE Same
  BY <1>4, <1>5, <1>6, <1>10, AgentFacts DEF DeinitBegins, DeinitGoesOn, BeginDestroy
<1>11. ASSUME UNCHANGED vars PROVE Same
  BY <1>4, <1>11 DEF vars
<1> QED BY <1>1, <1>2, <1>3, <1>7, <1>8, <1>9, <1>10, <1>11 DEF Next, Same
-----------------------------------------------------------------------------
(* One end at a time.                                                      *)

\* A list that ends where it begins holds nothing: were there sessions in it,
\* the one of least rank would be the next of another.
LEMMA EmptyRing ==
  ASSUME TypeOK, ListInv, Whole, links[ListHead]["next"] = ListHead
  PROVE  Members = {}
<1> SUFFICES ASSUME Members # {} PROVE FALSE
  OBVIOUS
<1>1. PICK rank \in [Cells -> Nat] : Rising(rank)
  BY DEF ListInv, RingInv
<1> DEFINE Ranks == {rank[x] : x \in Members}
<1>2. Ranks \subseteq Nat /\ Ranks # {}
  BY <1>1, MemberFacts
<1>3. PICK least \in Ranks : \A r \in Ranks : least <= r
  BY <1>2, LeastNumber
<1>4. PICK m \in Members : least = rank[m]
  BY <1>3
<1>5. PICK q \in Ring : links[q]["next"] = m
  BY <1>4 DEF Whole, Ring
<1>6. q \in Members
  BY <1>4, <1>5, MemberFacts DEF Ring
<1>7. rank[q] < rank[m]
  BY <1>1, <1>4, <1>5, MemberFacts DEF Rising
<1>8. rank[q] \in Ranks /\ rank[q] \in Nat /\ least \in Nat
  BY <1>2, <1>3, <1>6
<1> QED BY <1>3, <1>4, <1>7, <1>8

\* While a session is destroyed nobody else destroys one.
LEMMA SoleFacts ==
  ASSUME TypeOK, ListInv, SoleInv, NEW t \in Destroyers, Ending(t)
  PROVE  /\ \A u \in Destroyers : Ending(u) => u = t
         /\ t # Deinit => pc[Deinit] = "none"
         /\ t = Deinit => \A c \in Channels : pc[SessThread(c)] \in {"none", "ended"}
         /\ pc[t] # "deleting" => \A p \in Ring : links[p]["next"] \in Ring
<1>1. \A u \in Destroyers : Ending(u) => u = t
  BY DEF SoleInv
<1>2. t # Deinit => pc[Deinit] = "none"
  BY AgentFacts DEF SoleInv, Ending, Destroying
<1>3. t = Deinit => \A c \in Channels : pc[SessThread(c)] \in {"none", "ended"}
  BY DEF SoleInv, Ending, Destroying
<1>4. pc[t] # "deleting" => \A u \in Destroyers : pc[u] # "deleting"
  BY <1>1 DEF Ending, Destroying
<1> QED BY <1>1, <1>2, <1>3, <1>4, RingNext

\* The one that destroys a session goes on.
LEMMA EndingKeeps ==
  ASSUME TypeOK, ListInv, SoleInv, NEW t \in Destroyers, Ending(t),
         NEW label \in {"looping", "ended"} \cup Destroying, label = "looping" => t = Deinit,
         pc'[t] = label, \A u \in Agents \ {t} : pc'[u] = pc[u],
         addr' = addr, \A u \in Destroyers \ {Deinit} : sessp'[u] = sessp[u],
         \A c \in Channels : HasSession(c) => HasSession(c)' \/ t = Deinit \/
                               (t = SessThread(c) /\ label \notin Destroying),
         label = "walking" => tmp'[t] \in Ring',
         label = "found" => sessp'[t] \in Members'
  PROVE  SoleInv'
<1>1. /\ \A u \in Destroyers : Ending(u) => u = t
      /\ t # Deinit => pc[Deinit] = "none"
      /\ t = Deinit => \A c \in Channels : pc[SessThread(c)] \in {"none", "ended"}
  BY SoleFacts
<1>2. \A u \in Destroyers \ {t} : pc'[u] = pc[u] /\ ~Ending(u)
  BY <1>1, AgentFacts
<1>3. \A u, v \in Destroyers : Ending(u)' /\ Ending(v)' => u = v
  BY <1>2 DEF Ending
<1>4. ASSUME NEW c \in Channels
      PROVE  /\ pc'[Deinit] # "none" => pc'[SessThread(c)] \in {"none", "ended"}
             /\ pc'[SessThread(c)] \in {"running"} \cup Destroying => HasSession(c)'
             /\ pc'[SessThread(c)] \in Destroying => sessp'[SessThread(c)] = addr'[c]
             /\ pc'[SessThread(c)] # "looping"
  <2>1. SessThread(c) \in Destroyers /\ SessThread(c) # Deinit /\ Deinit \in Destroyers
    BY AgentFacts
  <2>2. CASE t = SessThread(c)
    <3>1. pc'[Deinit] = "none"
      BY <1>1, <1>2, <2>1, <2>2
    <3>2. /\ pc[t] \in Destroying => HasSession(c) /\ sessp[t] = addr[c]
          /\ pc[t] # "looping"
      BY <2>1, <2>2 DEF SoleInv
    <3> QED BY <2>1, <2>2, <3>1, <3>2 DEF Ending
  <2>3. CASE t # SessThread(c)
    <3>1. pc'[SessThread(c)] = pc[SessThread(c)] /\ pc[SessThread(c)] \notin Destroying
      BY <1>2, <2>1, <2>3 DEF Ending
    <3>2. CASE t = Deinit
      BY <1>1, <3>1, <3>2 DEF Destroying
    <3>3. CASE t # Deinit
      <4>1. pc'[Deinit] = "none"
        BY <1>1, <1>2, <2>1, <3>3
      <4> QED BY <2>3, <3>1, <3>3, <4>1 DEF SoleInv
    <3> QED BY <3>2, <3>3
  <2> QED BY <2>2, <2>3
<1>5. ASSUME NEW u \in Destroyers
      PROVE  /\ pc'[u] = "walking" => tmp'[u] \in Ring'
             /\ pc'[u] = "found" => sessp'[u] \in Members'
  BY <1>2 DEF Ending, Destroying
<1> QED BY <1>3, <1>4, <1>5 DEF SoleInv

\* Before deinit_rtsp_cli() nothing is said of it.
LEMMA NoDeinit == pc'[Deinit] = "none" => DeinitInv'
  BY DEF DeinitInv

\* Opening a session is nobody's end.
LEMMA OpensKeep ==
  ASSUME TypeOK, ListInv, SoleInv, pc[Deinit] = "none", pc'[Deinit] = "none",
         UNCHANGED <<tmp, sessp>>, Members \subseteq Members',
         \A t \in SessThreads : pc'[t] \in {pc[t], "running"},
         \A c \in Channels : pc'[SessThread(c)] \in {"running"} \cup Destroying =>
           HasSession(c)' /\ (pc'[SessThread(c)] \in Destroying => addr'[c] = addr[c])
  PROVE  SoleInv' /\ DeinitInv'
<1>1. \A t \in Destroyers : pc'[t] = pc[t] \/ pc'[t] = "running"
  BY DEF Destroyers
<1>2. \A t, u \in Destroyers : Ending(t)' /\ Ending(u)' => t = u
  BY <1>1 DEF SoleInv, Ending, Destroying
<1>3. ASSUME NEW c \in Channels
      PROVE  /\ pc'[SessThread(c)] \in {"running"} \cup Destroying => HasSession(c)'
             /\ pc'[SessThread(c)] \in Destroying => sessp'[SessThread(c)] = addr'[c]
             /\ pc'[SessThread(c)] # "looping"
  <2>1. pc'[SessThread(c)] = pc[SessThread(c)] \/ pc'[SessThread(c)] = "running"
    BY <1>1, AgentFacts
  <2>2. pc'[SessThread(c)] \in Destroying => sessp'[SessThread(c)] = addr'[c]
    BY <2>1 DEF SoleInv, Destroying
  <2> QED BY <2>1, <2>2 DEF SoleInv
<1>4. ASSUME NEW t \in Destroyers
      PROVE  /\ pc'[t] = "walking" => tmp'[t] \in Ring'
             /\ pc'[t] = "found" => sessp'[t] \in Members'
  BY <1>1 DEF SoleInv, Ring
<1>5. SoleInv'
  BY <1>2, <1>3, <1>4 DEF SoleInv
<1> QED BY <1>5, NoDeinit

\* open_chn() and create_rtsp_sess().
LEMMA AloneOpens ==
  ASSUME TypeOK, ListInv, SoleInv, NEW c \in Channels,
         Create(c) \/ CreateFails(c) \/ Open(c)
  PROVE  SoleInv' /\ DeinitInv' /\ fault' = fault
<1> DEFINE t == Opener(c)
           s == SessThread(c)
<1>0. /\ t \in Agents /\ t \notin Destroyers /\ s \in Agents /\ s \in Destroyers
      /\ s # Deinit /\ t # s /\ Deinit \in Agents /\ t # Deinit
      /\ SessThreads \subseteq Destroyers /\ SessThreads \subseteq Agents
      /\ pc \in [Agents -> Labels]
  BY AgentFacts DEF Destroyers, Agents, ListInv, AgentsInv
<1>1. \A d \in Channels : pc[SessThread(d)] \in {"running"} \cup Destroying =>
         HasSession(d) /\ (d = c => pc[t] \notin {"start", "failed"})
  <2>1. pc[t] \in {"start", "failed"} => pc[s] = "none"
    BY DEF ListInv, ChannelsInv
  <2> QED BY <2>1 DEF SoleInv, Destroying
<1>2. CASE Create(c)
  <2>1. PICK e \in Entries \ Allocated :
          /\ owner' = [owner EXCEPT ![e] = c]
          /\ addr' = [addr EXCEPT ![c] = e]
    BY <1>2 DEF Create
  <2>2. /\ pc[t] = "start" /\ pc[Deinit] = "none"
        /\ pc' = [pc EXCEPT ![t] = "created", ![s] = "running"]
        /\ fault' = fault
    BY <1>2 DEF Create
  <2>3. UNCHANGED <<tmp, sessp>>
    BY <1>2 DEF Create
  <2>4. /\ pc'[Deinit] = "none"
        /\ \A u \in SessThreads : pc'[u] \in {pc[u], "running"}
    BY <1>0, <2>2
  <2>5. \A d \in Channels \ {c} : HasSession(d) => HasSession(d)' /\ addr'[d] = addr[d]
    BY <2>1, ChannelsAssumption DEF TypeOK, HasSession, Allocated
  <2>6. HasSession(c)' /\ pc'[s] = "running"
    BY <1>0, <2>1, <2>2 DEF TypeOK, HasSession
  <2>7. \A d \in Channels \ {c} : pc'[SessThread(d)] = pc[SessThread(d)]
    BY <1>0, <2>2, AgentFacts
  <2>8. Members' = Members
    BY <1>2, StepCreate
  <2>9. \A d \in Channels : pc'[SessThread(d)] \in {"running"} \cup Destroying =>
           HasSession(d)' /\ (pc'[SessThread(d)] \in Destroying => addr'[d] = addr[d])
    BY <1>1, <2>5, <2>6, <2>7 DEF Destroying
  <2> QED BY <2>2, <2>3, <2>4, <2>8, <2>9, OpensKeep
<1>3. CASE CreateFails(c)
  <2>1. /\ pc[t] = "start" /\ pc[Deinit] = "none" /\ pc' = [pc EXCEPT ![t] = "failed"]
        /\ fault' = fault /\ addr' = addr
        /\ \A e \in Allocated : owner'[e] = owner[e]
    BY <1>3 DEF CreateFails, Goto, Allocated, TypeOK
  <2>2. UNCHANGED <<tmp, sessp>>
    BY <1>3 DEF CreateFails
  <2>3. /\ pc'[Deinit] = "none"
        /\ \A u \in SessThreads : pc'[u] = pc[u]
        /\ \A d \in Channels : pc'[SessThread(d)] = pc[SessThread(d)]
    BY <1>0, <2>1, AgentFacts
  <2>4. \A d \in Channels : HasSession(d) => HasSession(d)'
    BY <2>1, MemberFacts DEF HasSession
  <2>5. Members' = Members
    BY <1>3, StepCreateFails
  <2> QED BY <1>1, <2>1, <2>2, <2>3, <2>4, <2>5, OpensKeep
<1>4. ASSUME pc[t] \in {"created", "adding"}, UNCHANGED <<owner, addr, tmp, sessp>>,
             \A u \in Agents \ {t} : pc'[u] = pc[u], Members \subseteq Members'
      PROVE  SoleInv' /\ DeinitInv'
  <2>1. pc[Deinit] = "none"
    BY <1>4 DEF ListInv, ChannelsInv
  <2>2. /\ pc'[Deinit] = "none"
        /\ \A u \in SessThreads : pc'[u] = pc[u]
        /\ \A d \in Channels : pc'[SessThread(d)] = pc[SessThread(d)]
    BY <1>0, <1>4, <2>1, AgentFacts
  <2>3. \A d \in Channels : HasSession(d) => HasSession(d)' /\ addr'[d] = addr[d]
    BY <1>4 DEF HasSession
  <2> QED BY <1>1, <1>4, <2>1, <2>2, <2>3, OpensKeep
<1>5. CASE BeginInsert(c)
  <2>1. /\ pc[t] = "created" /\ pc' = [pc EXCEPT ![t] = "adding"] /\ fault' = fault
    BY <1>5 DEF BeginInsert, Goto
  <2>2. UNCHANGED <<owner, addr, tmp, sessp>>
    BY <1>5 DEF BeginInsert
  <2>3. \A u \in Agents \ {t} : pc'[u] = pc[u]
    BY <1>0, <2>1
  <2>4. Members' = Members
    BY <1>5, StepBeginInsert
  <2> QED BY <1>4, <2>1, <2>2, <2>3, <2>4
<1>6. CASE WriteNext(t)
  <2>1. pc[t] = "adding"
    BY <1>0, <1>6, AgentFacts, WritersAreCritical
  <2>2. /\ UNCHANGED <<owner, addr, mutex, pc, tmp, sessp, ahead, overlap, fault>>
        /\ Members' = Members
    BY <1>6, <2>1, StepInserting
  <2>3. UNCHANGED <<owner, addr, tmp, sessp>>
    BY <2>2
  <2> QED BY <1>4, <2>1, <2>2, <2>3
<1>7. CASE EndInsert(c)
  <2>1. /\ UNCHANGED <<owner, addr, tmp, sessp, ahead, overlap, fault>>
        /\ Members' = Members \cup {addr[c]} /\ pc[t] = "adding"
    BY <1>7, StepEndInsert DEF EndInsert
  <2>2. pc' = [pc EXCEPT ![t] = "open"] \/ pc' = pc
    BY <1>7 DEF EndInsert, WriteLast, Goto, Fault
  <2>3. \A u \in Agents \ {t} : pc'[u] = pc[u]
    BY <1>0, <2>2
  <2>4. UNCHANGED <<owner, addr, tmp, sessp>>
    BY <2>1
  <2> QED BY <1>4, <2>1, <2>3, <2>4
<1> QED BY <1>2, <1>3, <1>5, <1>6, <1>7 DEF Open

\* A session thread comes to its end when nobody else destroys a session.
LEMMA AloneThreadEnds ==
  ASSUME TypeOK, ListInv, SoleInv, NEW c \in Channels, ThreadEnds(c), ~overlap'
  PROVE  SoleInv' /\ DeinitInv' /\ fault' = fault
<1> DEFINE t == SessThread(c)
<1>0. /\ t \in Destroyers /\ t \in Agents /\ t # Deinit /\ Deinit \in Agents
      /\ Deinit \in Destroyers /\ Destroyers \subseteq Agents
      /\ pc \in [Agents -> Labels]
      /\ sessp \in [Destroyers -> Entries \cup {NULL}]
      /\ tmp \in [Destroyers -> Cells \cup {NULL}]
  BY AgentFacts DEF ListInv, AgentsInv
<1>1. /\ pc[t] = "running" /\ HasSession(c)
      /\ sessp' = [sessp EXCEPT ![t] = addr[c]]
      /\ tmp' = [tmp EXCEPT ![t] = links[ListHead]["next"]]
      /\ pc' = [pc EXCEPT ![t] = "walking"]
      /\ \A u \in Destroyers \ {t} : ~Ending(u)
      /\ addr' = addr /\ owner' = owner /\ fault' = fault
  BY DEF ThreadEnds, BeginDestroy, Goto, Ending
<1>2. pc[Deinit] = "none"
  BY <1>1 DEF SoleInv, Destroying
<1>3. Members' = Members /\ Ring' = Ring
  BY StepThreadEnds DEF Ring
<1>4. /\ pc'[t] = "walking" /\ tmp'[t] \in Ring' /\ sessp'[t] = addr'[c]
      /\ \A u \in Destroyers \ {t} : pc'[u] = pc[u] /\ sessp'[u] = sessp[u]
      /\ pc'[Deinit] = "none"
  BY <1>0, <1>1, <1>2, <1>3, RingNext
<1>5. \A u, v \in Destroyers : Ending(u)' /\ Ending(v)' => u = v
  BY <1>1, <1>4 DEF Ending
<1>6. ASSUME NEW d \in Channels
      PROVE  /\ pc'[SessThread(d)] \in {"running"} \cup Destroying => HasSession(d)'
             /\ pc'[SessThread(d)] \in Destroying => sessp'[SessThread(d)] = addr'[d]
             /\ pc'[SessThread(d)] # "looping"
  <2>1. HasSession(d)' <=> HasSession(d)
    BY <1>1 DEF HasSession
  <2>2. CASE d = c
    BY <1>1, <1>4, <2>1, <2>2
  <2>3. CASE d # c
    <3>1. SessThread(d) \in Destroyers \ {t}
      BY <2>3, AgentFacts
    <3> HIDE DEF t
    <3> QED BY <1>1, <1>4, <2>1, <3>1 DEF SoleInv, Destroying
  <2> QED BY <2>2, <2>3
<1>7. ASSUME NEW u \in Destroyers
      PROVE  /\ pc'[u] = "walking" => tmp'[u] \in Ring'
             /\ pc'[u] = "found" => sessp'[u] \in Members'
  <2>1. CASE u = t
    BY <1>4, <2>1
  <2>2. CASE u # t
    BY <1>1, <1>4, <2>2 DEF Ending, Destroying
  <2> QED BY <2>1, <2>2
<1> HIDE DEF t
<1>8. SoleInv'
  BY <1>4, <1>5, <1>6, <1>7 DEF SoleInv
<1> QED BY <1>1, <1>4, <1>8, NoDeinit

\* deinit_rtsp_cli() begins when all threads have ended.
LEMMA AloneDeinitBegins ==
  ASSUME TypeOK, ListInv, SoleInv, DeinitBegins, ~overlap'
  PROVE  SoleInv' /\ DeinitInv' /\ fault' = fault
<1>0. PICK first : first = links[ListHead]["next"]
  OBVIOUS
<1>1. /\ first \in Ring /\ (first = ListHead \/ first \in Members)
      /\ (first = ListHead \/ first \in Allocated)
      /\ first \in Cells /\ (first # ListHead => first \in Entries)
  BY <1>0, RingNext, MemberFacts DEF Ring
<1>2. PICK label :
        /\ label = IF first = ListHead THEN "looping" ELSE "walking"
        /\ sessp' = [sessp EXCEPT ![Deinit] = IF first = ListHead THEN NULL ELSE first]
        /\ ahead' = links[first]["next"]
        /\ tmp' = [tmp EXCEPT ![Deinit] = first]
        /\ pc' = [pc EXCEPT ![Deinit] = label]
        /\ \A t \in SessThreads : pc[t] \in {"none", "ended"}
        /\ links' = links /\ addr' = addr /\ owner' = owner /\ fault' = fault
  BY <1>0, <1>1 DEF DeinitBegins, Goto
<1>3. /\ Deinit \in Agents /\ Deinit \in Destroyers
      /\ pc \in [Agents -> Labels]
      /\ sessp \in [Destroyers -> Entries \cup {NULL}]
      /\ tmp \in [Destroyers -> Cells \cup {NULL}]
  BY AgentFacts DEF ListInv, AgentsInv
<1>4. /\ pc'[Deinit] = label /\ tmp'[Deinit] = first
      /\ sessp'[Deinit] = IF first = ListHead THEN NULL ELSE first
      /\ \A t \in SessThreads : pc'[t] \in {"none", "ended"}
  <2>1. \A t \in SessThreads : t \in Agents /\ t # Deinit
    BY AgentFacts DEF SessThreads
  <2> QED BY <1>2, <1>3, <2>1
<1>5. Members' = Members /\ Ring' = Ring
  BY StepDeinitBegins DEF Ring
<1>6. \A c \in Channels : SessThread(c) \in SessThreads
  BY DEF SessThreads
<1>7. SoleInv'
  <2>1. \A u, v \in Destroyers : Ending(u)' /\ Ending(v)' => u = v
    BY <1>4 DEF Ending, Destroying, Destroyers
  <2>2. ASSUME NEW u \in Destroyers
        PROVE  /\ pc'[u] = "walking" => tmp'[u] \in Ring'
               /\ pc'[u] = "found" => sessp'[u] \in Members'
    BY <1>1, <1>2, <1>4, <1>5 DEF Destroyers
  <2> QED BY <1>4, <1>6, <2>1, <2>2 DEF SoleInv, Destroying
<1>8. DeinitInv'
  BY <1>0, <1>1, <1>2, <1>4, WriteFacts DEF DeinitInv
<1> QED BY <1>2, <1>7, <1>8

\* A walk that nobody disturbs meets the session or the head.
LEMMA AloneSearch ==
  ASSUME TypeOK, ListInv, SoleInv, DeinitInv, NEW t \in Destroyers, Search(t)
  PROVE  SoleInv' /\ DeinitInv' /\ fault' = fault
<1>0. /\ pc[t] = "walking" /\ Ending(t) /\ t \in Agents /\ Deinit \in Agents
      /\ sessp[t] \in Entries /\ tmp[t] \in Ring /\ tmp \in [Destroyers -> Cells \cup {NULL}]
      /\ pc \in [Agents -> Labels] /\ ListHead \notin Entries
  BY AgentFacts, WriteFacts DEF Search, Ending, Destroying, SoleInv, ListInv, AgentsInv
<1>1. /\ t # Deinit => pc[Deinit] = "none"
      /\ \A p \in Ring : links[p]["next"] \in Ring
  BY <1>0, SoleFacts
<1>2. /\ Members' = Members /\ Ring' = Ring
      /\ Members \subseteq Allocated /\ Ring \subseteq Cells
  BY StepSearch, MemberFacts DEF Ring
<1>3. ASSUME NEW label \in {"walking", "found", "looping", "ended"},
             pc' = [pc EXCEPT ![t] = label], label = "looping" => t = Deinit,
             UNCHANGED <<owner, addr, sessp>>,
             label = "walking" => tmp'[t] \in Ring', label = "found" => sessp[t] \in Members
      PROVE  SoleInv'
  <2>1. /\ pc'[t] = label /\ \A u \in Agents \ {t} : pc'[u] = pc[u]
        /\ label \in {"looping", "ended"} \cup Destroying
    BY <1>0, <1>3 DEF Destroying
  <2>2. \A c \in Channels : HasSession(c) => HasSession(c)'
    BY <1>3 DEF HasSession
  <2> QED BY <1>0, <1>2, <1>3, <2>1, <2>2, EndingKeeps
<1>4. CASE /\ tmp[t] = sessp[t] /\ Goto(t, "found")
           /\ UNCHANGED <<links, owner, addr, mutex, tmp, sessp, todo, ahead, overlap, fault>>
  <2>1. sessp[t] \in Members
    BY <1>0, <1>4 DEF Ring
  <2>2. pc' = [pc EXCEPT ![t] = "found"] /\ links' = links /\ sessp' = sessp /\ ahead' = ahead
    BY <1>4 DEF Goto
  <2>3. SoleInv'
    BY <1>3, <1>4, <2>1, <2>2
  <2>4. DeinitInv'
    <3>1. CASE t = Deinit
      BY <1>0, <2>2, <3>1 DEF DeinitInv
    <3>2. CASE t # Deinit
      BY <1>0, <1>1, <2>2, <3>2, NoDeinit
    <3> QED BY <3>1, <3>2
  <2> QED BY <1>4, <2>3, <2>4
<1>5. CASE /\ tmp[t] = ListHead /\ Goto(t, AfterDestroy(t))
           /\ UNCHANGED <<links, owner, addr, mutex, tmp, sessp, todo, ahead, overlap, fault>>
  <2>1. t # Deinit
    BY <1>0, <1>5 DEF DeinitInv
  <2>2. pc' = [pc EXCEPT ![t] = "ended"]
    BY <1>5, <2>1 DEF Goto, AfterDestroy
  <2>3. SoleInv'
    BY <1>3, <1>5, <2>2
  <2>4. DeinitInv'
    BY <1>0, <1>1, <2>1, <2>2, NoDeinit
  <2> QED BY <1>5, <2>3, <2>4
<1>6. CASE /\ tmp[t] \notin {sessp[t], ListHead}
           /\ IF tmp[t] \in Allocated /\ links[tmp[t]]["next"] \in Cells
              THEN /\ tmp' = [tmp EXCEPT ![t] = links[tmp[t]]["next"]]
                   /\ UNCHANGED <<links, owner, addr, mutex, pc, sessp, todo, ahead, overlap, fault>>
              ELSE Fault("walk")
  <2>1. t # Deinit
    BY <1>0, <1>6 DEF DeinitInv
  <2>2. tmp[t] \in Allocated /\ links[tmp[t]]["next"] \in Cells /\ links[tmp[t]]["next"] \in Ring
    BY <1>0, <1>1, <1>2, <1>6 DEF Ring
  <2>3. /\ tmp' = [tmp EXCEPT ![t] = links[tmp[t]]["next"]]
        /\ UNCHANGED <<links, owner, addr, mutex, pc, sessp, todo, ahead, overlap, fault>>
    BY <1>6, <2>2
  <2>4. pc' = [pc EXCEPT ![t] = "walking"] /\ tmp'[t] \in Ring'
    BY <1>0, <1>2, <2>2, <2>3
  <2>5. SoleInv'
    BY <1>3, <2>3, <2>4
  <2>6. DeinitInv'
    BY <1>1, <2>1, <2>3, NoDeinit
  <2> QED BY <2>3, <2>5, <2>6
<1> QED BY <1>4, <1>5, <1>6 DEF Search

\* Whoever found the session finds it in the list still, and the mutex in use.
LEMMA AloneBeginRemove ==
  ASSUME TypeOK, ListInv, SoleInv, DeinitInv, fault = "none",
         NEW t \in Destroyers, BeginRemove(t)
  PROVE  SoleInv' /\ DeinitInv' /\ fault' = fault
<1>0. /\ pc[t] = "found" /\ Ending(t) /\ t \in Agents /\ Deinit \in Agents
      /\ sessp[t] \in Members /\ pc \in [Agents -> Labels]
  BY AgentFacts DEF BeginRemove, Ending, Destroying, SoleInv, ListInv, AgentsInv
<1>1. /\ t # Deinit => pc[Deinit] = "none"
      /\ \A p \in Ring : links[p]["next"] \in Ring
  BY <1>0, SoleFacts
<1>2. mutex # Destroyed
  BY <1>0, <1>1 DEF ListInv, ChannelsInv
<1>3. sessp[t] \in Allocated /\ links[sessp[t]]["next"] \in Cells
  BY <1>0, <1>1, MemberFacts DEF Ring
<1>4. /\ mutex = Unlocked /\ pc' = [pc EXCEPT ![t] = "deleting"]
      /\ UNCHANGED <<links, owner, addr, tmp, sessp, ahead, overlap, fault>>
  BY <1>2, <1>3 DEF BeginRemove, Goto
<1>5. PICK p \in Ring, n \in Ring :
        p = links[sessp[t]]["prev"] /\ n = links[sessp[t]]["next"] /\ Removing(t, p, n)'
  <2>1. \E p, n \in Ring :
          p = links[sessp[t]]["prev"] /\ n = links[sessp[t]]["next"] /\ Removing(t, p, n)'
    BY <1>4, StepBeginRemove
  <2> QED BY <2>1
<1>6. Members' = Members /\ Ring' = Ring
  BY <1>4, StepBeginRemove DEF Ring
<1>7. pc'[t] = "deleting" /\ \A u \in Agents \ {t} : pc'[u] = pc[u]
  BY <1>0, <1>4
<1>8. SoleInv'
  <2>1. \A c \in Channels : HasSession(c) => HasSession(c)'
    BY <1>4 DEF HasSession
  <2>2. "deleting" \in {"looping", "ended"} \cup Destroying
    BY DEF Destroying
  <2> QED BY <1>0, <1>4, <1>7, <2>1, <2>2, EndingKeeps
<1>9. DeinitInv'
  <2>1. CASE t = Deinit
    <3>1. sessp[t] = links[ListHead]["next"] /\ ahead = n
      BY <1>0, <1>5, <2>1 DEF DeinitInv
    <3>2. Whole
      <4>1. \A u \in Agents : ~Critical(u)
        BY <1>4, AgentFacts DEF ListInv, AgentsInv
      <4> QED BY <4>1 DEF ListInv, RingInv
    <3>3. p = ListHead
      BY <1>5, <3>1, <3>2, MemberFacts DEF Whole
    <3>4. Removing(t, ListHead, n)'
      BY <1>5, <3>3
    <3>5. pc'[Deinit] = "deleting" /\ ahead' = n /\ n \in Ring'
      BY <1>4, <1>5, <1>6, <1>7, <2>1, <3>1
    <3>6. Removing(Deinit, ListHead, ahead)'
      BY <2>1, <3>4, <3>5 DEF Removing
    <3> QED BY <3>5, <3>6 DEF DeinitInv
  <2>2. CASE t # Deinit
    BY <1>0, <1>1, <1>7, <2>2, NoDeinit
  <2> QED BY <2>1, <2>2
<1> QED BY <1>4, <1>8, <1>9

\* list_del() goes on.
LEMMA AloneRemoving ==
  ASSUME TypeOK, ListInv, SoleInv, DeinitInv, NEW t \in Destroyers, WriteNext(t)
  PROVE  SoleInv' /\ DeinitInv' /\ fault' = fault
<1>0. /\ pc[t] = "deleting" /\ Ending(t) /\ t \in Agents /\ Deinit \in Agents
  BY AgentFacts, WritersAreCritical DEF Ending, Destroying
<1>1. t # Deinit => pc[Deinit] = "none"
  BY <1>0, SoleFacts
<1>2. PICK p \in Ring, n \in Ring : Removing(t, p, n)
  BY <1>0 DEF ListInv, RingInv
<1>3. /\ UNCHANGED <<owner, addr, mutex, pc, tmp, sessp, ahead, overlap, fault>>
      /\ Members' = Members /\ Ring' = Ring
  BY <1>0, <1>2, StepRemoving DEF Ring
<1>4. SoleInv'
  <2>1. \A c \in Channels : HasSession(c) => HasSession(c)'
    BY <1>3 DEF HasSession
  <2>2. "deleting" \in {"looping", "ended"} \cup Destroying
    BY DEF Destroying
  <2> QED BY <1>0, <1>3, <2>1, <2>2, EndingKeeps
<1>5. DeinitInv'
  <2>1. CASE t = Deinit
    <3>1. PICK a \in Ring : a = ahead
      BY <1>0, <2>1 DEF DeinitInv
    <3>2. Removing(t, ListHead, a) /\ ListHead \in Ring
      BY <1>0, <2>1, <3>1, MemberFacts DEF DeinitInv
    <3>3. Removing(t, ListHead, a)'
      BY <1>0, <3>2, StepRemoving
    <3>4. ahead' = a /\ a \in Ring' /\ pc'[Deinit] = "deleting"
      BY <1>0, <1>3, <2>1, <3>1
    <3>5. Removing(Deinit, ListHead, ahead)'
      BY <2>1, <3>3, <3>4 DEF Removing
    <3> QED BY <3>4, <3>5 DEF DeinitInv
  <2>2. CASE t # Deinit
    BY <1>1, <1>3, <2>2, NoDeinit
  <2> QED BY <2>1, <2>2
<1> QED BY <1>3, <1>4, <1>5

\* list_del() ends: the head points to what deinit_rtsp_cli() has ahead.
LEMMA AloneEndRemove ==
  ASSUME TypeOK, ListInv, SoleInv, DeinitInv, NEW t \in Destroyers, EndRemove(t)
  PROVE  SoleInv' /\ DeinitInv' /\ fault' = fault
<1>0. /\ pc[t] = "deleting" /\ Ending(t) /\ t \in Agents /\ Deinit \in Agents
      /\ pc \in [Agents -> Labels]
  BY AgentFacts DEF EndRemove, Ending, Destroying, ListInv, AgentsInv
<1>1. t # Deinit => pc[Deinit] = "none"
  BY <1>0, SoleFacts
<1>2. PICK p \in Ring, n \in Ring : Removing(t, p, n) /\ (t = Deinit => p = ListHead /\ n = ahead)
  <2>1. CASE t = Deinit
    BY <1>0, <2>1, MemberFacts DEF DeinitInv
  <2>2. CASE t # Deinit
    BY <1>0, <2>2 DEF ListInv, RingInv
  <2> QED BY <2>1, <2>2
<1>3. /\ UNCHANGED <<owner, addr, tmp, sessp, ahead, overlap, fault>>
      /\ links'[p]["next"] = n
      /\ pc'[t] = "unlinked" /\ \A u \in Agents \ {t} : pc'[u] = pc[u]
  BY <1>2, StepEndRemove
<1>4. SoleInv'
  <2>1. \A c \in Channels : HasSession(c) => HasSession(c)'
    BY <1>3 DEF HasSession
  <2>2. "unlinked" \in {"looping", "ended"} \cup Destroying
    BY DEF Destroying
  <2> QED BY <1>0, <1>3, <2>1, <2>2, EndingKeeps
<1>5. DeinitInv'
  <2>1. CASE t = Deinit
    BY <1>2, <1>3, <2>1 DEF DeinitInv
  <2>2. CASE t # Deinit
    BY <1>0, <1>1, <1>3, <2>2, NoDeinit
  <2> QED BY <2>1, <2>2
<1> QED BY <1>3, <1>4, <1>5

\* What is freed was unlinked by this agent, and by no other.
LEMMA AloneFree ==
  ASSUME TypeOK, ListInv, SoleInv, DeinitInv, NEW t \in Destroyers, Free(t)
  PROVE  SoleInv' /\ DeinitInv' /\ fault' = fault
<1>0. PICK e : e = sessp[t]
  OBVIOUS
<1>1. /\ pc[t] = "unlinked" /\ Ending(t) /\ t \in Agents /\ Deinit \in Agents
      /\ e \in Entries /\ e \in Allocated /\ pc \in [Agents -> Labels]
  BY <1>0, AgentFacts DEF Free, Ending, Destroying, ListInv, AgentsInv, Registered
<1>2. t # Deinit => pc[Deinit] = "none"
  BY <1>1, SoleFacts
<1>3. /\ owner' = [owner EXCEPT ![e] = Nobody]
      /\ pc' = [pc EXCEPT ![t] = AfterDestroy(t)]
      /\ UNCHANGED <<links, addr, mutex, tmp, sessp, todo, ahead, overlap, fault>>
  BY <1>0, <1>1 DEF Free, Goto
<1>4. PICK label : label = AfterDestroy(t)
  OBVIOUS
<1>5. /\ pc'[t] = label /\ \A u \in Agents \ {t} : pc'[u] = pc[u]
      /\ label = IF t = Deinit THEN "looping" ELSE "ended"
  BY <1>1, <1>3, <1>4 DEF AfterDestroy
<1>6. SoleInv'
  <2>1. ASSUME NEW c \in Channels, HasSession(c), t # Deinit, t # SessThread(c)
        PROVE  HasSession(c)'
    <3>1. PICK d \in Channels : t = SessThread(d)
      BY <2>1, AgentFacts
    <3>2. owner[e] = d /\ d # c
      BY <1>0, <1>1, <2>1, <3>1 DEF SoleInv, HasSession, Destroying
    <3>3. addr[c] # e
      BY <2>1, <3>2 DEF HasSession
    <3> QED BY <1>3, <2>1, <3>3 DEF HasSession, TypeOK
  <2>2. \A c \in Channels : HasSession(c) => HasSession(c)' \/ t = Deinit \/
                               (t = SessThread(c) /\ label \notin Destroying)
    BY <1>5, <2>1 DEF Destroying
  <2>3. label \in {"looping", "ended"} \cup Destroying /\ (label = "looping" => t = Deinit)
        /\ label \notin {"walking", "found"}
    BY <1>5
  <2> QED BY <1>1, <1>3, <1>5, <2>2, <2>3, EndingKeeps
<1>7. DeinitInv'
  <2>1. CASE t = Deinit
    <3>1. e # NULL
      BY <1>1, WriteFacts
    <3> QED BY <1>0, <1>1, <1>3, <1>5, <2>1, <3>1 DEF DeinitInv
  <2>2. CASE t # Deinit
    BY <1>1, <1>2, <1>5, <2>2, NoDeinit
  <2> QED BY <2>1, <2>2
<1> QED BY <1>3, <1>6, <1>7

\* deinit_rtsp_cli() takes what is now the first session, and ends when the
\* list is empty.
LEMMA AloneDeinitGoesOn ==
  ASSUME TypeOK, ListInv, SoleInv, DeinitInv, DeinitGoesOn
  PROVE  SoleInv' /\ DeinitInv' /\ fault' = fault
<1>0. /\ pc[Deinit] = "looping" /\ Ending(Deinit) /\ Deinit \in Destroyers
      /\ Deinit \in Agents /\ pc \in [Agents -> Labels]
      /\ sessp \in [Destroyers -> Entries \cup {NULL}]
      /\ tmp \in [Destroyers -> Cells \cup {NULL}]
  BY AgentFacts DEF DeinitGoesOn, Ending, ListInv, AgentsInv
<1>1. /\ ahead = links[ListHead]["next"]
      /\ sessp[Deinit] = NULL => ahead = ListHead
      /\ ahead \in Ring
      /\ ahead # ListHead => ahead \in Members /\ ahead \in Allocated /\ ahead \in Entries
  BY <1>0, RingNext, MemberFacts DEF DeinitInv, Ring
<1>2. Members' = Members /\ Ring' = Ring
  BY StepDeinitGoesOn DEF Ring
<1>3. CASE ahead = ListHead
  <2>1. /\ pc' = [pc EXCEPT ![Deinit] = "ended"] /\ fault' = fault
        /\ UNCHANGED <<owner, addr, sessp>>
    BY <1>3 DEF DeinitGoesOn, Goto
  <2>2. pc'[Deinit] = "ended" /\ \A u \in Agents \ {Deinit} : pc'[u] = pc[u]
    BY <1>0, <2>1
  <2>3. Members = {}
    <3>1. \A u \in Destroyers : pc[u] # "deleting"
      BY <1>0, SoleFacts DEF Ending, Destroying
    <3>2. \A c \in Channels : pc[Opener(c)] # "adding"
      BY <1>0 DEF ListInv, ChannelsInv
    <3>3. \A u \in Agents : ~Critical(u)
      <4>1. \A u \in Destroyers : pc[u] # "adding"
        BY DEF TypeOK, Destroying
      <4>2. \A u \in Openers : pc[u] \notin {"adding", "deleting"}
        BY <3>2 DEF TypeOK, Openers
      <4> QED BY <3>1, <4>1, <4>2 DEF Critical, Agents
    <3>4. Whole
      BY <3>3 DEF ListInv, RingInv
    <3> QED BY <1>1, <1>3, <3>4, EmptyRing
  <2>4. SoleInv'
    <3>1. \A c \in Channels : HasSession(c) => HasSession(c)'
      BY <2>1 DEF HasSession
    <3> QED BY <1>0, <2>1, <2>2, <3>1, EndingKeeps
  <2>5. DeinitInv'
    BY <1>2, <2>2, <2>3 DEF DeinitInv
  <2> QED BY <2>1, <2>4, <2>5
<1>4. CASE ahead # ListHead
  <2>0. PICK e \in Members : e = ahead /\ e \in Entries /\ e \in Ring
    BY <1>1, <1>4
  <2>1. /\ sessp' = [sessp EXCEPT ![Deinit] = e]
        /\ tmp' = [tmp EXCEPT ![Deinit] = e]
        /\ pc' = [pc EXCEPT ![Deinit] = "walking"]
        /\ ahead' = links[e]["next"]
        /\ links' = links /\ owner' = owner /\ addr' = addr /\ fault' = fault
    BY <1>1, <1>4, <2>0 DEF DeinitGoesOn, BeginDestroy, Goto
  <2>2. /\ pc'[Deinit] = "walking" /\ \A u \in Agents \ {Deinit} : pc'[u] = pc[u]
        /\ sessp'[Deinit] = e /\ tmp'[Deinit] = e
        /\ \A u \in Destroyers \ {Deinit} : sessp'[u] = sessp[u]
    BY <1>0, <2>1
  <2>3. SoleInv'
    <3>1. \A c \in Channels : HasSession(c) => HasSession(c)'
      BY <2>1 DEF HasSession
    <3>2. "walking" \in {"looping", "ended"} \cup Destroying /\ e \in Ring'
      BY <1>2, <2>0 DEF Destroying
    <3> QED BY <1>0, <2>1, <2>2, <3>1, <3>2, EndingKeeps
  <2>4. DeinitInv'
    BY <1>1, <2>0, <2>1, <2>2 DEF DeinitInv
  <2> QED BY <2>1, <2>3, <2>4
<1> QED BY <1>3, <1>4

\* Every step keeps what holds as long as one session at a time is destroyed.
LEMMA StepAlone == TypeOK /\ ListInv /\ AloneInv /\ [Next]_vars => AloneInv'
<1> SUFFICES ASSUME TypeOK, ListInv, AloneInv, [Next]_vars, ~overlap'
             PROVE  SoleInv' /\ DeinitInv' /\ fault' \in {"none", "user"}
  BY DEF AloneInv
<1>1. ~overlap
  BY DEF Next, vars, Create, CreateFails, Open, BeginInsert, EndInsert, WriteNext, WriteLast,
         ThreadEnds, ThreadRunsOn, UseStaleId, Fault, Destroy, Search, BeginRemove, EndRemove,
         Free, DeinitBegins, DeinitGoesOn, BeginDestroy
<1>2. SoleInv /\ DeinitInv /\ fault \in {"none", "user"}
  BY <1>1 DEF AloneInv
<1>3. ASSUME UNCHANGED vars PROVE SoleInv' /\ DeinitInv' /\ fault' = fault
  BY <1>2, <1>3
  DEF vars, SoleInv, DeinitInv, Ending, HasSession, Ring, Members, Registered, Allocated,
      Removing, RestOf
<1>4. ASSUME NEW c \in Channels, UseStaleId(c)
      PROVE  SoleInv' /\ DeinitInv' /\ fault' \in {"none", "user"}
  BY <1>2, <1>4
  DEF UseStaleId, Fault, SoleInv, DeinitInv, Ending, HasSession, Ring, Members, Registered,
      Allocated, Removing, RestOf
<1>5. ASSUME NEW c \in Channels, Create(c) \/ CreateFails(c) \/ Open(c)
      PROVE  SoleInv' /\ DeinitInv' /\ fault' = fault
  BY <1>2, <1>5, AloneOpens
<1>6. ASSUME NEW c \in Channels PROVE ~ThreadRunsOn(c)
  BY <1>2 DEF ThreadRunsOn, SoleInv
<1>7. ASSUME NEW c \in Channels, ThreadEnds(c)
      PROVE  SoleInv' /\ DeinitInv' /\ fault' = fault
  BY <1>2, <1>7, AloneThreadEnds
<1>8. ASSUME fault = "none", NEW t \in Destroyers, Destroy(t)
      PROVE  SoleInv' /\ DeinitInv' /\ fault' = fault
  BY <1>2, <1>8, AloneSearch, AloneBeginRemove, AloneEndRemove, AloneFree, AloneRemoving
  DEF Destroy
<1>9. ASSUME DeinitBegins \/ DeinitGoesOn
      PROVE  SoleInv' /\ DeinitInv' /\ fault' = fault
  BY <1>2, <1>9, AloneDeinitBegins, AloneDeinitGoesOn
<1> QED BY <1>2, <1>3, <1>4, <1>5, <1>6, <1>7, <1>8, <1>9 DEF Next

-----------------------------------------------------------------------------

\* The invariants hold in every reachable state: the list is a ring of the
\* sessions whose list_add_tail() returned and that nobody unlinked, but for
\* the pointers that the one agent that holds the mutex has still to write
\* (rtsp_cli.c:340-365).
THEOREM ListHolds == Spec => [](TypeOK /\ ListInv /\ AloneInv)
<1>1. TypeOK /\ ListInv /\ AloneInv /\ [Next]_vars => (TypeOK /\ ListInv /\ AloneInv)'
  BY StepList, StepAlone
<1> QED BY <1>1, InitList, PTL DEF Spec

\* The variables of the sessions and of the list have their types, whatever
\* runs at once (rtsp_cli.c:232-376).
THEOREM ListTypes == Spec => []TypeOK
  BY ListHolds, PTL

\* Whatever runs at once, for those who walk the list an insertion and a
\* removal are each one step: the sessions of the list change with the last
\* write of list_add_tail() and of list_del() and never otherwise, not even
\* after a fault or for a memory that is used again (rtsp_cli.c:340-365).
THEOREM ListChangesAtOnce == Spec => [][RegistryStep]_vars
<1>1. TypeOK /\ ListInv /\ [Next]_vars => [RegistryStep]_vars
  BY StepList
<1> QED BY <1>1, ListHolds, PTL DEF Spec

\* As long as no two destroy_rtsp_sess() meet, and deinit_rtsp_cli() is called
\* when the threads have ended, nothing touches memory that is gone but the
\* application's stale ID (rtsp_cli.c:340-376): a walk without the mutex past
\* sessions that are being inserted is safe.
THEOREM OneEndSafe == Spec => []OneEndIsSafe
<1>1. AloneInv => OneEndIsSafe
  BY DEF AloneInv, OneEndIsSafe
<1> QED BY <1>1, ListHolds, PTL

\* deinit_rtsp_cli() leaves no session that was opened (librtspcli.c:86-90).
THEOREM DeinitLeavesNone == Spec => []DeinitFreesAll
<1>1. TypeOK /\ ListInv /\ AloneInv => DeinitFreesAll
  <2> SUFFICES ASSUME TypeOK, ListInv, AloneInv, pc[Deinit] = "ended", ~overlap,
                      NEW c \in Channels, pc[Opener(c)] = "open", HasSession(c)
               PROVE  FALSE
    BY DEF DeinitFreesAll
  <2>1. SoleInv /\ DeinitInv
    BY DEF AloneInv
  <2>2. Members = {}
    BY <2>1 DEF DeinitInv
  <2>3. addr[c] \in Entries /\ Registered(addr[c])
    BY MemberFacts DEF HasSession, Registered
  <2>4. \A t \in Destroyers : pc[t] # "unlinked"
    BY <2>1, AgentFacts DEF SoleInv
  <2> QED BY <2>2, <2>3, <2>4 DEF Members
<1> QED BY <1>1, ListHolds, PTL

\* A walk from the head meets only allocated sessions, at every moment of an
\* insertion or a removal, and when list_mutex is free the list is whole in both
\* directions (rtsp_cli.c:331, 340-342, 352-374).
THEOREM ListIsIntact == Spec => []ListIntact
<1>1. TypeOK /\ ListInv => ListIntact
  <2> SUFFICES ASSUME TypeOK, ListInv
               PROVE  /\ Listed(links) \subseteq Allocated
                      /\ mutex = Unlocked => Holds(links, Listing)
    BY DEF ListIntact, Listing
  <2>1. ListingInv
    BY WalksMeetReached
  <2>2. DOMAIN Listing = 1 .. Len(Listing)
    BY <2>1, LenProperties DEF ListingInv
  <2>3. Listed(links) \subseteq Allocated
    <3>1. Listed(links) = {Listing[i] : i \in DOMAIN Listing}
      BY DEF Listed, Listing
    <3> QED BY <2>1, <2>2, <3>1, ReachedLeads, MemberFacts DEF ListingInv
  <2>4. ASSUME mutex = Unlocked PROVE Holds(links, Listing)
    <3>1. \A t \in Agents : ~Critical(t)
      BY <2>4, AgentFacts DEF ListInv, AgentsInv
    <3>2. Whole
      BY <3>1 DEF ListInv, RingInv
    <3>3. \A p \in Reached \cup {ListHead} : links[links[p]["next"]]["prev"] = p
      BY <3>2, ReachedLeads DEF Whole, Ring
    <3> QED BY <2>1, <3>3, RoundHolds DEF ListingInv
  <2> QED BY <2>3, <2>4
<1> QED BY <1>1, ListHolds, PTL

\* Whatever runs at once, the list of pointers implements the registry: for a
\* walk from the head each channel enters once, behind the others, and leaves
\* once, and the others keep their order (rtsp_cli.c:340-342, 363-365).
THEOREM ListIsRegistry == Spec => RegistrySpec
<1>1. Init => Registry!Init
  <2> SUFFICES ASSUME Init PROVE Registry!Init
    OBVIOUS
  <2>1. TypeOK /\ ListInv
    BY InitList
  <2>2. ListingInv
    BY <2>1, WalksMeetReached
  <2>3. \A c \in Channels : pc[Opener(c)] # "open"
    BY AgentFacts DEF Init
  <2>4. Reached = {}
    BY <2>3, MemberFacts, <2>1 DEF Reached, Members, Registered
  <2>5. Len(Listing) = 0
    <3>1. \A i \in 1 .. Len(Listing) : FALSE
      BY <2>2, <2>4 DEF ListingInv
    <3> QED BY <2>2, <3>1 DEF ListingInv
  <2>6. ListedChannels = <<>>
    BY <2>1, <2>5, ListedFacts, EmptySeq
  <2> QED BY <2>3, <2>6 DEF Registry!Init
<1>2. TypeOK' /\ ListInv' => ListingInv'
  BY WalksMeetReached, PTL
<1>3. TypeOK /\ ListInv /\ (TypeOK /\ ListInv)' /\ [Next]_vars => [Registry!Next]_Registry!vars
  BY <1>2, StepRegistry DEF Registry!Next, Registry!vars, Gone
<1> QED BY <1>1, <1>3, ListHolds, PTL DEF Spec, RegistrySpec, Registry!Spec
=============================================================================
