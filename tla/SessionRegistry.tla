-------------------------- MODULE SessionRegistry ---------------------------
(***************************************************************************)
(* What the list of sessions promises: each channel enters it at most      *)
(* once, at the end, and leaves it at most once, whatever the others do.   *)
(***************************************************************************)
EXTENDS Integers, SequencesExt

CONSTANT Channels

VARIABLES
    registered,     \* the channels in the list, in order
    gone            \* the channels that have left it

vars == <<registered, gone>>

Init == registered = << >> /\ gone = {}

Register(c) ==
    /\ c \notin ToSet(registered) \cup gone
    /\ registered' = Append(registered, c)
    /\ UNCHANGED gone

Leave(c) ==
    /\ \E i \in 1 .. Len(registered) :
          registered[i] = c /\ registered' = RemoveAt(registered, i)
    /\ gone' = gone \cup {c}

Next == \E c \in Channels : Register(c) \/ Leave(c)

Spec == Init /\ [][Next]_vars
=============================================================================
