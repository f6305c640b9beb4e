----------------------------- MODULE LinkedList -----------------------------
(***************************************************************************)
(* The circular doubly linked list of list.h, pointer by pointer.  The     *)
(* operations are what the compiled code does to memory: a sequence of     *)
(* writes, each to one pointer of one cell, after the pointers the         *)
(* operation needs were read.  A module that uses a list performs the      *)
(* writes one at a time when other threads may look in between.            *)
(***************************************************************************)
EXTENDS Naturals, Sequences, FiniteSets

CONSTANTS
    Entries,        \* the memory in which entries are allocated
    ListHead,       \* the list_head that stands for the list itself
    NULL,           \* what mallocz() leaves in a new entry
    LIST_POISON     \* LIST_POISON1 and LIST_POISON2

ASSUME ListAssumption ==
    /\ IsFiniteSet(Entries)
    /\ ListHead \notin Entries
    /\ {NULL, LIST_POISON} \cap (Entries \cup {ListHead}) = {}

-----------------------------------------------------------------------------

Cells == Entries \cup {ListHead}
Pointers == Cells \cup {NULL, LIST_POISON}
Fields == {"next", "prev"}
Links == [Cells -> [Fields -> Pointers]]
Writes == [at : Cells, field : Fields, to : Pointers]

\* INIT_LIST_HEAD of the head; the entries hold what an allocation leaves.
EmptyList == [c \in Cells |-> [f \in Fields |-> IF c = ListHead THEN ListHead ELSE NULL]]

Write(at, field, to) == [at |-> at, field |-> field, to |-> to]

Put(l, w) == [l EXCEPT ![w.at][w.field] = w.to]

\* Mutant: the new entry does not point back to its predecessor.
ListAddNoPrev(new, prev, next) ==
    << Write(next, "prev", new), Write(new, "next", next), Write(prev, "next", new) >>

\* __list_add
ListAdd(new, prev, next) ==
    << Write(next, "prev", new), Write(new, "next", next),
       Write(new, "prev", prev), Write(prev, "next", new) >>

\* Mutant: list_add, which makes a stack.
ListAddFirst(l, new) == ListAdd(new, ListHead, l[ListHead]["next"])

\* list_add_tail, once head->prev is read
ListAddTail(l, new) == ListAdd(new, l[ListHead]["prev"], ListHead)

\* Mutant: only the successor of the entry learns of the deletion.
ListDelBackOnly(l, entry) ==
    << Write(l[entry]["next"], "prev", l[entry]["prev"]),
       Write(entry, "next", LIST_POISON), Write(entry, "prev", LIST_POISON) >>

\* list_del, once entry->prev and entry->next are read
ListDel(l, entry) ==
    << Write(l[entry]["next"], "prev", l[entry]["prev"]),
       Write(l[entry]["prev"], "next", l[entry]["next"]),
       Write(entry, "next", LIST_POISON), Write(entry, "prev", LIST_POISON) >>

ListEmpty(l) == l[ListHead]["next"] = ListHead

-----------------------------------------------------------------------------
(* What the list holds for a walk that nobody disturbs.                    *)

\* The entries met from the head along one field, until the head, a pointer
\* that is no entry, or as many steps as there are entries.
Walk(l, field) ==
    LET walk[n \in 0..Cardinality(Entries)] ==
            IF n = 0 THEN << >>
            ELSE LET met  == walk[n - 1]
                     here == IF met = << >> THEN ListHead ELSE met[Len(met)]
                     after == l[here][field]
                 IN  IF after \in Entries THEN Append(met, after) ELSE met
    IN  walk[Cardinality(Entries)]

Listed(l) == LET w == Walk(l, "next") IN {w[i] : i \in DOMAIN w}

\* The list holds exactly the entries of the sequence s, in both directions.
Holds(l, s) ==
    LET n == Len(s)
        cell(i) == IF i \in 1..n THEN s[i] ELSE ListHead
    IN  \A i \in 0..n :
            /\ l[cell(i)]["next"] = cell(i + 1)
            /\ l[cell(i + 1)]["prev"] = cell(i)
=============================================================================
