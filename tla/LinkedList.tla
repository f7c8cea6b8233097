------------------------------ MODULE LinkedList ------------------------------
(***************************************************************************)
(* Lesson 13 (013_linked_list/linked_list.c): writes append a node to a    *)
(* kernel list, reads walk it, the exit function deletes it; no lock.      *)
(*                                                                         *)
(* A node is its number; it is listed by the links of list_add_tail, four  *)
(* stores of one writer among the steps of everybody else.  In an ordered  *)
(* behaviour they are made as <linux/list.h> writes them; otherwise in any *)
(* order, as the compiler or a second core may have it.                    *)
(***************************************************************************)
EXTENDS Integers, Sequences, FiniteSets

CONSTANTS
  NumNodes,  \* bound: how many nodes kmalloc has for one load of the module
  Writers,   \* writing processes
  Readers,   \* reading processes
  Room,      \* how many lines fit into the 256 bytes of a read
  Orders     \* the values of "ordered" that are looked at

ASSUME SizesAssumption == NumNodes \in Nat /\ Room \in Nat
ASSUME OrdersAssumption == Orders \subseteq BOOLEAN

HeadNode == 0
Nodes == 1..NumNodes
Links == {HeadNode} \cup Nodes     \* whatever holds a struct list_head
Nil == -1                      \* no node: poison, or nobody is walking

VARIABLES
  ordered,   \* stores are made in program order
  phase,     \* the module: "live", "exit" or "gone"
  next, prev,\* the links
  life,      \* life[n]: "unused", "used" (allocated) or "freed"
  at,        \* at[w]: "idle", "begun" (node allocated), "linking"
  new,       \* new[w]: the writer's node
  tail,      \* tail[w]: what it found in head_node.prev
  todo,      \* todo[w]: which of its four stores are not made yet
  cur,       \* cur[r]: where the reader is
  got,       \* got[r]: the lines it has counted in its buffer
  pos,       \* where delete_all_nodes is
  added,     \* history: the nodes published, in order
  raced,     \* history: two writers were linking at a time
  began      \* history: began[r]: Len(added) when the read began, -1 outside

module == <<phase, life>>
writers == <<at, new, tail, todo>>
readers == <<cur, got, began>>
vars == <<ordered, phase, next, prev, life, at, new, tail, todo, cur, got,
          pos, added, raced, began>>

(* LIST_HEAD(head_node), and memory that nobody has allocated yet.         *)
FreshLinks == [x \in Links |-> IF x = HeadNode THEN HeadNode ELSE Nil]
Nobody == [w \in Writers |-> Nil]

Init ==
  /\ ordered \in Orders
  /\ phase = "live"
  /\ next = FreshLinks /\ prev = FreshLinks
  /\ life = [n \in Nodes |-> "unused"]
  /\ at = [w \in Writers |-> "idle"]
  /\ new = Nobody /\ tail = Nobody
  /\ todo = [w \in Writers |-> {}]
  /\ cur = [r \in Readers |-> Nil]
  /\ got = [r \in Readers |-> <<>>]
  /\ pos = HeadNode
  /\ added = <<>>
  /\ raced = FALSE
  /\ began = [r \in Readers |-> -1]

-----------------------------------------------------------------------------
(* Writers.  rootv_write has its number; kmalloc gives a node, which       *)
(* INIT_LIST_HEAD points to itself.  Without memory the write changes      *)
(* nothing.  The two stores of INIT_LIST_HEAD belong to this step in every *)
(* behaviour: they are not put off beyond the stores of __list_add.        *)
Allocate(w) ==
  /\ phase = "live" /\ at[w] = "idle"
  /\ \E n \in Nodes :
       /\ life[n] = "unused" /\ \A m \in 1..(n - 1) : life[m] # "unused"
       /\ life' = [life EXCEPT ![n] = "used"]
       /\ new' = [new EXCEPT ![w] = n]
       /\ next' = [next EXCEPT ![n] = n]
       /\ prev' = [prev EXCEPT ![n] = n]
  /\ at' = [at EXCEPT ![w] = "begun"]
  /\ UNCHANGED <<ordered, phase, tail, todo, readers, pos, added, raced>>

\* Mutant: list_add instead of list_add_tail.
LoadTail_M(w) ==
  /\ at[w] = "begun"
  /\ tail' = [tail EXCEPT ![w] = HeadNode]
  /\ todo' = [todo EXCEPT ![w] = 1..4]
  /\ raced' = (raced \/ \E v \in Writers : todo[v] # {})
  /\ at' = [at EXCEPT ![w] = "linking"]
  /\ UNCHANGED <<ordered, module, next, prev, new, readers, pos, added>>

(* list_add_tail evaluates head->prev.                                     *)
LoadTail(w) ==
  /\ at[w] = "begun"
  /\ tail' = [tail EXCEPT ![w] = prev[HeadNode]]
  /\ todo' = [todo EXCEPT ![w] = 1..4]
  /\ raced' = (raced \/ \E v \in Writers : todo[v] # {})
  /\ at' = [at EXCEPT ![w] = "linking"]
  /\ UNCHANGED <<ordered, module, next, prev, new, readers, pos, added>>

\* Mutant: the node is published before its own links are set.
Store_M(w, s) ==
  /\ s \in todo[w]
  /\ ordered => \A t \in todo[w] : s >= t
  /\ todo' = [todo EXCEPT ![w] = @ \ {s}]
  /\ UNCHANGED <<ordered, module, at, new, tail, readers, pos, raced>>

(* The four stores of __list_add.                                          *)
Store(w, s) ==
  /\ s \in todo[w]
  /\ ordered => \A t \in todo[w] : s <= t
  /\ todo' = [todo EXCEPT ![w] = @ \ {s}]
  /\ UNCHANGED <<ordered, module, at, new, tail, readers, pos, raced>>

StoreHeadPrev(w) ==
  /\ Store(w, 1)
  /\ prev' = [prev EXCEPT ![HeadNode] = new[w]]
  /\ UNCHANGED <<next, added>>

StoreNewNext(w) ==
  /\ Store(w, 2)
  /\ next' = [next EXCEPT ![new[w]] = HeadNode]
  /\ UNCHANGED <<prev, added>>

\* Mutant: next and prev of the neighbour swapped.
StoreNewPrev_M(w) ==
  /\ Store(w, 3)
  /\ prev' = [prev EXCEPT ![new[w]] = HeadNode]
  /\ UNCHANGED <<next, added>>

StoreNewPrev(w) ==
  /\ Store(w, 3)
  /\ prev' = [prev EXCEPT ![new[w]] = tail[w]]
  /\ UNCHANGED <<next, added>>

StoreTailNext(w) ==
  /\ Store(w, 4)
  /\ next' = [next EXCEPT ![tail[w]] = new[w]]
  /\ added' = Append(added, new[w])
  /\ UNCHANGED prev

LinkStep(w) ==
  StoreHeadPrev(w) \/ StoreNewNext(w) \/ StoreNewPrev(w) \/ StoreTailNext(w)

(* "new node added", and the write returns.                                *)
Added(w) ==
  /\ at[w] = "linking" /\ todo[w] = {}
  /\ at' = [at EXCEPT ![w] = "idle"]
  /\ UNCHANGED <<ordered, module, next, prev, new, tail, todo, readers, pos,
                 added, raced>>

-----------------------------------------------------------------------------
(* Readers: list_for_each_entry from the head's next until the head.       *)
ReadBegin(r) ==
  /\ phase = "live" /\ cur[r] = Nil
  /\ cur' = [cur EXCEPT ![r] = next[HeadNode]]
  /\ got' = [got EXCEPT ![r] = <<>>]
  /\ began' = [began EXCEPT ![r] = Len(added)]
  /\ UNCHANGED <<ordered, module, next, prev, writers, pos, added, raced>>

\* Mutant: a full buffer ends the turn, not the loop.
ReadNode_M(r) ==
  /\ cur[r] \in Nodes /\ Len(got[r]) <= Room
  /\ got' = [got EXCEPT ![r] = Append(@, cur[r])]
  /\ cur' = [cur EXCEPT ![r] = next[cur[r]]]
  /\ UNCHANGED <<ordered, module, next, prev, writers, pos, added, raced,
                 began>>

(* snprintf counts a line while the position is within the buffer, also    *)
(* the line that reaches beyond; then its size is negative and it counts   *)
(* nothing.                                                                *)
ReadNode(r) ==
  /\ cur[r] \in Nodes
  /\ got' = [got EXCEPT ![r] = IF Len(@) <= Room THEN Append(@, cur[r]) ELSE @]
  /\ cur' = [cur EXCEPT ![r] = next[cur[r]]]
  /\ UNCHANGED <<ordered, module, next, prev, writers, pos, added, raced,
                 began>>

(* The text is copied from the buffer.                                     *)
ReadReturn(r) ==
  /\ cur[r] = HeadNode
  /\ cur' = [cur EXCEPT ![r] = Nil]
  /\ began' = [began EXCEPT ![r] = -1]
  /\ UNCHANGED <<ordered, module, next, prev, writers, got, pos, added, raced>>

-----------------------------------------------------------------------------
(* rmmod, refused while somebody has the file open; linked_list_driver_exit *)
(* begins with delete_all_nodes.                                           *)
Rmmod ==
  /\ phase = "live"
  /\ \A w \in Writers : at[w] = "idle"
  /\ \A r \in Readers : cur[r] = Nil
  /\ phase' = "exit"
  /\ pos' = next[HeadNode]
  /\ UNCHANGED <<ordered, next, prev, life, writers, readers, added, raced>>

\* Mutant: kfree without list_del.
DeleteNode_M2 ==
  /\ phase = "exit" /\ pos # HeadNode
  /\ life' = [life EXCEPT ![pos] = "freed"]
  /\ pos' = next[pos]
  /\ UNCHANGED <<ordered, phase, next, prev, writers, readers, added, raced>>

(* list_del, which poisons the links, and kfree; the successor was loaded  *)
(* before them.                                                            *)
DeleteNode ==
  /\ phase = "exit" /\ pos # HeadNode
  /\ next' = [next EXCEPT ![prev[pos]] = next[pos], ![pos] = Nil]
  /\ prev' = [prev EXCEPT ![next[pos]] = prev[pos], ![pos] = Nil]
  /\ life' = [life EXCEPT ![pos] = "freed"]
  /\ pos' = next[pos]
  /\ UNCHANGED <<ordered, phase, writers, readers, added, raced>>

\* Mutant: the loop ends one node early.
ExitReturn_M ==
  /\ phase = "exit" /\ (pos = HeadNode \/ next[pos] = HeadNode)
  /\ phase' = "gone"
  /\ UNCHANGED <<ordered, next, prev, life, writers, readers, pos, added,
                 raced>>

ExitReturn ==
  /\ phase = "exit" /\ pos = HeadNode
  /\ phase' = "gone"
  /\ UNCHANGED <<ordered, next, prev, life, writers, readers, pos, added,
                 raced>>

(* A new load has its own data section; what the last one leaked is not    *)
(* looked at any more.                                                     *)
Insmod ==
  /\ phase = "gone"
  /\ phase' = "live"
  /\ next' = FreshLinks /\ prev' = FreshLinks
  /\ life' = [n \in Nodes |-> "unused"]
  /\ new' = Nobody /\ tail' = Nobody
  /\ got' = [r \in Readers |-> <<>>]
  /\ added' = <<>>
  /\ raced' = FALSE
  /\ UNCHANGED <<ordered, at, todo, cur, pos, began>>

-----------------------------------------------------------------------------
Writer(w) == Allocate(w) \/ LoadTail(w) \/ LinkStep(w) \/ Added(w)
Reader(r) == ReadBegin(r) \/ ReadNode(r) \/ ReadReturn(r)
Module == Rmmod \/ DeleteNode \/ ExitReturn \/ Insmod

Next ==
  \/ \E w \in Writers : Writer(w)
  \/ \E r \in Readers : Reader(r)
  \/ Module

Safety == Init /\ [][Next]_vars

(* Runnable processes run: a write that has begun to link goes on, a read  *)
(* goes on, and so does the exit function.                                 *)
Fairness ==
  /\ \A w \in Writers : WF_vars(LinkStep(w))
  /\ \A r \in Readers : WF_vars(ReadNode(r) \/ ReadReturn(r))
  /\ WF_vars(DeleteNode \/ ExitReturn)

Spec == Safety /\ Fairness

-----------------------------------------------------------------------------
(* Every variable has its type.                                            *)
TypeOK ==
  /\ ordered \in BOOLEAN
  /\ phase \in {"live", "exit", "gone"}
  /\ next \in [Links -> Links \cup {Nil}]
  /\ prev \in [Links -> Links \cup {Nil}]
  /\ life \in [Nodes -> {"unused", "used", "freed"}]
  /\ at \in [Writers -> {"idle", "begun", "linking"}]
  /\ new \in [Writers -> Nodes \cup {Nil}]
  /\ tail \in [Writers -> Links \cup {Nil}]
  /\ todo \in [Writers -> SUBSET (1..4)]
  /\ cur \in [Readers -> Links \cup {Nil}]
  /\ got \in [Readers -> Seq(Nodes)]
  /\ pos \in Links
  /\ added \in Seq(Nodes)
  /\ raced \in BOOLEAN
  /\ began \in [Readers -> Nat \cup {-1}]

(* The node that w is linking or about to link.                            *)
InHand(n) == \E w \in Writers : at[w] # "idle" /\ new[w] = n

(* Forward and backward links agree at every node that a writer is done    *)
(* with, however many writers have been linking at a time: lost updates    *)
(* may cut nodes off, but list_del of a node that is listed is right.      *)
LinksAgree ==
  \A x \in Links, y \in Nodes :
    next[x] = y /\ ~InHand(y) => prev[y] = x

(* No link of a freed node is followed or written: a reader stands on an   *)
(* allocated node, and delete_all_nodes frees one and relinks two others,  *)
(* also after writers have collided.  (Its log line reads the number of    *)
(* the node just freed, linked_list.c:49; numbers are not modelled.)       *)
FreedUntouched ==
  /\ \A r \in Readers : cur[r] \in Nodes => life[cur[r]] = "used"
  /\ phase = "exit" /\ pos # HeadNode =>
       \A x \in {pos, next[pos], prev[pos]} :
         x # HeadNode => x \in Nodes /\ life[x] = "used"

(* If the stores are made in order, no read meets a node twice: not in the *)
(* middle of a write, and not in a list on which writers have collided.    *)
NoNodeTwice ==
  ordered => \A r \in Readers :
    \A i, j \in 1..Len(got[r]) : got[r][i] = got[r][j] => i = j

(* If no two writers were linking at a time, unloading frees every node    *)
(* that was allocated.                                                     *)
NothingLeaks ==
  phase = "gone" /\ ~raced => \A n \in Nodes : life[n] # "used"

(* A read comes to the end of the list and unloading ends, whatever the    *)
(* writers have done to the list and in whatever order.                    *)
WalksEnd ==
  /\ \A r \in Readers : cur[r] # Nil ~> cur[r] = Nil
  /\ phase = "exit" ~> phase = "gone"

(* With ordered stores and one writer at a time this is the append-only    *)
(* list: a write appends in one step (its last store), a read returns what *)
(* was there when it began, in order and each number once, up to the size  *)
(* of its buffer.                                                          *)
Intact == ordered /\ ~raced

Returned(r) ==
  IF Intact /\ cur[r] = Nil
  THEN SubSeq(got[r], 1, IF Len(got[r]) <= Room THEN Len(got[r]) ELSE Room)
  ELSE <<>>

Abstract ==
  INSTANCE AppendOnlyList WITH
    intact <- Intact,
    items <- IF Intact THEN added ELSE <<>>,
    began <- IF Intact THEN began ELSE [r \in Readers |-> -1],
    result <- [r \in Readers |-> Returned(r)]

Implements == Abstract!Spec

(* Violated: linked_list.c:39 logs "new node added with value: %d" for     *)
(* every node; when all writes have returned, what was logged is listed.   *)
Walk[k \in 0..NumNodes] ==
  IF k = 0 THEN HeadNode ELSE next[Walk[k - 1]]

AddedNodesListed ==
  phase = "live" /\ (\A w \in Writers : at[w] = "idle") =>
    \A n \in Nodes : life[n] = "used" => \E k \in 1..NumNodes : Walk[k] = n
=============================================================================
