--------------------------- MODULE LinkedListProofs ---------------------------
(***************************************************************************)
(* Proofs about LinkedList, for any number of nodes, writers and readers   *)
(* and any size of the buffer: first, for every order of the stores, the   *)
(* types, the agreement of the links and the safety of unloading; then the *)
(* refinement of AppendOnlyList.                                           *)
(***************************************************************************)
EXTENDS LinkedList, TLAPS

(* A pointer to an allocated node or to the head.                          *)
Valid(x) == x = HeadNode \/ (x \in Nodes /\ life[x] = "used")

(* Allocated nodes point to allocated nodes, the others nowhere.           *)
LinkInv ==
  \A x \in Links : IF Valid(x) THEN Valid(next[x]) ELSE next[x] = Nil

(* Writers at work have a node each, in a loaded module.                   *)
OwnInv ==
  \A w \in Writers :
    /\ todo[w] # {} => at[w] = "linking"
    /\ at[w] # "idle" =>
         /\ phase = "live"
         /\ new[w] \in Nodes /\ life[new[w]] = "used"
         /\ \A v \in Writers : at[v] # "idle" /\ new[v] = new[w] => v = w

(* What refers to a node in somebody's hand, and what its writer has done. *)
StepOf(w) ==
  at[w] # "idle" =>
    /\ \A x \in Links : next[x] = new[w] =>
         \/ x = new[w]
         \/ at[w] = "linking" /\ x = tail[w] /\ 4 \notin todo[w]
    /\ prev[HeadNode] = new[w] => at[w] = "linking"
    /\ at[w] = "linking" =>
         /\ Valid(tail[w]) /\ tail[w] # new[w]
         /\ 2 \notin todo[w] => next[new[w]] # new[w]
         /\ 3 \notin todo[w] => prev[new[w]] = tail[w]

StepInv == \A w \in Writers : StepOf(w)

(* Nobody works outside a loaded module; the exit function deletes the     *)
(* first node each time.                                                   *)
PhaseInv ==
  /\ phase = "live" => Valid(prev[HeadNode])
  /\ phase = "exit" => pos = next[HeadNode]
  /\ phase # "live" => \A r \in Readers : cur[r] = Nil

(* Readers stand on allocated nodes.                                       *)
ReadInv == \A r \in Readers : cur[r] = Nil \/ Valid(cur[r])

Inv ==
  TypeOK /\ LinkInv /\ OwnInv /\ StepInv /\ PhaseInv /\ ReadInv /\ LinksAgree

USE SizesAssumption, OrdersAssumption
USE DEF HeadNode, Nodes, Links, Nil

-----------------------------------------------------------------------------
(* The initial state.                                                      *)
LEMMA InitInv == Init => Inv
<1> SUFFICES ASSUME Init PROVE Inv
  OBVIOUS
<1> USE DEF Init, FreshLinks, Nobody
<1>1. TypeOK
  <2>1. ordered \in BOOLEAN /\ raced \in BOOLEAN
    OBVIOUS
  <2>2. got \in [Readers -> Seq(Nodes)] /\ added \in Seq(Nodes)
    OBVIOUS
  <2>3. next \in [Links -> Links \cup {Nil}]
    OBVIOUS
  <2>4. QED
    BY <2>1, <2>2, <2>3 DEF TypeOK
<1>2. LinkInv /\ LinksAgree
  BY DEF LinkInv, LinksAgree, Valid
<1>3. OwnInv /\ StepInv /\ PhaseInv /\ ReadInv
  BY DEF OwnInv, StepInv, StepOf, PhaseInv, ReadInv, Valid
<1>4. QED
  BY <1>1, <1>2, <1>3 DEF Inv

(* A write begins: nothing refers to the new node but itself.              *)
LEMMA AllocateInv ==
  ASSUME Inv, NEW w \in Writers, Allocate(w)
  PROVE  Inv'
<1>1. PICK n \in Nodes :
        /\ life[n] = "unused"
        /\ life' = [life EXCEPT ![n] = "used"]
        /\ new' = [new EXCEPT ![w] = n]
        /\ next' = [next EXCEPT ![n] = n]
        /\ prev' = [prev EXCEPT ![n] = n]
  BY DEF Allocate
<1>2. /\ at' = [at EXCEPT ![w] = "begun"] /\ at[w] = "idle" /\ phase = "live"
      /\ UNCHANGED <<ordered, phase, tail, todo, readers, pos, added, raced>>
  BY DEF Allocate
<1>3. \A x \in Links : Valid(x) => Valid(x)' /\ x # n
  BY <1>1, <1>2 DEF Inv, TypeOK, Valid
<1>4. \A x \in Links : next[x] # n
  <2> SUFFICES ASSUME NEW x \in Links, next[x] = n PROVE FALSE
    OBVIOUS
  <2>1. ~Valid(n)
    BY <1>1 DEF Valid
  <2>2. next[x] = Nil
    BY <2>1, Zenon DEF Inv, LinkInv
  <2>3. QED
    BY <2>2
<1>5. \A v \in Writers : at[v] # "idle" => new[v] # n
  BY <1>1 DEF Inv, OwnInv
<1>6. TypeOK'
  BY <1>1, <1>2 DEF Inv, TypeOK, readers
<1>7. LinkInv'
  BY <1>1, <1>2, <1>3 DEF Inv, TypeOK, LinkInv, Valid
<1>8. OwnInv'
  BY <1>1, <1>2, <1>5 DEF Inv, TypeOK, OwnInv
<1>9. StepInv'
  <2> SUFFICES ASSUME NEW v \in Writers, at'[v] # "idle"
               PROVE  StepOf(v)'
    BY DEF StepInv, StepOf
  <2>1. CASE v = w
    <3>1. new'[v] = n /\ at'[v] = "begun"
      BY <1>1, <1>2, <2>1 DEF Inv, TypeOK
    <3>2. \A x \in Links : next'[x] = n => x = n
      BY <1>1, <1>4 DEF Inv, TypeOK
    <3>3. prev'[HeadNode] # n
      BY <1>1, <1>2 DEF Inv, TypeOK, PhaseInv, Valid
    <3>4. QED
      BY <3>1, <3>2, <3>3 DEF StepOf
  <2>2. CASE v # w
    <3>1. StepOf(v) /\ at'[v] = at[v] /\ new'[v] = new[v] /\ new[v] # n
          /\ todo'[v] = todo[v] /\ tail'[v] = tail[v] /\ new[v] \in Nodes
      BY <1>1, <1>2, <1>5, <2>2 DEF Inv, TypeOK, StepInv, OwnInv
    <3>2. prev'[HeadNode] = prev[HeadNode] /\ prev'[new[v]] = prev[new[v]]
      BY <1>1, <3>1 DEF Inv, TypeOK
    <3>3. \A x \in Links : x # n => next'[x] = next[x]
      BY <1>1 DEF Inv, TypeOK
    <3>4. next'[n] = n
      BY <1>1 DEF Inv, TypeOK
    <3>5. Valid(tail[v]) => Valid(tail[v])'
      BY <1>1, <1>2 DEF Inv, TypeOK, Valid
    <3>6. QED
      BY <3>1, <3>2, <3>3, <3>4, <3>5 DEF StepOf, Valid
  <2>3. QED
    BY <2>1, <2>2
<1>10. PhaseInv' /\ ReadInv'
  BY <1>1, <1>2, <1>3 DEF Inv, TypeOK, PhaseInv, ReadInv, Valid, readers
<1>11. LinksAgree'
  <2>1. InHand(n)'
    BY <1>1, <1>2 DEF InHand, Inv, TypeOK
  <2>2. \A y \in Nodes : InHand(y) => InHand(y)'
    BY <1>1, <1>2 DEF InHand, Inv, TypeOK
  <2>3. QED
    BY <1>1, <1>4, <2>1, <2>2 DEF LinksAgree, Inv, TypeOK
<1>12. QED
  BY <1>6, <1>7, <1>8, <1>9, <1>10, <1>11 DEF Inv

(* A write finds the last node: an allocated one, or the head.             *)
LEMMA LoadTailInv ==
  ASSUME Inv, NEW w \in Writers, LoadTail(w)
  PROVE  Inv'
<1> USE DEF LoadTail, module, readers
<1>1. TypeOK'
  BY DEF Inv, TypeOK, PhaseInv, OwnInv, Valid
<1>2. at' = [at EXCEPT ![w] = "linking"] /\ at[w] = "begun"
      /\ phase = "live" /\ todo' = [todo EXCEPT ![w] = 1..4]
  BY DEF Inv, OwnInv
<1>3. LinkInv' /\ ReadInv'
  BY DEF Inv, LinkInv, ReadInv, Valid
<1>4. OwnInv'
  BY <1>2 DEF Inv, TypeOK, OwnInv
<1>5. StepInv'
  <2> SUFFICES ASSUME NEW v \in Writers PROVE StepOf(v)'
    BY DEF StepInv
  <2>1. StepOf(v)
    BY DEF Inv, StepInv
  <2>2. CASE v = w
    <3>1. tail'[w] = prev[HeadNode] /\ todo'[w] = 1..4 /\ at'[w] = "linking"
      BY DEF Inv, TypeOK
    <3>2. Valid(prev[HeadNode]) /\ prev[HeadNode] # new[w]
      BY <1>2, <2>1, <2>2 DEF Inv, PhaseInv, StepOf
    <3>3. QED
      BY <1>2, <2>1, <2>2, <3>1, <3>2 DEF StepOf, Valid
  <2>3. CASE v # w
    <3>1. tail'[v] = tail[v] /\ todo'[v] = todo[v] /\ at'[v] = at[v]
      BY <2>3 DEF Inv, TypeOK
    <3>2. QED
      BY <2>1, <3>1 DEF StepOf, Valid
  <2>4. QED
    BY <2>2, <2>3
<1>6. PhaseInv'
  BY DEF Inv, PhaseInv, Valid
<1>7. LinksAgree'
  BY <1>2 DEF Inv, TypeOK, LinksAgree, InHand
<1>8. QED
  BY <1>1, <1>3, <1>4, <1>5, <1>6, <1>7 DEF Inv

(* What every store leaves alone.                                          *)
LEMMA StoreFrame ==
  ASSUME Inv, NEW w \in Writers, NEW s \in 1..4, Store(w, s)
  PROVE  /\ at[w] = "linking" /\ phase = "live" /\ s \in todo[w]
         /\ new[w] \in Nodes /\ life[new[w]] = "used"
         /\ StepOf(w) /\ Valid(tail[w]) /\ tail[w] \in Links
         /\ todo' = [todo EXCEPT ![w] = @ \ {s}]
         /\ todo' \in [Writers -> SUBSET (1..4)]
         /\ \A v \in Writers \ {w} : todo'[v] = todo[v]
         /\ \A v \in Writers \ {w} : at[v] # "idle" => new[v] # new[w]
         /\ todo'[w] = todo[w] \ {s}
         /\ UNCHANGED <<ordered, phase, life, at, new, tail, cur, got, began,
                        pos, raced>>
         /\ OwnInv' /\ ReadInv'
<1> USE DEF Store, module, readers
<1>1. at[w] = "linking" /\ s \in todo[w]
  BY DEF Inv, OwnInv
<1>2. /\ phase = "live" /\ new[w] \in Nodes /\ life[new[w]] = "used"
      /\ \A v \in Writers \ {w} : at[v] # "idle" => new[v] # new[w]
  BY <1>1 DEF Inv, OwnInv
<1>3. StepOf(w) /\ Valid(tail[w])
  BY <1>1 DEF Inv, StepInv, StepOf
<1>4. tail[w] \in Links
  BY <1>3 DEF Valid
<1>5. /\ todo' = [todo EXCEPT ![w] = @ \ {s}]
      /\ todo' \in [Writers -> SUBSET (1..4)]
      /\ \A v \in Writers \ {w} : todo'[v] = todo[v]
      /\ todo'[w] = todo[w] \ {s}
  BY DEF Inv, TypeOK
<1>6. UNCHANGED <<ordered, phase, life, at, new, tail, cur, got, began, pos,
                  raced>>
  OBVIOUS
<1>7. OwnInv'
  BY <1>1, <1>5, <1>6 DEF Inv, OwnInv
<1>8. ReadInv'
  BY <1>6 DEF Inv, ReadInv, Valid
<1>9. QED
  BY <1>1, <1>2, <1>3, <1>4, <1>5, <1>6, <1>7, <1>8

(* head_node.prev refers to the new node now.                              *)
LEMMA StoreHeadPrevInv ==
  ASSUME Inv, NEW w \in Writers, StoreHeadPrev(w)
  PROVE  Inv'
<1>1. Store(w, 1) /\ prev' = [prev EXCEPT ![HeadNode] = new[w]]
      /\ UNCHANGED <<next, added>>
  BY DEF StoreHeadPrev
<1>2. TypeOK'
  BY <1>1, StoreFrame DEF Inv, TypeOK
<1>3. LinkInv' /\ PhaseInv'
  BY <1>1, StoreFrame DEF Inv, TypeOK, LinkInv, PhaseInv, Valid
<1>4. StepInv'
  <2> SUFFICES ASSUME NEW v \in Writers, at'[v] # "idle" PROVE StepOf(v)'
    BY DEF StepInv, StepOf
  <2>1. StepOf(v) /\ at'[v] = at[v] /\ new'[v] = new[v]
        /\ tail'[v] = tail[v] /\ next' = next /\ life' = life
    BY <1>1, StoreFrame DEF Inv, StepInv
  <2>2. new[v] \in Nodes
    BY <2>1 DEF Inv, OwnInv
  <2>3. prev'[new[v]] = prev[new[v]] /\ prev'[HeadNode] = new[w]
    BY <1>1, <2>2 DEF Inv, TypeOK
  <2>4. \A k \in 2..4 : k \notin todo'[v] <=> k \notin todo[v]
    BY <1>1, StoreFrame
  <2>5. new[w] = new[v] => at[v] = "linking"
    BY <1>1, <2>1, StoreFrame
  <2>6. QED
    BY <2>1, <2>3, <2>4, <2>5 DEF StepOf, Valid
<1>5. LinksAgree'
  BY <1>1, StoreFrame DEF Inv, TypeOK, LinksAgree, InHand
<1>6. QED
  BY <1>1, <1>2, <1>3, <1>4, <1>5, StoreFrame DEF Inv

(* The new node, which only its writer knows, points to the head.          *)
LEMMA StoreNewNextInv ==
  ASSUME Inv, NEW w \in Writers, StoreNewNext(w)
  PROVE  Inv'
<1>1. Store(w, 2) /\ next' = [next EXCEPT ![new[w]] = HeadNode]
      /\ UNCHANGED <<prev, added>>
  BY DEF StoreNewNext
<1>2. TypeOK'
  BY <1>1, StoreFrame DEF Inv, TypeOK
<1>3. LinkInv' /\ PhaseInv'
  BY <1>1, StoreFrame DEF Inv, TypeOK, LinkInv, PhaseInv, Valid
<1>4. StepInv'
  <2> SUFFICES ASSUME NEW v \in Writers, at'[v] # "idle" PROVE StepOf(v)'
    BY DEF StepInv, StepOf
  <2>1. StepOf(v) /\ at'[v] = at[v] /\ new'[v] = new[v]
        /\ tail'[v] = tail[v] /\ prev' = prev /\ life' = life
    BY <1>1, StoreFrame DEF Inv, StepInv
  <2>2. new[v] \in Nodes
    BY <2>1 DEF Inv, OwnInv
  <2>3. \A x \in Links : next'[x] = new[v] => next[x] = new[v] /\ x # new[w]
    BY <1>1, <2>2, StoreFrame DEF Inv, TypeOK
  <2>4. \A k \in {3, 4} : k \notin todo'[v] <=> k \notin todo[v]
    BY <1>1, StoreFrame
  <2>5. v # w => todo'[v] = todo[v]
    BY <1>1, StoreFrame
  <2>6. QED
    BY <2>1, <2>2, <2>3, <2>4, <2>5 DEF StepOf, Valid
<1>5. LinksAgree'
  BY <1>1, StoreFrame DEF Inv, TypeOK, LinksAgree, InHand
<1>6. QED
  BY <1>1, <1>2, <1>3, <1>4, <1>5, StoreFrame DEF Inv

(* Its backward link is set to what its writer found.                      *)
LEMMA StoreNewPrevInv ==
  ASSUME Inv, NEW w \in Writers, StoreNewPrev(w)
  PROVE  Inv'
<1>1. Store(w, 3) /\ prev' = [prev EXCEPT ![new[w]] = tail[w]]
      /\ UNCHANGED <<next, added>>
  BY DEF StoreNewPrev
<1>2. TypeOK'
  <2>1. prev' \in [Links -> Links \cup {Nil}]
    <3>1. prev \in [Links -> Links \cup {Nil}] /\ tail[w] \in Links
      BY <1>1, StoreFrame DEF Inv, TypeOK
    <3>2. QED
      BY <1>1, <3>1
  <2>2. QED
    BY <1>1, <2>1, StoreFrame DEF Inv, TypeOK
<1>3. LinkInv' /\ PhaseInv'
  BY <1>1, StoreFrame DEF Inv, TypeOK, LinkInv, PhaseInv, Valid
<1>4. StepInv'
  <2> SUFFICES ASSUME NEW v \in Writers, at'[v] # "idle" PROVE StepOf(v)'
    BY DEF StepInv, StepOf
  <2>1. StepOf(v) /\ at'[v] = at[v] /\ new'[v] = new[v]
        /\ tail'[v] = tail[v] /\ next' = next /\ life' = life
    BY <1>1, StoreFrame DEF Inv, StepInv
  <2>2. new[v] \in Nodes
    BY <2>1 DEF Inv, OwnInv
  <2>3. prev'[HeadNode] = prev[HeadNode]
    BY <1>1, StoreFrame DEF Inv, TypeOK
  <2>4. \A k \in {2, 4} : k \notin todo'[v] <=> k \notin todo[v]
    BY <1>1, StoreFrame
  <2>5. CASE v = w
    <3>1. prev'[new[v]] = tail[v]
      BY <1>1, <2>5, StoreFrame DEF Inv, TypeOK
    <3>2. QED
      BY <2>1, <2>3, <2>4, <3>1 DEF StepOf, Valid
  <2>6. CASE v # w
    <3>1. todo'[v] = todo[v] /\ new[v] # new[w]
      BY <1>1, <2>1, <2>6, StoreFrame
    <3>2. prev'[new[v]] = prev[new[v]]
      BY <1>1, <2>2, <3>1, StoreFrame DEF Inv, TypeOK
    <3>3. QED
      BY <2>1, <2>3, <3>1, <3>2 DEF StepOf, Valid
  <2>7. QED
    BY <2>5, <2>6
<1>5. LinksAgree'
  <2>1. InHand(new[w]) /\ at' = at /\ new' = new
    BY <1>1, StoreFrame DEF InHand
  <2>2. QED
    BY <1>1, <2>1, StoreFrame DEF Inv, TypeOK, LinksAgree, InHand
<1>6. QED
  BY <1>1, <1>2, <1>3, <1>4, <1>5, StoreFrame DEF Inv

(* The store that publishes the node.                                      *)
LEMMA StoreTailNextInv ==
  ASSUME Inv, NEW w \in Writers, StoreTailNext(w)
  PROVE  Inv'
<1>1. Store(w, 4) /\ next' = [next EXCEPT ![tail[w]] = new[w]]
      /\ added' = Append(added, new[w]) /\ prev' = prev
  BY DEF StoreTailNext
<1>2. TypeOK'
  <2>1. added' \in Seq(Nodes)
    BY <1>1, StoreFrame DEF Inv, TypeOK
  <2>2. next' \in [Links -> Links \cup {Nil}]
    BY <1>1, StoreFrame DEF Inv, TypeOK
  <2>3. /\ UNCHANGED <<ordered, phase, prev, life, at, new, tail, cur, got,
                        began, pos, raced>>
        /\ todo' \in [Writers -> SUBSET (1..4)]
    BY <1>1, StoreFrame
  <2>4. QED
    BY <2>1, <2>2, <2>3 DEF Inv, TypeOK
<1>3. LinkInv' /\ PhaseInv'
  <2>1. Valid(new[w])
    BY <1>1, StoreFrame DEF Valid
  <2>2. QED
    BY <1>1, <2>1, StoreFrame DEF Inv, TypeOK, LinkInv, PhaseInv, Valid
<1>4. StepInv'
  <2> SUFFICES ASSUME NEW v \in Writers, at'[v] # "idle" PROVE StepOf(v)'
    BY DEF StepInv, StepOf
  <2>1. StepOf(v) /\ at'[v] = at[v] /\ new'[v] = new[v]
        /\ tail'[v] = tail[v] /\ prev' = prev /\ life' = life
    BY <1>1, StoreFrame DEF Inv, StepInv
  <2>2. new[v] \in Nodes
    BY <2>1 DEF Inv, OwnInv
  <2>3. \A x \in Links : next'[x] = IF x = tail[w] THEN new[w] ELSE next[x]
    BY <1>1, StoreFrame DEF Inv, TypeOK
  <2>4. \A k \in {2, 3} : k \notin todo'[v] <=> k \notin todo[v]
    BY <1>1, StoreFrame
  <2>5. CASE v = w
    <3>1. 4 \notin todo'[v] /\ at[v] = "linking" /\ tail[v] # new[v]
      BY <1>1, <2>1, <2>5, StoreFrame DEF StepOf
    <3>2. QED
      BY <2>1, <2>2, <2>3, <2>4, <2>5, <3>1 DEF StepOf, Valid
  <2>6. CASE v # w
    <3>1. todo'[v] = todo[v] /\ new[v] # new[w]
      BY <1>1, <2>1, <2>6, StoreFrame
    <3>2. QED
      BY <2>1, <2>2, <2>3, <3>1 DEF StepOf, Valid
  <2>7. QED
    BY <2>5, <2>6
<1>5. LinksAgree'
  <2>1. InHand(new[w]) /\ at' = at /\ new' = new
    BY <1>1, StoreFrame DEF InHand
  <2>2. QED
    BY <1>1, <2>1, StoreFrame DEF Inv, TypeOK, LinksAgree, InHand
<1>6. QED
  BY <1>1, <1>2, <1>3, <1>4, <1>5, StoreFrame DEF Inv

(* A write returns: its node's links agree now.                            *)
LEMMA AddedInv ==
  ASSUME Inv, NEW w \in Writers, Added(w)
  PROVE  Inv'
<1> USE DEF Added, module, readers
<1>1. TypeOK' /\ LinkInv' /\ PhaseInv' /\ ReadInv'
  BY DEF Inv, TypeOK, LinkInv, PhaseInv, ReadInv, Valid
<1>2. OwnInv'
  BY DEF Inv, TypeOK, OwnInv
<1>3. StepInv'
  BY DEF Inv, TypeOK, StepInv, StepOf, Valid
<1>4. LinksAgree'
  <2> SUFFICES ASSUME NEW x \in Links, NEW y \in Nodes,
                      next[x] = y, ~InHand(y)'
               PROVE  prev[y] = x
    BY DEF LinksAgree
  <2>1. CASE y = new[w]
    <3>1. StepOf(w)
      BY DEF Inv, StepInv
    <3>2. QED
      BY <2>1, <3>1 DEF StepOf
  <2>2. CASE y # new[w]
    <3>1. ~InHand(y)
      BY <2>2 DEF InHand, Inv, TypeOK
    <3>2. QED
      BY <3>1 DEF Inv, LinksAgree
  <2>3. QED
    BY <2>1, <2>2
<1>5. QED
  BY <1>1, <1>2, <1>3, <1>4 DEF Inv

-----------------------------------------------------------------------------
(* Readers follow the links of allocated nodes.                            *)
LEMMA ReaderInv ==
  ASSUME Inv, NEW r \in Readers, Reader(r)
  PROVE  Inv'
<1> USE DEF module, writers
<1>1. UNCHANGED <<ordered, phase, life, next, prev, at, new, tail, todo, pos,
                  added, raced>>
  BY DEF Reader, ReadBegin, ReadNode, ReadReturn
<1>2. LinkInv' /\ OwnInv' /\ LinksAgree' /\ StepInv'
  BY <1>1 DEF Inv, LinkInv, OwnInv, LinksAgree, InHand, StepInv, StepOf, Valid
<1>3. CASE ReadBegin(r)
  <2>1. TypeOK'
    BY <1>1, <1>3 DEF Inv, TypeOK, ReadBegin
  <2>2. Valid(next[HeadNode])
    BY DEF Inv, LinkInv, Valid
  <2>3. PhaseInv' /\ ReadInv'
    BY <1>1, <1>3, <2>2 DEF Inv, TypeOK, PhaseInv, ReadInv, ReadBegin, Valid
  <2>4. QED
    BY <1>2, <2>1, <2>3 DEF Inv
<1>4. CASE ReadNode(r)
  <2>1. TypeOK'
    <3>1. Append(got[r], cur[r]) \in Seq(Nodes)
      BY <1>4 DEF Inv, TypeOK, ReadNode
    <3>2. got' \in [Readers -> Seq(Nodes)]
      BY <1>4, <3>1 DEF Inv, TypeOK, ReadNode
    <3>3. cur' \in [Readers -> Links \cup {Nil}]
      BY <1>4 DEF Inv, TypeOK, ReadNode
    <3>4. QED
      BY <1>1, <1>4, <3>2, <3>3 DEF Inv, TypeOK, ReadNode
  <2>2. Valid(next[cur[r]])
    BY <1>4 DEF Inv, LinkInv, ReadInv, ReadNode, Valid
  <2>3. phase = "live"
    BY <1>4 DEF Inv, TypeOK, PhaseInv, ReadNode
  <2>4. PhaseInv' /\ ReadInv'
    BY <1>1, <1>4, <2>2, <2>3
    DEF Inv, TypeOK, PhaseInv, ReadInv, ReadNode, Valid
  <2>5. QED
    BY <1>2, <2>1, <2>4 DEF Inv
<1>5. CASE ReadReturn(r)
  <2>1. TypeOK'
    BY <1>1, <1>5 DEF Inv, TypeOK, ReadReturn
  <2>2. PhaseInv' /\ ReadInv'
    BY <1>1, <1>5 DEF Inv, TypeOK, PhaseInv, ReadInv, ReadReturn, Valid
  <2>3. QED
    BY <1>2, <2>1, <2>2 DEF Inv
<1>6. QED
  BY <1>3, <1>4, <1>5 DEF Reader

-----------------------------------------------------------------------------
(* The exit function.  The node deleted is the first one, and its prev is  *)
(* the head.                                                               *)
LEMMA FirstOfList ==
  ASSUME Inv, phase = "exit", pos # HeadNode
  PROVE  /\ pos \in Nodes /\ life[pos] = "used" /\ pos = next[HeadNode]
         /\ prev[pos] = HeadNode
         /\ Valid(next[pos]) /\ next[pos] # pos /\ next[pos] \in Links
         /\ \A y \in Nodes : ~InHand(y)
         /\ \A x \in Links : next[x] = pos => x = HeadNode
         /\ \A x \in Links : next[x] = next[pos] /\ x # pos => next[x] = HeadNode
<1>1. \A y \in Nodes : ~InHand(y)
  BY DEF Inv, OwnInv, InHand
<1>2. pos = next[HeadNode] /\ Valid(pos)
  BY DEF Inv, PhaseInv, LinkInv, Valid
<1>3. pos \in Nodes /\ life[pos] = "used"
  BY <1>2 DEF Valid
<1>4. \A x \in Links : next[x] = pos => prev[pos] = x
  BY <1>1, <1>3 DEF Inv, LinksAgree
<1>5. prev[pos] = HeadNode
  BY <1>2, <1>4
<1>6. Valid(next[pos])
  BY <1>2, <1>3 DEF Inv, LinkInv
<1>7. next[pos] # pos
  BY <1>3, <1>4, <1>5
<1>8. next[pos] \in Links
  BY <1>6 DEF Valid
<1>9. \A x \in Links : next[x] = next[pos] /\ x # pos => next[x] = HeadNode
  <2> SUFFICES ASSUME NEW x \in Links, next[x] = next[pos], x # pos,
                      next[x] # HeadNode
               PROVE  FALSE
    OBVIOUS
  <2>1. next[x] \in Nodes
    BY <1>8
  <2>2. prev[next[x]] = x /\ prev[next[x]] = pos
    BY <1>1, <1>3, <2>1 DEF Inv, LinksAgree
  <2>3. QED
    BY <2>2
<1>10. QED
  BY <1>1, <1>2, <1>3, <1>4, <1>5, <1>6, <1>7, <1>8, <1>9

(* list_del of the first node: the head takes over its successor.          *)
LEMMA DeleteLinks ==
  ASSUME Inv, DeleteNode
  PROVE  /\ \A x \in Links :
              next'[x] = IF x = pos THEN Nil
                         ELSE IF x = HeadNode THEN next[pos] ELSE next[x]
         /\ \A x \in Links :
              prev'[x] = IF x = pos THEN Nil
                         ELSE IF x = next[pos] THEN HeadNode ELSE prev[x]
<1>1. phase = "exit" /\ pos # HeadNode
  BY DEF DeleteNode
<1>2. /\ next' = [next EXCEPT ![HeadNode] = next[pos], ![pos] = Nil]
      /\ prev' = [prev EXCEPT ![next[pos]] = HeadNode, ![pos] = Nil]
  BY <1>1, FirstOfList DEF DeleteNode
<1>3. /\ next \in [Links -> Links \cup {Nil}]
      /\ prev \in [Links -> Links \cup {Nil}]
  BY DEF Inv, TypeOK
<1>4. \A x \in Links :
        next'[x] = IF x = pos THEN Nil
                   ELSE IF x = HeadNode THEN next[pos] ELSE next[x]
  BY <1>1, <1>2, <1>3, FirstOfList
<1>5. \A x \in Links :
        prev'[x] = IF x = pos THEN Nil
                   ELSE IF x = next[pos] THEN HeadNode ELSE prev[x]
  BY <1>1, <1>2, <1>3, FirstOfList
<1>6. QED
  BY <1>4, <1>5

(* list_del and kfree of the first node.                                   *)
LEMMA DeleteNodeInv ==
  ASSUME Inv, DeleteNode
  PROVE  Inv'
<1> USE DEF writers, readers
<1>1. /\ phase = "exit" /\ pos # HeadNode /\ phase' = phase
      /\ pos' = next[pos] /\ life' = [life EXCEPT ![pos] = "freed"]
      /\ UNCHANGED <<ordered, at, new, tail, todo, cur, got, began, added,
                     raced>>
  BY DEF DeleteNode
<1>2. \A x \in Links : next'[x] = IF x = pos THEN Nil
                                 ELSE IF x = HeadNode THEN next[pos] ELSE next[x]
  BY DeleteLinks
<1>3. \A x \in Links : prev'[x] = IF x = pos THEN Nil
                         ELSE IF x = next[pos] THEN HeadNode ELSE prev[x]
  BY DeleteLinks
<1>4. TypeOK'
  <2>1. next' \in [Links -> Links \cup {Nil}]
    BY <1>1, FirstOfList DEF DeleteNode, Inv, TypeOK
  <2>2. prev' \in [Links -> Links \cup {Nil}]
    BY <1>1, FirstOfList DEF DeleteNode, Inv, TypeOK
  <2>3. QED
    BY <1>1, <2>1, <2>2, FirstOfList DEF Inv, TypeOK
<1>5. \A x : Valid(x)' <=> Valid(x) /\ x # pos
  BY <1>1, FirstOfList DEF Valid, Inv, TypeOK
<1>6. LinkInv'
  <2> SUFFICES ASSUME NEW x \in Links
               PROVE  IF Valid(x)' THEN Valid(next[x])' ELSE next'[x] = Nil
    BY DEF LinkInv
  <2>1. CASE x = pos
    BY <1>2, <1>5, <2>1
  <2>2. CASE x = HeadNode
    BY <1>1, <1>2, <1>5, <2>2, FirstOfList DEF Valid
  <2>3. CASE x # pos /\ x # HeadNode
    <3>1. next'[x] = next[x] /\ next[x] # pos
      BY <1>1, <1>2, <2>3, FirstOfList
    <3>2. IF Valid(x) THEN Valid(next[x]) ELSE next[x] = Nil
      BY DEF Inv, LinkInv
    <3>3. Valid(x)' <=> Valid(x)
      BY <1>5, <2>3
    <3>4. Valid(next[x])' <=> Valid(next[x])
      BY <1>1, <3>1, FirstOfList DEF Valid, Inv, TypeOK
    <3>5. QED
      BY <3>1, <3>2, <3>3, <3>4
  <2>4. QED
    BY <2>1, <2>2, <2>3
<1>7. OwnInv' /\ StepInv'
  BY <1>1 DEF Inv, OwnInv, StepInv, StepOf
<1>8. PhaseInv' /\ ReadInv'
  BY <1>1, <1>2, FirstOfList DEF Inv, PhaseInv, ReadInv, Valid
<1>9. LinksAgree'
  <2> SUFFICES ASSUME NEW x \in Links, NEW y \in Nodes, next'[x] = y
               PROVE  prev'[y] = x
    BY DEF LinksAgree
  <2>1. CASE x = HeadNode
    BY <1>1, <1>2, <1>3, <2>1, FirstOfList
  <2>2. CASE x # HeadNode
    <3>1. x # pos /\ next[x] = y /\ y # pos
      BY <1>1, <1>2, <2>2, FirstOfList
    <3>2. prev[y] = x
      BY <1>1, <3>1, FirstOfList DEF Inv, LinksAgree
    <3>3. y # next[pos]
      BY <1>1, <3>1, FirstOfList
    <3>4. QED
      BY <1>3, <3>1, <3>2, <3>3
  <2>3. QED
    BY <2>1, <2>2
<1>10. QED
  BY <1>4, <1>6, <1>7, <1>8, <1>9 DEF Inv

(* Unloading begins and ends, a new load starts afresh.                    *)
LEMMA ModuleInv ==
  ASSUME Inv, Rmmod \/ ExitReturn \/ Insmod
  PROVE  Inv'
<1> USE DEF writers, readers
<1>1. CASE Rmmod
  <2>1. Valid(next[HeadNode])
    BY DEF Inv, LinkInv, Valid
  <2>2. next[HeadNode] \in Links
    BY <2>1 DEF Valid
  <2>3. TypeOK' /\ LinkInv'
    BY <1>1, <2>2 DEF Rmmod, Inv, TypeOK, LinkInv, Valid
  <2>4. OwnInv' /\ StepInv'
    BY <1>1 DEF Rmmod, Inv, OwnInv, StepInv, StepOf
  <2>5. PhaseInv' /\ ReadInv' /\ LinksAgree'
    BY <1>1 DEF Rmmod, Inv, PhaseInv, ReadInv, LinksAgree, InHand, Valid
  <2>6. QED
    BY <2>3, <2>4, <2>5 DEF Inv
<1>2. CASE ExitReturn
  <2>1. TypeOK' /\ LinkInv'
    BY <1>2 DEF ExitReturn, Inv, TypeOK, LinkInv, Valid
  <2>2. OwnInv' /\ StepInv'
    BY <1>2 DEF ExitReturn, Inv, OwnInv, StepInv, StepOf
  <2>3. PhaseInv' /\ ReadInv' /\ LinksAgree'
    BY <1>2 DEF ExitReturn, Inv, PhaseInv, ReadInv, LinksAgree, InHand, Valid
  <2>4. QED
    BY <2>1, <2>2, <2>3 DEF Inv
<1>3. CASE Insmod
  <2> USE DEF Insmod, FreshLinks, Nobody
  <2>1. next' \in [Links -> Links \cup {Nil}]
    BY <1>3
  <2>2. got' \in [Readers -> Seq(Nodes)] /\ added' \in Seq(Nodes)
    BY <1>3
  <2>3. TypeOK'
    BY <1>3, <2>1, <2>2 DEF Inv, TypeOK
  <2>4. LinkInv' /\ LinksAgree'
    BY <1>3 DEF LinkInv, LinksAgree, Valid
  <2>5. OwnInv' /\ StepInv'
    BY <1>3 DEF Inv, OwnInv, StepInv, StepOf
  <2>6. PhaseInv' /\ ReadInv'
    BY <1>3 DEF Inv, PhaseInv, ReadInv, Valid
  <2>7. QED
    BY <2>3, <2>4, <2>5, <2>6 DEF Inv
<1>4. QED
  BY <1>1, <1>2, <1>3

(* Every step keeps the invariant.                                         *)
LEMMA NextInv == Inv /\ [Next]_vars => Inv'
<1> SUFFICES ASSUME Inv, [Next]_vars PROVE Inv'
  OBVIOUS
<1>1. CASE \E w \in Writers : Writer(w)
  BY <1>1, AllocateInv, LoadTailInv, StoreHeadPrevInv, StoreNewNextInv,
     StoreNewPrevInv, StoreTailNextInv, AddedInv DEF Writer, LinkStep
<1>2. CASE \E r \in Readers : Reader(r)
  BY <1>2, ReaderInv
<1>3. CASE Module
  BY <1>3, DeleteNodeInv, ModuleInv DEF Module
<1>4. CASE UNCHANGED vars
  BY <1>4 DEF vars, Inv, TypeOK, LinkInv, OwnInv, StepInv, StepOf, PhaseInv,
              ReadInv, LinksAgree, InHand, Valid
<1>5. QED
  BY <1>1, <1>2, <1>3, <1>4 DEF Next

(* The inductive invariant of linked_list.c's list holds always.           *)
THEOREM Invariance == Safety => []Inv
<1>1. QED
  BY InitInv, NextInv, PTL DEF Safety

(* Every variable keeps its type, for any number of nodes, writers and     *)
(* readers.                                                                *)
THEOREM TypeCorrect == Safety => []TypeOK
<1>1. Inv => TypeOK
  BY DEF Inv
<1>2. QED
  BY <1>1, Invariance, PTL

(* The links agree whatever the writers do to each other.                  *)
THEOREM AgreementKept == Safety => []LinksAgree
<1>1. Inv => LinksAgree
  BY DEF Inv
<1>2. QED
  BY <1>1, Invariance, PTL

(* Readers and the exit function follow and write links of allocated nodes *)
(* only, also in a list on which writers have collided.                    *)
THEOREM FreedLinksUnused == Safety => []FreedUntouched
<1>1. Inv => FreedUntouched
  <2> SUFFICES ASSUME Inv PROVE FreedUntouched
    OBVIOUS
  <2>1. ASSUME NEW r \in Readers, cur[r] \in Nodes
        PROVE  life[cur[r]] = "used"
    BY <2>1 DEF Inv, ReadInv, Valid
  <2>2. ASSUME phase = "exit", pos # HeadNode, NEW x \in {pos, next[pos], prev[pos]},
               x # HeadNode
        PROVE  x \in Nodes /\ life[x] = "used"
    BY <2>2, FirstOfList DEF Valid
  <2>3. QED
    BY <2>1, <2>2 DEF FreedUntouched
<1>2. QED
  BY <1>1, Invariance, PTL

-----------------------------------------------------------------------------
(* The list while it is intact: the chain of the nodes added, from the     *)
(* head back to the head.                                                  *)
Entry(i) == IF i = 0 THEN HeadNode ELSE added[i]
Last == Entry(Len(added))

ChainInv ==
  /\ \A i \in 0..Len(added) :
       next[Entry(i)] = IF i = Len(added) THEN HeadNode ELSE added[i + 1]
  /\ \A i \in 1..Len(added) : life[added[i]] = "used"
  /\ \A i, j \in 1..Len(added) : added[i] = added[j] => i = j
  /\ (\A w \in Writers : todo[w] = {} \/ 1 \in todo[w]) => prev[HeadNode] = Last

(* At most one writer is linking; it knows the last node, and makes its    *)
(* stores in order.                                                        *)
TurnOf(w) ==
  /\ at[w] = "begun" \/ 4 \in todo[w] =>
       \A i \in 1..Len(added) : added[i] # new[w]
  /\ todo[w] # {} =>
       /\ tail[w] = Last
       /\ \A v \in Writers : todo[v] # {} => v = w
       /\ \A s \in todo[w], t \in 1..4 : s <= t => t \in todo[w]
       /\ 1 \notin todo[w] => prev[HeadNode] = new[w]
       /\ 2 \notin todo[w] => next[new[w]] = HeadNode

(* A reader has counted the first k numbers, and stands on the next one or *)
(* at the end; when it came there, k was all there was.                    *)
WalkOf(r) ==
  \E k \in 0..Len(added) :
    /\ began[r] <= Len(added)
    /\ Len(got[r]) = IF k <= Room THEN k ELSE Room + 1
    /\ \A i \in 1..Len(got[r]) : got[r][i] = added[i]
    /\ \/ cur[r] = HeadNode /\ began[r] <= k
       \/ k < Len(added) /\ cur[r] = added[k + 1]

ListInv ==
  /\ \A r \in Readers : cur[r] = Nil <=> began[r] = -1
  /\ Intact /\ phase = "live" =>
       /\ ChainInv
       /\ \A w \in Writers : TurnOf(w)
       /\ \A r \in Readers : cur[r] # Nil => WalkOf(r)

-----------------------------------------------------------------------------
(* The empty list satisfies the list invariant.                            *)
LEMMA InitList == Init => ListInv
<1> SUFFICES ASSUME Init PROVE ListInv
  OBVIOUS
<1> USE DEF Init, FreshLinks, Nobody
<1>1. ChainInv
  <2>1. Len(added) = 0 /\ next[HeadNode] = HeadNode /\ prev[HeadNode] = HeadNode
    OBVIOUS
  <2>2. QED
    BY <2>1 DEF ChainInv, Entry, Last
<1>2. \A w \in Writers : TurnOf(w)
  BY DEF TurnOf
<1>3. QED
  BY <1>1, <1>2 DEF ListInv

(* The steps before a node is published.                                   *)
LEMMA AllocateList ==
  ASSUME Inv, ListInv, NEW w \in Writers, Allocate(w)
  PROVE  ListInv'
<1>1. PICK n \in Nodes :
        /\ life[n] = "unused"
        /\ life' = [life EXCEPT ![n] = "used"]
        /\ new' = [new EXCEPT ![w] = n]
        /\ next' = [next EXCEPT ![n] = n]
        /\ prev' = [prev EXCEPT ![n] = n]
  BY DEF Allocate
<1>2. /\ at' = [at EXCEPT ![w] = "begun"] /\ at[w] = "idle" /\ phase = "live"
      /\ UNCHANGED <<ordered, phase, tail, todo, cur, got, began, added, raced>>
  BY DEF Allocate, readers
<1>3. SUFFICES ASSUME Intact
               PROVE  /\ ChainInv'
                      /\ \A v \in Writers : TurnOf(v)'
                      /\ \A r \in Readers : cur[r] # Nil => WalkOf(r)'
  BY <1>2 DEF ListInv, Intact
<1>4. ChainInv /\ (\A v \in Writers : TurnOf(v))
      /\ \A r \in Readers : cur[r] # Nil => WalkOf(r)
  BY <1>2, <1>3 DEF ListInv
<1>5. \A i \in 1..Len(added) : added[i] # n /\ added[i] \in Nodes
  BY <1>1, <1>4 DEF ChainInv, Inv, TypeOK
<1>6. Last' = Last /\ \A i : Entry(i)' = Entry(i)
  BY <1>2 DEF Last, Entry
<1>7. prev'[HeadNode] = prev[HeadNode]
  BY <1>1 DEF Inv, TypeOK
<1>8. ChainInv'
  <2>1. ASSUME NEW i \in 0..Len(added)
        PROVE  next'[Entry(i)] = next[Entry(i)]
    BY <1>1, <1>5 DEF Entry, Inv, TypeOK
  <2>2. \A i \in 1..Len(added) : life'[added[i]] = "used"
    BY <1>1, <1>4, <1>5 DEF ChainInv, Inv, TypeOK
  <2>3. QED
    BY <1>2, <1>4, <1>6, <1>7, <2>1, <2>2 DEF ChainInv
<1>9. ASSUME NEW v \in Writers PROVE TurnOf(v)'
  <2>1. CASE v = w
    <3>1. todo'[w] = {} /\ new'[w] = n
      BY <1>1, <1>2 DEF Inv, TypeOK, OwnInv
    <3>2. QED
      BY <1>2, <1>5, <2>1, <3>1 DEF TurnOf
  <2>2. CASE v # w
    <3>1. at'[v] = at[v] /\ new'[v] = new[v]
      BY <1>1, <1>2, <2>2 DEF Inv, TypeOK
    <3>2. todo[v] # {} => new[v] \in Nodes /\ new[v] # n
      BY <1>1 DEF Inv, OwnInv
    <3>3. todo[v] # {} => next'[new[v]] = next[new[v]]
      BY <1>1, <3>2 DEF Inv, TypeOK
    <3>4. QED
      BY <1>2, <1>4, <1>6, <1>7, <3>1, <3>3 DEF TurnOf
  <2>3. QED
    BY <2>1, <2>2
<1>10. ASSUME NEW r \in Readers, cur[r] # Nil PROVE WalkOf(r)'
  BY <1>2, <1>4, <1>10 DEF WalkOf
<1>11. QED
  BY <1>8, <1>9, <1>10

(* list_add_tail finds the last node, if nobody else is linking.           *)
LEMMA LoadTailList ==
  ASSUME Inv, ListInv, NEW w \in Writers, LoadTail(w)
  PROVE  ListInv'
<1>1. /\ at[w] = "begun" /\ at' = [at EXCEPT ![w] = "linking"]
      /\ tail' = [tail EXCEPT ![w] = prev[HeadNode]]
      /\ todo' = [todo EXCEPT ![w] = 1..4]
      /\ raced' = (raced \/ \E v \in Writers : todo[v] # {})
      /\ UNCHANGED <<ordered, phase, life, next, prev, new, cur, got, began,
                     added>>
  BY DEF LoadTail, module, readers
<1>2. phase = "live"
  BY <1>1 DEF Inv, OwnInv
<1>3. SUFFICES ASSUME Intact'
               PROVE  /\ ChainInv'
                      /\ \A v \in Writers : TurnOf(v)'
                      /\ \A r \in Readers : cur[r] # Nil => WalkOf(r)'
  BY <1>1 DEF ListInv
<1>4. Intact /\ \A v \in Writers : todo[v] = {}
  BY <1>1, <1>3 DEF Intact
<1>5. ChainInv /\ (\A v \in Writers : TurnOf(v))
      /\ \A r \in Readers : cur[r] # Nil => WalkOf(r)
  BY <1>2, <1>4 DEF ListInv
<1>6. Last' = Last /\ (\A i : Entry(i)' = Entry(i)) /\ prev[HeadNode] = Last
  BY <1>1, <1>4, <1>5 DEF Last, Entry, ChainInv
<1>7. ChainInv'
  BY <1>1, <1>5, <1>6 DEF ChainInv
<1>8. ASSUME NEW v \in Writers PROVE TurnOf(v)'
  <2>1. TurnOf(v)
    BY <1>5
  <2>2. CASE v = w
    <3>1. /\ todo'[w] = 1..4 /\ tail'[w] = Last
          /\ \A u \in Writers : u # w => todo'[u] = {}
      BY <1>1, <1>4, <1>6 DEF Inv, TypeOK
    <3>2. QED
      BY <1>1, <1>6, <2>1, <2>2, <3>1 DEF TurnOf
  <2>3. CASE v # w
    <3>1. todo'[v] = {} /\ at'[v] = at[v]
      BY <1>1, <1>4, <2>3 DEF Inv, TypeOK
    <3>2. QED
      BY <1>1, <2>1, <3>1 DEF TurnOf
  <2>4. QED
    BY <2>2, <2>3
<1>9. ASSUME NEW r \in Readers, cur[r] # Nil PROVE WalkOf(r)'
  BY <1>1, <1>5, <1>9 DEF WalkOf
<1>10. QED
  BY <1>7, <1>8, <1>9

(* The stores that only the writer itself and later writers look at.       *)
LEMMA PrivateStoreList ==
  ASSUME Inv, ListInv, NEW w \in Writers,
         StoreHeadPrev(w) \/ StoreNewNext(w) \/ StoreNewPrev(w)
  PROVE  ListInv'
<1>1. PICK s \in 1..3 :
        /\ Store(w, s) /\ added' = added
        /\ s = 1 => /\ prev' = [prev EXCEPT ![HeadNode] = new[w]]
                    /\ next' = next
        /\ s = 2 => /\ next' = [next EXCEPT ![new[w]] = HeadNode]
                    /\ prev' = prev
        /\ s = 3 => /\ prev' = [prev EXCEPT ![new[w]] = tail[w]]
                    /\ next' = next
  <2>1. CASE StoreHeadPrev(w)
    BY <2>1 DEF StoreHeadPrev
  <2>2. CASE StoreNewNext(w)
    BY <2>2 DEF StoreNewNext
  <2>3. CASE StoreNewPrev(w)
    BY <2>3 DEF StoreNewPrev
  <2>4. QED
    BY <2>1, <2>2, <2>3
<1>2. /\ at[w] = "linking" /\ phase = "live" /\ s \in todo[w]
      /\ new[w] \in Nodes
      /\ \A v \in Writers \ {w} : todo'[v] = todo[v]
      /\ todo'[w] = todo[w] \ {s}
      /\ todo[w] \subseteq 1..4
      /\ UNCHANGED <<ordered, phase, life, at, new, tail, cur, got, began, raced>>
  BY <1>1, StoreFrame DEF Inv, TypeOK
<1>3. SUFFICES ASSUME Intact
               PROVE  /\ ChainInv'
                      /\ \A v \in Writers : TurnOf(v)'
                      /\ \A r \in Readers : cur[r] # Nil => WalkOf(r)'
  BY <1>2 DEF ListInv, Intact
<1>4. ChainInv /\ (\A v \in Writers : TurnOf(v))
      /\ \A r \in Readers : cur[r] # Nil => WalkOf(r)
  BY <1>2, <1>3 DEF ListInv
<1>5. /\ \A t \in s..4 : t \in todo[w]
      /\ \A t \in todo[w] : s <= t
      /\ \A v \in Writers \ {w} : todo[v] = {}
  BY <1>1, <1>2, <1>3, <1>4 DEF TurnOf, Store, Intact
<1>6. 4 \in todo'[w] /\ 1 \notin todo'[w] /\ 4 \in todo[w]
  BY <1>2, <1>5
<1>7. \A i \in 1..Len(added) : added[i] # new[w] /\ added[i] \in Nodes
  BY <1>4, <1>6 DEF TurnOf, Inv, TypeOK
<1>8. Last' = Last /\ \A i : Entry(i)' = Entry(i)
  BY <1>1 DEF Last, Entry
<1>9. /\ prev'[HeadNode] = IF s = 1 THEN new[w] ELSE prev[HeadNode]
      /\ next'[new[w]] = IF s = 2 THEN HeadNode ELSE next[new[w]]
  BY <1>1, <1>2 DEF Inv, TypeOK
<1>10. ChainInv'
  <2>1. ASSUME NEW i \in 0..Len(added)
        PROVE  next'[Entry(i)] = next[Entry(i)]
    BY <1>1, <1>2, <1>7 DEF Entry, Inv, TypeOK
  <2>2. QED
    BY <1>1, <1>2, <1>4, <1>6, <1>8, <2>1 DEF ChainInv
<1>11. ASSUME NEW v \in Writers PROVE TurnOf(v)'
  <2>1. TurnOf(v)
    BY <1>4
  <2>2. CASE v = w
    <3>1. tail[w] = Last /\ \A u \in Writers : todo'[u] # {} => u = w
      BY <1>2, <1>5, <1>6, <2>1, <2>2 DEF TurnOf
    <3>2. \A a \in todo'[w], t \in 1..4 : a <= t => t \in todo'[w]
      BY <1>2, <1>5
    <3>3. prev'[HeadNode] = new[w]
      BY <1>2, <1>5, <1>6, <1>9, <2>1, <2>2 DEF TurnOf
    <3>4. 2 \notin todo'[w] => next'[new[w]] = HeadNode
      BY <1>2, <1>6, <1>9, <2>1, <2>2 DEF TurnOf
    <3>5. QED
      BY <1>1, <1>2, <1>7, <1>8, <2>2, <3>1, <3>2, <3>3, <3>4 DEF TurnOf
  <2>3. CASE v # w
    <3>1. todo'[v] = {} /\ todo[v] = {}
      BY <1>2, <1>5, <2>3
    <3>2. QED
      BY <1>1, <1>2, <2>1, <3>1 DEF TurnOf
  <2>4. QED
    BY <2>2, <2>3
<1>12. ASSUME NEW r \in Readers, cur[r] # Nil PROVE WalkOf(r)'
  BY <1>1, <1>2, <1>4, <1>12 DEF WalkOf
<1>13. QED
  BY <1>10, <1>11, <1>12

(* The store that makes the new node the last one of the chain.            *)
LEMMA PublishList ==
  ASSUME Inv, ListInv, NEW w \in Writers, StoreTailNext(w)
  PROVE  ListInv'
<1>1. /\ Store(w, 4) /\ added' = Append(added, new[w])
      /\ next' = [next EXCEPT ![tail[w]] = new[w]] /\ prev' = prev
  BY DEF StoreTailNext
<1>2. /\ at[w] = "linking" /\ phase = "live" /\ 4 \in todo[w]
      /\ new[w] \in Nodes /\ life[new[w]] = "used"
      /\ \A v \in Writers \ {w} : todo'[v] = todo[v]
      /\ \A v \in Writers \ {w} : at[v] # "idle" => new[v] # new[w]
      /\ todo'[w] = todo[w] \ {4}
      /\ todo[w] \subseteq 1..4 /\ tail[w] \in Links
      /\ UNCHANGED <<ordered, phase, life, at, new, tail, cur, got, began, raced>>
  BY <1>1, StoreFrame DEF Inv, TypeOK
<1>3. SUFFICES ASSUME Intact
               PROVE  /\ ChainInv'
                      /\ \A v \in Writers : TurnOf(v)'
                      /\ \A r \in Readers : cur[r] # Nil => WalkOf(r)'
  BY <1>1, <1>2, StoreFrame DEF ListInv, Intact
<1>4. ChainInv /\ (\A v \in Writers : TurnOf(v))
      /\ \A r \in Readers : cur[r] # Nil => WalkOf(r)
  BY <1>2, <1>3 DEF ListInv
<1>5. todo[w] = {4} /\ \A v \in Writers \ {w} : todo[v] = {}
  BY <1>1, <1>2, <1>3, <1>4 DEF TurnOf, Store, Intact
<1>6. \A v \in Writers : todo'[v] = {}
  BY <1>2, <1>5
<1>7. /\ tail[w] = Last /\ prev[HeadNode] = new[w]
      /\ next[new[w]] = HeadNode
      /\ \A i \in 1..Len(added) : added[i] # new[w]
  BY <1>2, <1>4, <1>5 DEF TurnOf
<1>8. /\ Len(added) \in Nat /\ Len(added') = Len(added) + 1
      /\ \A i \in 1..Len(added) : added'[i] = added[i] /\ added[i] \in Nodes
      /\ added'[Len(added) + 1] = new[w]
  BY <1>1, <1>2 DEF Inv, TypeOK
<1>9. ChainInv'
  <2>1. ASSUME NEW i \in 0..Len(added')
        PROVE  next'[Entry(i)'] = IF i = Len(added') THEN HeadNode
                                  ELSE added'[i + 1]
    <3>1. CASE i = Len(added')
      BY <1>1, <1>2, <1>7, <1>8, <3>1 DEF Entry, Last, Inv, TypeOK
    <3>2. CASE i = Len(added)
      <4>1. Entry(i)' = tail[w]
        BY <1>7, <1>8, <3>2 DEF Entry, Last
      <4>2. QED
        BY <1>1, <1>2, <1>8, <3>2, <4>1 DEF Inv, TypeOK
    <3>3. CASE i < Len(added)
      <4>1. Entry(i)' = Entry(i) /\ Entry(i) \in Links
        BY <1>8, <3>3 DEF Entry
      <4>2. Entry(i) # tail[w]
        BY <1>4, <1>7, <1>8, <3>3 DEF Entry, Last, ChainInv
      <4>3. next'[Entry(i)] = next[Entry(i)]
        BY <1>1, <4>1, <4>2 DEF Inv, TypeOK
      <4>4. next[Entry(i)] = added[i + 1]
        BY <1>4, <1>8, <3>3 DEF ChainInv
      <4>5. added'[i + 1] = added[i + 1] /\ i # Len(added')
        BY <1>8, <3>3
      <4>6. QED
        BY <4>1, <4>3, <4>4, <4>5
    <3>4. QED
      BY <1>8, <3>1, <3>2, <3>3
  <2>2. \A i \in 1..Len(added') : life'[added'[i]] = "used"
    BY <1>2, <1>4, <1>8 DEF ChainInv
  <2>3. \A i, j \in 1..Len(added') : added'[i] = added'[j] => i = j
    BY <1>4, <1>7, <1>8 DEF ChainInv
  <2>4. prev'[HeadNode] = Last'
    BY <1>1, <1>7, <1>8 DEF Last, Entry
  <2>5. QED
    BY <2>1, <2>2, <2>3, <2>4 DEF ChainInv
<1>10. ASSUME NEW v \in Writers PROVE TurnOf(v)'
  <2>1. TurnOf(v) /\ todo'[v] = {} /\ at' = at /\ new' = new
    BY <1>2, <1>4, <1>6
  <2>2. at[v] = "begun" => v # w /\ new[v] # new[w]
    BY <1>2
  <2>3. QED
    BY <1>8, <2>1, <2>2 DEF TurnOf
<1>11. ASSUME NEW r \in Readers, cur[r] # Nil PROVE WalkOf(r)'
  <2>1. PICK k \in 0..Len(added) :
          /\ began[r] <= Len(added)
          /\ Len(got[r]) = IF k <= Room THEN k ELSE Room + 1
          /\ \A i \in 1..Len(got[r]) : got[r][i] = added[i]
          /\ \/ cur[r] = HeadNode /\ began[r] <= k
             \/ k < Len(added) /\ cur[r] = added[k + 1]
    BY <1>4, <1>11 DEF WalkOf
  <2>2. k \in 0..Len(added') /\ began[r] <= Len(added')
    <3>1. began[r] \in Int
      BY DEF Inv, TypeOK
    <3>2. QED
      BY <1>8, <2>1, <3>1
  <2>3. Len(got[r]) <= Len(added)
    BY <1>8, <2>1
  <2>4. \A i \in 1..Len(got[r]) : got[r][i] = added'[i]
    BY <1>8, <2>1, <2>3
  <2>5. \/ cur[r] = HeadNode /\ began[r] <= k
        \/ k < Len(added') /\ cur[r] = added'[k + 1]
    BY <1>8, <2>1
  <2>6. QED
    BY <1>2, <2>1, <2>2, <2>4, <2>5 DEF WalkOf
<1>12. QED
  BY <1>9, <1>10, <1>11

(* The write returns.                                                      *)
LEMMA AddedList ==
  ASSUME Inv, ListInv, NEW w \in Writers, Added(w)
  PROVE  ListInv'
<1>1. /\ at' = [at EXCEPT ![w] = "idle"]
      /\ UNCHANGED <<ordered, phase, life, next, prev, new, tail, todo, cur,
                     got, began, added, raced>>
  BY DEF Added, module, readers
<1>2. ChainInv => ChainInv'
  BY <1>1 DEF ChainInv, Entry, Last
<1>3. ASSUME NEW v \in Writers, TurnOf(v) PROVE TurnOf(v)'
  BY <1>1, <1>3 DEF TurnOf, Last, Entry, Inv, TypeOK
<1>4. \A r \in Readers : WalkOf(r) => WalkOf(r)'
  BY <1>1 DEF WalkOf
<1>5. QED
  BY <1>1, <1>2, <1>3, <1>4 DEF ListInv, Intact

-----------------------------------------------------------------------------
(* A reader and the chain.                                                 *)
LEMMA ReaderList ==
  ASSUME Inv, ListInv, NEW r \in Readers, Reader(r)
  PROVE  ListInv'
<1>1. UNCHANGED <<ordered, phase, life, next, prev, at, new, tail, todo, pos,
                  added, raced>>
  BY DEF Reader, ReadBegin, ReadNode, ReadReturn, module, writers
<1>2. /\ ChainInv => ChainInv'
      /\ \A w \in Writers : TurnOf(w) => TurnOf(w)'
  BY <1>1 DEF ChainInv, TurnOf, Entry, Last
<1>3. ASSUME NEW q \in Readers \ {r}
      PROVE  /\ cur'[q] = cur[q] /\ began'[q] = began[q]
             /\ WalkOf(q) => WalkOf(q)'
  <2>1. cur'[q] = cur[q] /\ got'[q] = got[q] /\ began'[q] = began[q]
    BY <1>3 DEF Reader, ReadBegin, ReadNode, ReadReturn, Inv, TypeOK
  <2>2. QED
    BY <1>1, <2>1 DEF WalkOf
<1>4. SUFFICES /\ cur'[r] = Nil <=> began'[r] = -1
               /\ Intact /\ phase = "live" /\ cur'[r] # Nil => WalkOf(r)'
  BY <1>1, <1>2, <1>3 DEF ListInv, Intact
<1>5. Len(added) \in Nat
  BY DEF Inv, TypeOK
<1>6. CASE ReadBegin(r)
  <2>1. /\ cur'[r] = next[HeadNode] /\ got'[r] = <<>>
        /\ began'[r] = Len(added)
    BY <1>6 DEF ReadBegin, Inv, TypeOK
  <2>2. cur'[r] # Nil /\ began'[r] # -1
    BY <1>5, <2>1 DEF Inv, LinkInv, Valid
  <2>3. ASSUME Intact, phase = "live" PROVE WalkOf(r)'
    <3>1. next[HeadNode] = IF Len(added) = 0 THEN HeadNode ELSE added[1]
      BY <1>5, <2>3 DEF ListInv, ChainInv, Entry
    <3>2. Len(got'[r]) = 0
      BY <2>1
    <3>3. QED
      BY <1>1, <1>5, <2>1, <3>1, <3>2 DEF WalkOf
  <2>4. QED
    BY <2>2, <2>3
<1>7. CASE ReadNode(r)
  <2>1. /\ cur[r] \in Nodes /\ cur'[r] = next[cur[r]]
        /\ began'[r] = began[r]
        /\ got'[r] = IF Len(got[r]) <= Room THEN Append(got[r], cur[r])
                     ELSE got[r]
    BY <1>7 DEF ReadNode, Inv, TypeOK
  <2>2. cur[r] # Nil /\ cur'[r] # Nil
    BY <2>1 DEF Inv, LinkInv, ReadInv, Valid
  <2>3. ASSUME Intact, phase = "live" PROVE WalkOf(r)'
    <3>1. ChainInv /\ WalkOf(r)
      BY <2>2, <2>3 DEF ListInv
    <3>2. PICK k \in 0..Len(added) :
            /\ began[r] <= Len(added)
            /\ Len(got[r]) = IF k <= Room THEN k ELSE Room + 1
            /\ \A i \in 1..Len(got[r]) : got[r][i] = added[i]
            /\ k < Len(added) /\ cur[r] = added[k + 1]
      <4>1. cur[r] # HeadNode
        BY <2>1
      <4>2. QED
        BY <3>1, <4>1, Zenon DEF WalkOf
    <3>3. k + 1 \in 0..Len(added) /\ Entry(k + 1) = cur[r]
      BY <1>5, <3>2 DEF Entry
    <3>4. cur'[r] = IF k + 1 = Len(added) THEN HeadNode ELSE added[k + 2]
      BY <1>5, <2>1, <3>1, <3>3 DEF ChainInv
    <3>5. Len(got'[r]) = IF k + 1 <= Room THEN k + 1 ELSE Room + 1
      BY <1>5, <2>1, <3>2 DEF Inv, TypeOK
    <3>6. \A i \in 1..Len(got'[r]) : got'[r][i] = added[i]
      <4>1. got[r] \in Seq(Nodes) /\ Len(got[r]) \in Nat
        BY DEF Inv, TypeOK
      <4>2. CASE Len(got[r]) <= Room
        <5>1. Len(got[r]) = k
          BY <3>2, <4>1, <4>2
        <5>2. got'[r] = Append(got[r], cur[r])
          BY <2>1, <4>2
        <5>3. QED
          BY <2>1, <3>2, <4>1, <5>1, <5>2
      <4>3. CASE ~(Len(got[r]) <= Room)
        BY <2>1, <3>2, <4>3
      <4>4. QED
        BY <4>2, <4>3
    <3>7. \/ cur'[r] = HeadNode /\ began'[r] <= k + 1
          \/ k + 1 < Len(added) /\ cur'[r] = added[k + 2]
      BY <1>5, <2>1, <3>2, <3>3, <3>4
    <3>8. QED
      BY <1>1, <2>1, <3>2, <3>3, <3>5, <3>6, <3>7 DEF WalkOf
  <2>4. QED
    BY <2>1, <2>2, <2>3 DEF ListInv
<1>8. CASE ReadReturn(r)
  BY <1>8 DEF ReadReturn, Inv, TypeOK
<1>9. QED
  BY <1>6, <1>7, <1>8 DEF Reader

(* Every step keeps the list invariant.                                    *)
LEMMA ListInvNext == Inv /\ ListInv /\ [Next]_vars => ListInv'
<1> SUFFICES ASSUME Inv, ListInv, [Next]_vars PROVE ListInv'
  OBVIOUS
<1>1. CASE \E w \in Writers : Writer(w)
  BY <1>1, AllocateList, LoadTailList, PrivateStoreList, PublishList, AddedList
  DEF Writer, LinkStep
<1>2. CASE \E r \in Readers : Reader(r)
  BY <1>2, ReaderList
<1>3. CASE Rmmod \/ DeleteNode \/ ExitReturn
  <2>1. phase' # "live" /\ UNCHANGED <<cur, began>>
    BY <1>3 DEF Rmmod, DeleteNode, ExitReturn, readers
  <2>2. QED
    BY <2>1 DEF ListInv
<1>4. CASE Insmod
  <2>1. \A w \in Writers : at[w] = "idle" /\ todo[w] = {}
    BY <1>4 DEF Insmod, Inv, OwnInv
  <2>2. \A r \in Readers : cur[r] = Nil
    BY <1>4 DEF Insmod, Inv, PhaseInv
  <2>3. /\ next' = FreshLinks /\ prev' = FreshLinks /\ added' = <<>>
        /\ UNCHANGED <<at, todo, cur, began>>
    BY <1>4 DEF Insmod
  <2>4. Len(added') = 0 /\ next'[HeadNode] = HeadNode /\ prev'[HeadNode] = HeadNode
    BY <2>3 DEF FreshLinks
  <2>5. ChainInv'
    BY <2>4 DEF ChainInv, Entry, Last
  <2>6. \A w \in Writers : TurnOf(w)'
    BY <2>1, <2>3, <2>4 DEF TurnOf
  <2>7. QED
    BY <2>2, <2>3, <2>5, <2>6 DEF ListInv
<1>5. CASE UNCHANGED vars
  BY <1>5 DEF vars, ListInv, Intact, ChainInv, TurnOf, WalkOf, Entry, Last
<1>6. QED
  BY <1>1, <1>2, <1>3, <1>4, <1>5 DEF Next, Module

-----------------------------------------------------------------------------
(* The steps of the abstract list.                                         *)
LEMMA InitRefines == Init => Abstract!Init
<1> SUFFICES ASSUME Init PROVE Abstract!Init
  OBVIOUS
<1>1. Intact \in BOOLEAN
  BY DEF Intact, Init
<1>2. ASSUME NEW r \in Readers PROVE Returned(r) = <<>>
  <2>1. got[r] = <<>> /\ Len(got[r]) = 0
    BY DEF Init
  <2>2. SubSeq(got[r], 1, 0) = <<>>
    BY <2>1
  <2>3. QED
    BY <2>1, <2>2 DEF Returned
<1>3. [r \in Readers |-> Returned(r)] = [r \in Readers |-> <<>>]
  BY <1>2
<1>4. added = <<>> /\ began = [r \in Readers |-> -1]
  BY DEF Init
<1>5. QED
  BY <1>1, <1>3, <1>4 DEF Abstract!Init, Abstract!Empty

(* What a read has returned is the first numbers of the list.              *)
LEMMA ReturnedPrefix ==
  ASSUME Inv, ListInv, Intact, NEW r \in Readers, ReadReturn(r)
  PROVE  \E k \in 0..Len(added) :
           /\ k <= Room /\ (k >= began[r] \/ k = Room)
           /\ SubSeq(got[r], 1, IF Len(got[r]) <= Room THEN Len(got[r]) ELSE Room)
                = SubSeq(added, 1, k)
<1>1. cur[r] = HeadNode /\ phase = "live"
  BY DEF ReadReturn, Inv, PhaseInv
<1>2. ChainInv /\ WalkOf(r)
  BY <1>1 DEF ListInv
<1>3. /\ added \in Seq(Nodes) /\ got[r] \in Seq(Nodes) /\ began[r] \in Int
      /\ Len(added) \in Nat /\ Len(got[r]) \in Nat
  BY DEF Inv, TypeOK
<1>4. PICK k \in 0..Len(added) :
        /\ Len(got[r]) = IF k <= Room THEN k ELSE Room + 1
        /\ \A i \in 1..Len(got[r]) : got[r][i] = added[i]
        /\ \/ began[r] <= k
           \/ k < Len(added) /\ cur[r] = added[k + 1]
  BY <1>2 DEF WalkOf
<1>5. began[r] <= k
  <2>1. k < Len(added) => added[k + 1] \in Nodes
    BY <1>3
  <2>2. QED
    BY <1>1, <1>4, <2>1
<1> DEFINE m == IF k <= Room THEN k ELSE Room
<1>6. /\ m \in 0..Len(added) /\ m <= Room /\ (m >= began[r] \/ m = Room)
      /\ m = IF Len(got[r]) <= Room THEN Len(got[r]) ELSE Room
      /\ m <= Len(got[r])
  BY <1>3, <1>4, <1>5
<1> HIDE DEF m
<1>7. SubSeq(got[r], 1, m) = SubSeq(added, 1, m)
  BY <1>3, <1>4, <1>6
<1>8. QED
  BY <1>6, <1>7

(* Every step is a step of the append-only list or a stutter.              *)
LEMMA StepRefines ==
  Inv /\ ListInv /\ [Next]_vars => [Abstract!Next]_(Abstract!vars)
<1> SUFFICES ASSUME Inv, ListInv, [Next]_vars
             PROVE  [Abstract!Next]_(Abstract!vars)
  OBVIOUS
<1> DEFINE nothing == [r \in Readers |-> <<>>]
           nowhere == [r \in Readers |-> -1]
           result == [r \in Readers |-> Returned(r)]
<1>1. ~Intact => result = nothing
  BY DEF Returned
<1>2. ~Intact' => result' = nothing
  BY DEF Returned
<1>3. ASSUME Intact' = Intact, UNCHANGED <<added, cur, got, began>>
      PROVE  UNCHANGED Abstract!vars
  <2>1. result' = result
    BY <1>3 DEF Returned
  <2>2. QED
    BY <1>3, <2>1 DEF Abstract!vars
<1>4. CASE Insmod
  <2>1. added' = <<>> /\ cur' = cur /\ began' = began /\ Intact' \in BOOLEAN
    BY <1>4 DEF Insmod, Intact, Inv, TypeOK
  <2>2. began' = nowhere
    <3>1. \A r \in Readers : began[r] = -1
      BY <1>4 DEF Insmod, Inv, PhaseInv, ListInv
    <3>2. QED
      BY <2>1, <3>1 DEF Inv, TypeOK
  <2>3. result' = nothing
    <3>1. ASSUME NEW r \in Readers PROVE Returned(r)' = <<>>
      <4>1. got'[r] = <<>> /\ Len(got'[r]) = 0
        BY <1>4 DEF Insmod
      <4>2. SubSeq(got'[r], 1, 0) = <<>>
        BY <4>1
      <4>3. QED
        BY <4>1, <4>2 DEF Returned
    <3>2. QED
      BY <3>1
  <2>4. Abstract!Reload
    BY <2>1, <2>2, <2>3 DEF Abstract!Reload, Abstract!Empty
  <2>5. QED
    BY <2>4 DEF Abstract!Next
<1>5. CASE ~Insmod /\ ~Intact
  <2>1. ~Intact'
    BY <1>5 DEF Next, Module, Writer, Reader, LinkStep, Allocate, LoadTail,
      StoreHeadPrev, StoreNewNext, StoreNewPrev, StoreTailNext, Store, Added,
      ReadBegin, ReadNode, ReadReturn, Rmmod, DeleteNode, ExitReturn, vars,
      Intact, Inv, TypeOK
  <2>2. Intact' = Intact
    BY <1>5, <2>1 DEF Intact
  <2>3. result' = result
    BY <1>1, <1>2, <1>5, <2>1
  <2>4. UNCHANGED Abstract!vars
    BY <1>5, <2>1, <2>2, <2>3, Zenon DEF Abstract!vars
  <2>5. QED
    BY <2>4
<1>6. ASSUME Intact, NEW w \in Writers, Writer(w)
      PROVE  [Abstract!Next]_(Abstract!vars)
  <2>1. CASE Allocate(w) \/ Added(w)
    BY <1>3, <2>1 DEF Allocate, Added, module, readers, Intact
  <2>2. CASE LoadTail(w)
    <3>1. ordered' = ordered /\ UNCHANGED <<added, cur, got, began>>
      BY <2>2 DEF LoadTail, readers
    <3>2. CASE Intact'
      BY <1>3, <1>6, <3>1, <3>2
    <3>3. CASE ~Intact'
      <4>1. Abstract!Break
        BY <1>2, <1>6, <3>3 DEF Abstract!Break, Abstract!Empty
      <4>2. QED
        BY <4>1 DEF Abstract!Next
    <3>4. QED
      BY <3>2, <3>3
  <2>3. CASE StoreHeadPrev(w) \/ StoreNewNext(w) \/ StoreNewPrev(w)
    BY <1>3, <2>3 DEF StoreHeadPrev, StoreNewNext, StoreNewPrev, Store, readers,
                      Intact
  <2>4. CASE StoreTailNext(w)
    <3>1. /\ Store(w, 4) /\ added' = Append(added, new[w])
          /\ UNCHANGED <<cur, got, began>> /\ Intact' = Intact
      BY <2>4 DEF StoreTailNext, Store, readers, Intact
    <3>2. new[w] \in Nodes
      BY <3>1, StoreFrame
    <3>3. result' = result
      BY <3>1 DEF Returned
    <3>4. Abstract!Add(new[w])
      BY <1>6, <3>1, <3>3 DEF Abstract!Add
    <3>5. QED
      BY <3>2, <3>4 DEF Abstract!Next
  <2>5. QED
    BY <1>6, <2>1, <2>2, <2>3, <2>4 DEF Writer, LinkStep
<1>7. ASSUME Intact, NEW r \in Readers, Reader(r)
      PROVE  [Abstract!Next]_(Abstract!vars)
  <2>1. Intact' = Intact /\ added' = added
    <3>1. UNCHANGED <<ordered, raced, added>>
      BY <1>7 DEF Reader, ReadBegin, ReadNode, ReadReturn
    <3>2. QED
      BY <3>1 DEF Intact
  <2>2. ASSUME NEW q \in Readers \ {r} PROVE Returned(q)' = Returned(q)
    BY <1>7, <2>1 DEF Reader, ReadBegin, ReadNode, ReadReturn, Returned, Inv,
                      TypeOK
  <2>3. CASE ReadBegin(r)
    <3>1. began[r] = -1 /\ began' = [began EXCEPT ![r] = Len(added)]
      BY <2>3 DEF ReadBegin, ListInv
    <3>2. cur'[r] # Nil
      <4>1. Valid(next[HeadNode])
        BY DEF Inv, LinkInv, Valid
      <4>2. cur'[r] = next[HeadNode]
        BY <2>3 DEF ReadBegin, Inv, TypeOK
      <4>3. QED
        BY <4>1, <4>2 DEF Valid
    <3>3. Returned(r)' = <<>>
      BY <3>2 DEF Returned
    <3>4. result' = [result EXCEPT ![r] = <<>>]
      BY <2>2, <3>3
    <3>5. Abstract!Begin(r)
      BY <1>7, <2>1, <3>1, <3>4 DEF Abstract!Begin
    <3>6. QED
      BY <3>5 DEF Abstract!Next
  <2>4. CASE ReadNode(r)
    <3>1. cur[r] # Nil /\ began' = began
      BY <2>4 DEF ReadNode
    <3>2. Valid(next[cur[r]]) /\ cur'[r] = next[cur[r]]
      <4>1. cur[r] \in Nodes /\ cur'[r] = next[cur[r]]
        BY <2>4 DEF ReadNode, Inv, TypeOK
      <4>2. Valid(cur[r])
        BY <4>1 DEF Inv, ReadInv
      <4>3. QED
        BY <4>1, <4>2 DEF Inv, LinkInv
    <3>3. Returned(r)' = Returned(r)
      BY <3>1, <3>2 DEF Returned, Valid
    <3>4. result' = result
      BY <2>2, <3>3
    <3>5. UNCHANGED Abstract!vars
      BY <2>1, <3>1, <3>4 DEF Abstract!vars
    <3>6. QED
      BY <3>5
  <2>5. CASE ReadReturn(r)
    <3>1. PICK k \in 0..Len(added) :
            /\ k <= Room /\ (k >= began[r] \/ k = Room)
            /\ SubSeq(got[r], 1,
                      IF Len(got[r]) <= Room THEN Len(got[r]) ELSE Room)
                 = SubSeq(added, 1, k)
      BY <1>7, <2>5, ReturnedPrefix
    <3>2. /\ cur[r] # Nil /\ cur'[r] = Nil /\ got' = got
          /\ began' = [began EXCEPT ![r] = -1]
      BY <2>5 DEF ReadReturn, Inv, TypeOK
    <3>3. began[r] # -1
      BY <3>2 DEF ListInv
    <3>4. Returned(r)' = SubSeq(added, 1, k)
      BY <1>7, <2>1, <3>1, <3>2 DEF Returned
    <3>5. result' = [result EXCEPT ![r] = SubSeq(added, 1, k)]
      BY <2>2, <3>4
    <3>6. Abstract!Return(r)
      BY <1>7, <2>1, <3>1, <3>2, <3>3, <3>5 DEF Abstract!Return
    <3>7. QED
      BY <3>6 DEF Abstract!Next
  <2>6. QED
    BY <1>7, <2>3, <2>4, <2>5 DEF Reader
<1>8. CASE Rmmod \/ DeleteNode \/ ExitReturn \/ UNCHANGED vars
  BY <1>3, <1>8 DEF Rmmod, DeleteNode, ExitReturn, readers, vars, Intact
<1>9. QED
  BY <1>4, <1>5, <1>6, <1>7, <1>8 DEF Next, Module

(* With ordered stores and one writer at a time the list is append-only    *)
(* and every read returns its first numbers; collisions end that, a new    *)
(* load restores it.                                                       *)
THEOREM Refinement == Safety => Implements
<1>1. Init => Inv /\ ListInv /\ Abstract!Init
  BY InitInv, InitList, InitRefines
<1>2. Inv /\ ListInv /\ [Next]_vars => Inv' /\ ListInv'
  BY NextInv, ListInvNext
<1>3. Inv /\ ListInv /\ [Next]_vars => [Abstract!Next]_(Abstract!vars)
  BY StepRefines
<1>4. QED
  BY <1>1, <1>2, <1>3, PTL DEF Safety, Implements, Abstract!Spec
-----------------------------------------------------------------------------
(* No read meets a node twice, though writers collide: first, what is true *)
(* of a node whose writer has not cleared its self-loop (INIT_LIST_HEAD)   *)
(* yet, if the stores are made in order.  Nobody else has linked to it.    *)
Fresh(x) == \E w \in Writers : new[w] = x /\ (at[w] = "begun" \/ 2 \in todo[w])

BegunOf(w) ==
  at[w] = "begun" =>
    /\ next[new[w]] = new[w]
    /\ \A v \in Writers : at[v] = "linking" => tail[v] # new[w]
    /\ \A r \in Readers : \A i \in 1..Len(got[r]) : got[r][i] # new[w]

FreshInv ==
  /\ \A w \in Writers : 2 \in todo[w] => 4 \in todo[w]
  /\ \A w \in Writers : BegunOf(w)
  /\ \A x \in Nodes : next[x] = x => Fresh(x)
  /\ \A r \in Readers : ~Fresh(cur[r])
  /\ \A r \in Readers : \A i \in 1..Len(got[r]) : life[got[r][i]] # "unused"

HandInv == ordered => FreshInv

(* What is followed from a node that is not fresh is not fresh.            *)
LEMMA FollowedNotFresh ==
  ASSUME Inv, FreshInv, NEW x \in Links, ~Fresh(x)
  PROVE  ~Fresh(next[x])
<1> SUFFICES ASSUME NEW w \in Writers, new[w] = next[x],
                    at[w] = "begun" \/ 2 \in todo[w]
             PROVE  FALSE
  BY DEF Fresh
<1>1. at[w] # "idle" /\ new[w] # x
  BY DEF Fresh, Inv, OwnInv
<1>2. at[w] = "linking" /\ 4 \notin todo[w]
  BY <1>1 DEF Inv, StepInv, StepOf
<1>3. QED
  BY <1>2 DEF FreshInv

(* Nobody's hand holds the head, or nothing.                               *)
LEMMA OnlyNodesFresh ==
  ASSUME Inv, NEW x, Fresh(x)
  PROVE  x \in Nodes
BY DEF Fresh, Inv, OwnInv

LEMMA AllocateHand ==
  ASSUME Inv, FreshInv, NEW w \in Writers, Allocate(w)
  PROVE  FreshInv'
<1>1. PICK n \in Nodes :
        /\ life[n] = "unused"
        /\ life' = [life EXCEPT ![n] = "used"]
        /\ new' = [new EXCEPT ![w] = n]
        /\ next' = [next EXCEPT ![n] = n]
        /\ prev' = [prev EXCEPT ![n] = n]
  BY DEF Allocate
<1>2. /\ at' = [at EXCEPT ![w] = "begun"] /\ at[w] = "idle"
      /\ UNCHANGED <<ordered, tail, todo, cur, got>>
  BY DEF Allocate, readers
<1>3. todo[w] = {} /\ \A v \in Writers : at[v] # "idle" => new[v] # n
  BY <1>1, <1>2 DEF Inv, OwnInv
<1>4. \A v \in Writers \ {w} : at'[v] = at[v] /\ new'[v] = new[v]
  BY <1>1, <1>2 DEF Inv, TypeOK
<1>5. at'[w] = "begun" /\ new'[w] = n
  BY <1>1, <1>2 DEF Inv, TypeOK
<1>6. \A x \in Links : next'[x] = IF x = n THEN n ELSE next[x]
  BY <1>1 DEF Inv, TypeOK
<1>7. ASSUME NEW x PROVE Fresh(x)' <=> Fresh(x) \/ x = n
  <2>1. ASSUME NEW v \in Writers \ {w}
        PROVE  /\ new'[v] = x /\ (at'[v] = "begun" \/ 2 \in todo'[v])
                 <=> new[v] = x /\ (at[v] = "begun" \/ 2 \in todo[v])
    BY <1>2, <1>4
  <2>2. ~(at[w] = "begun" \/ 2 \in todo[w])
    BY <1>2, <1>3
  <2>3. QED
    BY <1>5, <2>1, <2>2 DEF Fresh
<1>8. \A v \in Writers : at[v] = "linking" => tail[v] # n
  BY <1>1 DEF Inv, StepInv, StepOf, Valid
<1>9. \A r \in Readers : \A i \in 1..Len(got[r]) : got[r][i] # n
  BY <1>1 DEF FreshInv
<1>10. ASSUME NEW v \in Writers PROVE BegunOf(v)'
  <2>1. CASE v = w
    BY <1>2, <1>4, <1>5, <1>6, <1>8, <1>9, <2>1 DEF BegunOf
  <2>2. CASE v # w
    <3>1. BegunOf(v) /\ at'[v] = at[v] /\ new'[v] = new[v]
      BY <1>4, <2>2 DEF FreshInv
    <3>2. at[v] # "idle" => new[v] \in Nodes /\ new[v] # n
      BY <1>3 DEF Inv, OwnInv
    <3>3. QED
      BY <1>2, <1>4, <1>5, <1>6, <3>1, <3>2 DEF BegunOf
  <2>3. QED
    BY <2>1, <2>2
<1>11. \A r \in Readers : cur[r] # n
  BY <1>1 DEF Inv, ReadInv, Valid
<1>12. \A r \in Readers : \A i \in 1..Len(got[r]) : life'[got[r][i]] # "unused"
  BY <1>1 DEF FreshInv, Inv, TypeOK
<1>13. QED
  BY <1>2, <1>6, <1>7, <1>10, <1>11, <1>12 DEF FreshInv

LEMMA LoadTailHand ==
  ASSUME Inv, FreshInv, NEW w \in Writers, LoadTail(w)
  PROVE  FreshInv'
<1>1. /\ at' = [at EXCEPT ![w] = "linking"] /\ at[w] = "begun"
      /\ todo' = [todo EXCEPT ![w] = 1..4]
      /\ tail' = [tail EXCEPT ![w] = prev[HeadNode]]
      /\ UNCHANGED <<ordered, next, prev, life, new, cur, got>>
  BY DEF LoadTail, module, readers
<1>2. /\ at'[w] = "linking" /\ todo'[w] = 1..4 /\ tail'[w] = prev[HeadNode]
      /\ \A v \in Writers \ {w} : /\ at'[v] = at[v] /\ todo'[v] = todo[v]
                                  /\ tail'[v] = tail[v]
  BY <1>1 DEF Inv, TypeOK
<1>3. ASSUME NEW x PROVE Fresh(x)' <=> Fresh(x)
  <2>1. ASSUME NEW v \in Writers
        PROVE  at'[v] = "begun" \/ 2 \in todo'[v]
                 <=> at[v] = "begun" \/ 2 \in todo[v]
    BY <1>1, <1>2
  <2>2. QED
    BY <1>1, <2>1 DEF Fresh
<1>4. ASSUME NEW v \in Writers PROVE BegunOf(v)'
  <2>1. at'[v] = "begun" => v # w /\ at[v] = "begun"
    BY <1>2
  <2>2. at[v] = "begun" => prev[HeadNode] # new[v]
    BY DEF Inv, StepInv, StepOf
  <2>3. QED
    BY <1>1, <1>2, <2>1, <2>2 DEF FreshInv, BegunOf
<1>5. \A v \in Writers : 2 \in todo'[v] => 4 \in todo'[v]
  BY <1>2 DEF FreshInv
<1>6. QED
  BY <1>1, <1>3, <1>4, <1>5 DEF FreshInv

(* The stores: the second one ends the self-loop, the last one publishes   *)
(* the node.                                                               *)
LEMMA LinkHand ==
  ASSUME Inv, FreshInv, ordered, NEW w \in Writers, LinkStep(w)
  PROVE  FreshInv'
<1>1. PICK s \in 1..4 :
        /\ Store(w, s)
        /\ s = 2 => next' = [next EXCEPT ![new[w]] = HeadNode]
        /\ s = 4 => next' = [next EXCEPT ![tail[w]] = new[w]]
        /\ s \in {1, 3} => next' = next
  BY DEF LinkStep, StoreHeadPrev, StoreNewNext, StoreNewPrev, StoreTailNext
<1>2. /\ at[w] = "linking" /\ new[w] \in Nodes /\ tail[w] # new[w]
      /\ tail[w] \in Links /\ todo'[w] = todo[w] \ {s}
      /\ \A v \in Writers \ {w} : todo'[v] = todo[v]
      /\ \A v \in Writers \ {w} : at[v] # "idle" => new[v] # new[w]
      /\ UNCHANGED <<life, at, new, tail, cur, got>>
  BY <1>1, StoreFrame DEF StepOf
<1>3. \A t \in todo[w] : s <= t
  BY <1>1 DEF Store
<1>4. todo[w] \subseteq 1..4
  BY DEF Inv, TypeOK
<1>5. ASSUME NEW x PROVE Fresh(x)' <=> Fresh(x) /\ ~(s = 2 /\ x = new[w])
  <2>1. ASSUME NEW v \in Writers
        PROVE  (at'[v] = "begun" \/ 2 \in todo'[v])
                 <=> (at[v] = "begun" \/ 2 \in todo[v]) /\ ~(s = 2 /\ v = w)
    BY <1>2
  <2>2. ASSUME NEW v \in Writers \ {w}, at[v] = "begun" \/ 2 \in todo[v]
        PROVE  new[v] # new[w]
    BY <1>2, <2>2 DEF Inv, OwnInv
  <2>3. QED
    BY <1>2, <2>1, <2>2 DEF Fresh
<1>6. \A v \in Writers : 2 \in todo'[v] => 4 \in todo'[v]
  BY <1>2, <1>3, <1>4 DEF FreshInv
<1>7. ASSUME NEW v \in Writers PROVE BegunOf(v)'
  <2> SUFFICES ASSUME at[v] = "begun" PROVE BegunOf(v)'
    BY <1>2 DEF BegunOf
  <2>1. new[v] \in Nodes /\ new[v] # new[w] /\ tail[w] # new[v] /\ BegunOf(v)
    BY <1>2 DEF Inv, OwnInv, FreshInv, BegunOf
  <2>2. next'[new[v]] = next[new[v]]
    BY <1>1, <1>2, <2>1 DEF Inv, TypeOK
  <2>3. QED
    BY <1>2, <2>1, <2>2 DEF BegunOf
<1>8. ASSUME NEW x \in Nodes, next'[x] = x
      PROVE  next[x] = x /\ ~(s = 2 /\ x = new[w])
  BY <1>1, <1>2, <1>8 DEF Inv, TypeOK
<1>9. QED
  BY <1>2, <1>5, <1>6, <1>7, <1>8 DEF FreshInv

LEMMA AddedHand ==
  ASSUME Inv, FreshInv, NEW w \in Writers, Added(w)
  PROVE  FreshInv'
<1>1. /\ at' = [at EXCEPT ![w] = "idle"] /\ at[w] = "linking" /\ todo[w] = {}
      /\ UNCHANGED <<next, life, new, tail, todo, cur, got>>
  BY DEF Added, module, readers
<1>2. \A v \in Writers : /\ at'[v] = "begun" <=> at[v] = "begun"
                         /\ at'[v] = "linking" => at[v] = "linking"
  BY <1>1 DEF Inv, TypeOK
<1>3. \A x : Fresh(x)' <=> Fresh(x)
  BY <1>1, <1>2 DEF Fresh
<1>4. \A v \in Writers : BegunOf(v)'
  BY <1>1, <1>2 DEF FreshInv, BegunOf
<1>5. QED
  BY <1>1, <1>3, <1>4 DEF FreshInv

(* Readers stand on nodes that are not fresh, and count no others.         *)
LEMMA ReaderHand ==
  ASSUME Inv, FreshInv, NEW r \in Readers, Reader(r)
  PROVE  FreshInv'
<1>1. /\ UNCHANGED <<next, life, at, new, tail, todo>>
      /\ \A q \in Readers \ {r} : cur'[q] = cur[q] /\ got'[q] = got[q]
  BY DEF Reader, ReadBegin, ReadNode, ReadReturn, module, writers, Inv, TypeOK
<1>2. \A x : Fresh(x)' <=> Fresh(x)
  BY <1>1 DEF Fresh
<1>3. ~Fresh(HeadNode) /\ ~Fresh(Nil)
  BY OnlyNodesFresh
<1>4. ASSUME NEW i \in 1..Len(got'[r])
      PROVE  \/ i \in 1..Len(got[r]) /\ got'[r][i] = got[r][i]
             \/ cur[r] \in Nodes /\ got'[r][i] = cur[r]
  <2>1. CASE ReadBegin(r)
    <3>1. Len(got'[r]) = 0
      BY <2>1 DEF ReadBegin, Inv, TypeOK
    <3>2. QED
      BY <1>4, <3>1
  <2>2. CASE ReadNode(r)
    <3>1. got[r] \in Seq(Nodes) /\ cur[r] \in Nodes
      BY <2>2 DEF ReadNode, Inv, TypeOK
    <3>2. got'[r] = Append(got[r], cur[r]) \/ got'[r] = got[r]
      BY <2>2 DEF ReadNode, Inv, TypeOK
    <3>3. QED
      BY <1>4, <3>1, <3>2
  <2>3. CASE ReadReturn(r)
    BY <1>4, <2>3 DEF ReadReturn
  <2>4. QED
    BY <2>1, <2>2, <2>3 DEF Reader
<1>5. ASSUME cur[r] \in Nodes
      PROVE  /\ life[cur[r]] = "used"
             /\ \A v \in Writers : at[v] = "begun" => new[v] # cur[r]
  BY <1>5 DEF Inv, ReadInv, Valid, FreshInv, Fresh
<1>6. ASSUME NEW i \in 1..Len(got'[r])
      PROVE  /\ life[got'[r][i]] # "unused"
             /\ \A v \in Writers : at[v] = "begun" => new[v] # got'[r][i]
  BY <1>4, <1>5, <1>6 DEF FreshInv, BegunOf
<1>7. \A v \in Writers : BegunOf(v)'
  BY <1>1, <1>6 DEF FreshInv, BegunOf
<1>8. ~Fresh(cur'[r])
  <2>1. CASE ReadBegin(r)
    <3>1. cur'[r] = next[HeadNode]
      BY <2>1 DEF ReadBegin, Inv, TypeOK
    <3>2. QED
      BY <1>3, <3>1, FollowedNotFresh
  <2>2. CASE ReadNode(r)
    <3>1. cur'[r] = next[cur[r]] /\ cur[r] \in Links
      BY <2>2 DEF ReadNode, Inv, TypeOK
    <3>2. QED
      BY <3>1, FollowedNotFresh DEF FreshInv
  <2>3. CASE ReadReturn(r)
    <3>1. cur'[r] = Nil
      BY <2>3 DEF ReadReturn, Inv, TypeOK
    <3>2. QED
      BY <1>3, <3>1
  <2>4. QED
    BY <2>1, <2>2, <2>3 DEF Reader
<1>9. \A q \in Readers : ~Fresh(cur'[q])
  BY <1>1, <1>8 DEF FreshInv
<1>10. \A q \in Readers : ~Fresh(cur[q])'
  BY <1>2, <1>9
<1>11. \A q \in Readers : \A i \in 1..Len(got'[q]) : life[got'[q][i]] # "unused"
  BY <1>1, <1>6 DEF FreshInv
<1>12. QED
  BY <1>1, <1>2, <1>7, <1>10, <1>11 DEF FreshInv

LEMMA ModuleHand ==
  ASSUME Inv, FreshInv, Module
  PROVE  FreshInv'
<1>1. CASE Rmmod \/ ExitReturn
  <2>1. UNCHANGED <<next, life, at, new, tail, todo, cur, got>>
    BY <1>1 DEF Rmmod, ExitReturn, writers, readers
  <2>2. \A x : Fresh(x)' <=> Fresh(x)
    BY <2>1 DEF Fresh
  <2>3. \A v \in Writers : BegunOf(v)'
    BY <2>1 DEF FreshInv, BegunOf
  <2>4. QED
    BY <2>1, <2>2, <2>3 DEF FreshInv
<1>2. CASE DeleteNode
  <2>1. UNCHANGED <<at, new, tail, todo, cur, got>> /\ phase = "exit"
        /\ pos # HeadNode
    BY <1>2 DEF DeleteNode, writers, readers
  <2>2. \A x \in Nodes : next'[x] = IF x = pos THEN Nil ELSE next[x]
    BY <1>2, DeleteLinks
  <2>3. \A x : Fresh(x)' <=> Fresh(x)
    BY <2>1 DEF Fresh
  <2>4. \A v \in Writers : BegunOf(v)'
    BY <2>1 DEF Inv, OwnInv, BegunOf
  <2>5. \A x \in Nodes : life[x] # "unused" => life'[x] # "unused"
    BY <1>2 DEF DeleteNode, Inv, TypeOK
  <2>6. \A r \in Readers : \A i \in 1..Len(got[r]) : got[r][i] \in Nodes
    BY DEF Inv, TypeOK
  <2>7. QED
    BY <2>1, <2>2, <2>3, <2>4, <2>5, <2>6 DEF FreshInv
<1>3. CASE Insmod
  <2>1. /\ \A v \in Writers : at'[v] = "idle" /\ todo'[v] = {}
        /\ next' = FreshLinks /\ got' = [r \in Readers |-> <<>>]
    BY <1>3 DEF Insmod, Inv, OwnInv
  <2>2. \A x : ~Fresh(x)'
    BY <2>1 DEF Fresh
  <2>3. \A v \in Writers : BegunOf(v)'
    BY <2>1 DEF BegunOf
  <2>4. \A r \in Readers : Len(got'[r]) = 0
    BY <2>1
  <2>5. \A x \in Nodes : next'[x] # x
    BY <2>1 DEF FreshLinks
  <2>6. QED
    BY <2>1, <2>2, <2>3, <2>4, <2>5 DEF FreshInv
<1>4. QED
  BY <1>1, <1>2, <1>3 DEF Module

LEMMA HandNext == Inv /\ HandInv /\ [Next]_vars => HandInv'
<1> SUFFICES ASSUME Inv, HandInv, [Next]_vars, ordered' PROVE FreshInv'
  BY DEF HandInv
<1>1. ordered
  BY DEF Next, Module, Writer, Reader, LinkStep, Allocate, LoadTail,
      StoreHeadPrev, StoreNewNext, StoreNewPrev, StoreTailNext, Store, Added,
      ReadBegin, ReadNode, ReadReturn, Rmmod, DeleteNode, ExitReturn, Insmod,
      vars
<1>2. FreshInv
  BY <1>1 DEF HandInv
<1>3. CASE \E w \in Writers : Writer(w)
  BY <1>1, <1>2, <1>3, AllocateHand, LoadTailHand, LinkHand, AddedHand DEF Writer
<1>4. CASE \E r \in Readers : Reader(r)
  BY <1>2, <1>4, ReaderHand
<1>5. CASE Module
  BY <1>2, <1>5, ModuleHand
<1>6. CASE UNCHANGED vars
  <2>1. UNCHANGED <<next, life, at, new, tail, todo, cur, got>>
    BY <1>6 DEF vars
  <2>2. QED
    BY <1>2, <2>1 DEF FreshInv, Fresh, BegunOf
<1>7. QED
  BY <1>3, <1>4, <1>5, <1>6 DEF Next
-----------------------------------------------------------------------------
(* Ranks of the nodes, in the order in which their writers looked for the  *)
(* end of the list: links lead from lower to higher ranks, so do pending   *)
(* ones, and every read has gone upwards.                                  *)
Rising(f) ==
  /\ \A x, y \in Nodes : next[x] = y /\ y # x => f[x] < f[y]
  /\ \A w \in Writers :
       at[w] = "linking" /\ tail[w] \in Nodes => f[tail[w]] < f[new[w]]
  /\ \A r \in Readers : \A j \in 1..Len(got[r]) :
       /\ cur[r] \in Nodes => f[got[r][j]] < f[cur[r]]
       /\ \A i \in 1..(j - 1) : f[got[r][i]] < f[got[r][j]]

RankInv == ordered => \E m \in Nat : \E f \in [Nodes -> 0..m] : Rising(f)

(* What a read has counted are nodes.                                      *)
LEMMA CountedNodes ==
  ASSUME Inv, NEW r \in Readers
  PROVE  /\ got[r] \in Seq(Nodes) /\ Len(got[r]) \in Nat
         /\ \A i \in 1..Len(got[r]) : got[r][i] \in Nodes
<1>1. got[r] \in Seq(Nodes)
  BY DEF Inv, TypeOK
<1>2. QED
  BY <1>1

LEMMA AllocateRising ==
  ASSUME Inv, NEW f, Rising(f), NEW w \in Writers, Allocate(w)
  PROVE  Rising(f)'
<1>1. PICK n \in Nodes : next' = [next EXCEPT ![n] = n]
                         /\ new' = [new EXCEPT ![w] = n]
  BY DEF Allocate
<1>2. at' = [at EXCEPT ![w] = "begun"] /\ UNCHANGED <<tail, cur, got>>
  BY DEF Allocate, readers
<1>3. \A x \in Nodes : next'[x] = IF x = n THEN n ELSE next[x]
  BY <1>1 DEF Inv, TypeOK
<1>4. \A v \in Writers : at'[v] = "linking" => at[v] = "linking" /\ new'[v] = new[v]
  BY <1>1, <1>2 DEF Inv, TypeOK
<1>5. QED
  BY <1>2, <1>3, <1>4 DEF Rising

(* The node of a writer that has found the end of the list takes the       *)
(* highest rank: nothing is linked to it or from it yet.                   *)
LEMMA LoadTailRising ==
  ASSUME Inv, FreshInv, NEW m \in Nat, NEW f \in [Nodes -> 0..m], Rising(f),
         NEW w \in Writers, LoadTail(w)
  PROVE  \E g \in [Nodes -> 0..(m + 1)] : Rising(g)'
<1> DEFINE g == [x \in Nodes |-> IF x = new[w] THEN m + 1 ELSE f[x]]
<1>1. /\ at' = [at EXCEPT ![w] = "linking"] /\ at[w] = "begun"
      /\ tail' = [tail EXCEPT ![w] = prev[HeadNode]]
      /\ UNCHANGED <<next, new, cur, got>>
  BY DEF LoadTail, module, readers
<1>2. /\ tail'[w] = prev[HeadNode] /\ at'[w] = "linking"
      /\ \A v \in Writers \ {w} : at'[v] = at[v] /\ tail'[v] = tail[v]
  BY <1>1 DEF Inv, TypeOK
<1>3. /\ new[w] \in Nodes /\ prev[HeadNode] # new[w] /\ next[new[w]] = new[w]
      /\ \A v \in Writers \ {w} : at[v] = "linking" =>
           tail[v] # new[w] /\ new[v] # new[w] /\ new[v] \in Nodes
      /\ \A r \in Readers : cur[r] # new[w]
      /\ \A r \in Readers : \A i \in 1..Len(got[r]) : got[r][i] # new[w]
  <2>1. new[w] \in Nodes /\ prev[HeadNode] # new[w] /\ BegunOf(w)
    BY <1>1 DEF Inv, OwnInv, StepInv, StepOf, FreshInv
  <2>2. \A r \in Readers : cur[r] # new[w]
    BY <1>1 DEF FreshInv, Fresh
  <2>3. \A v \in Writers \ {w} : at[v] = "linking" =>
          new[v] # new[w] /\ new[v] \in Nodes
    BY <1>1 DEF Inv, OwnInv
  <2>4. QED
    BY <1>1, <2>1, <2>2, <2>3 DEF BegunOf
<1>4. /\ g \in [Nodes -> 0..(m + 1)] /\ g[new[w]] = m + 1
      /\ \A x \in Nodes \ {new[w]} : g[x] = f[x] /\ g[x] < m + 1
  BY <1>3
<1> HIDE DEF g
<1>5. ASSUME NEW x \in Nodes, NEW y \in Nodes, next'[x] = y, y # x
      PROVE  g[x] < g[y]
  <2>1. x # new[w] /\ next[x] = y
    BY <1>1, <1>3, <1>5
  <2>2. y # new[w] => f[x] < f[y]
    BY <1>5, <2>1 DEF Rising
  <2>3. QED
    BY <1>4, <2>1, <2>2
<1>6. ASSUME NEW v \in Writers, at'[v] = "linking", tail'[v] \in Nodes
      PROVE  g[tail'[v]] < g[new'[v]]
  <2>1. CASE v = w
    BY <1>1, <1>2, <1>3, <1>4, <1>6, <2>1
  <2>2. CASE v # w
    <3>1. f[tail[v]] < f[new[v]]
      BY <1>2, <1>6, <2>2 DEF Rising
    <3>2. QED
      BY <1>1, <1>2, <1>3, <1>4, <1>6, <2>2, <3>1
  <2>3. QED
    BY <2>1, <2>2
<1>7. ASSUME NEW r \in Readers, NEW j \in 1..Len(got'[r])
      PROVE  /\ cur'[r] \in Nodes => g[got'[r][j]] < g[cur'[r]]
             /\ \A i \in 1..(j - 1) : g[got'[r][i]] < g[got'[r][j]]
  <2>1. \A i \in 1..Len(got[r]) : got[r][i] \in Nodes \ {new[w]}
    BY <1>3, CountedNodes
  <2>2. \A i \in 1..Len(got[r]) : g[got[r][i]] = f[got[r][i]]
    BY <1>4, <2>1
  <2>3. cur[r] \in Nodes => g[cur[r]] = f[cur[r]]
    BY <1>3, <1>4
  <2>4. j \in 1..Len(got[r]) /\ \A i \in 1..(j - 1) : i \in 1..Len(got[r])
    BY <1>1, <1>7, CountedNodes
  <2>5. QED
    BY <1>1, <2>2, <2>3, <2>4 DEF Rising
<1>8. QED
  BY <1>4, <1>5, <1>6, <1>7 DEF Rising

LEMMA LinkRising ==
  ASSUME Inv, NEW f, Rising(f), NEW w \in Writers, LinkStep(w)
  PROVE  Rising(f)'
<1>1. PICK s \in 1..4 :
        /\ Store(w, s)
        /\ s = 2 => next' = [next EXCEPT ![new[w]] = HeadNode]
        /\ s = 4 => next' = [next EXCEPT ![tail[w]] = new[w]]
        /\ s \in {1, 3} => next' = next
  BY DEF LinkStep, StoreHeadPrev, StoreNewNext, StoreNewPrev, StoreTailNext
<1>2. /\ at[w] = "linking" /\ UNCHANGED <<at, new, tail, cur, got>>
      /\ new[w] \in Nodes /\ tail[w] \in Links
  BY <1>1, StoreFrame
<1>3. ASSUME NEW x \in Nodes, NEW y \in Nodes, next'[x] = y
      PROVE  next[x] = y \/ (x = tail[w] /\ y = new[w])
  <2>1. next \in [Links -> Links \cup {Nil}]
    BY DEF Inv, TypeOK
  <2>2. CASE s = 2
    BY <1>1, <1>2, <1>3, <2>1, <2>2
  <2>3. CASE s = 4
    BY <1>1, <1>2, <1>3, <2>1, <2>3
  <2>4. QED
    BY <1>1, <1>3, <2>2, <2>3
<1>4. \A x, y \in Nodes : next'[x] = y /\ y # x => f[x] < f[y]
  BY <1>2, <1>3 DEF Rising
<1>5. QED
  BY <1>2, <1>4 DEF Rising

(* A read goes upwards.                                                    *)
LEMMA ReaderRising ==
  ASSUME Inv, FreshInv, NEW m \in Nat, NEW f \in [Nodes -> 0..m], Rising(f),
         NEW r \in Readers, Reader(r)
  PROVE  Rising(f)'
<1>1. /\ UNCHANGED <<next, at, new, tail>>
      /\ \A q \in Readers \ {r} : cur'[q] = cur[q] /\ got'[q] = got[q]
  BY DEF Reader, ReadBegin, ReadNode, ReadReturn, module, writers, Inv, TypeOK
<1> SUFFICES ASSUME NEW j \in 1..Len(got'[r])
             PROVE  /\ cur'[r] \in Nodes => f[got'[r][j]] < f[cur'[r]]
                    /\ \A i \in 1..(j - 1) : f[got'[r][i]] < f[got'[r][j]]
  BY <1>1 DEF Rising
<1>2. CASE ReadBegin(r)
  <2>1. Len(got'[r]) = 0
    BY <1>2 DEF ReadBegin, Inv, TypeOK
  <2>2. QED
    BY <2>1
<1>3. CASE ReadNode(r)
  <2>1. /\ cur[r] \in Nodes /\ cur'[r] = next[cur[r]]
        /\ got[r] \in Seq(Nodes) /\ Len(got[r]) \in Nat
    BY <1>3, CountedNodes DEF ReadNode, Inv, TypeOK
  <2>2. got'[r] = Append(got[r], cur[r]) \/ got'[r] = got[r]
    BY <1>3 DEF ReadNode, Inv, TypeOK
  <2>3. cur'[r] # cur[r]
    BY <2>1 DEF FreshInv
  <2>4. cur'[r] \in Nodes => f[cur[r]] < f[cur'[r]]
    BY <2>1, <2>3, Zenon DEF Rising
  <2>5. \A i \in 1..Len(got[r]) : got[r][i] \in Nodes /\ f[got[r][i]] < f[cur[r]]
    BY <2>1, CountedNodes DEF Rising
  <2>6. \A i \in 1..Len(got[r]) : \A k \in 1..(i - 1) :
          f[got[r][k]] < f[got[r][i]]
    BY DEF Rising
  <2>7. \A x \in Nodes : f[x] \in Int
    OBVIOUS
  <2>8. CASE j \in 1..Len(got[r])
    <3>1. got'[r][j] = got[r][j] /\ \A i \in 1..(j - 1) : got'[r][i] = got[r][i]
      <4>1. \A i \in 1..Len(got[r]) : Append(got[r], cur[r])[i] = got[r][i]
        BY <2>1
      <4>2. \A i \in 1..(j - 1) : i \in 1..Len(got[r])
        BY <2>1, <2>8
      <4>3. QED
        BY <2>2, <2>8, <4>1, <4>2
    <3>2. cur'[r] \in Nodes => f[got[r][j]] < f[cur'[r]]
      <4>1. got[r][j] \in Nodes /\ f[got[r][j]] < f[cur[r]]
        BY <2>5, <2>8
      <4>2. /\ f[got[r][j]] \in Int /\ f[cur[r]] \in Int
            /\ cur'[r] \in Nodes => f[cur'[r]] \in Int
        BY <2>1, <2>7, <4>1
      <4>3. QED
        BY <2>4, <4>1, <4>2
    <3>3. QED
      BY <2>6, <2>8, <3>1, <3>2
  <2>9. CASE j \notin 1..Len(got[r])
    <3>1. j = Len(got[r]) + 1 /\ got'[r] = Append(got[r], cur[r])
      BY <2>1, <2>2, <2>9
    <3>2. /\ got'[r][j] = cur[r]
          /\ \A i \in 1..(j - 1) : i \in 1..Len(got[r]) /\ got'[r][i] = got[r][i]
      BY <2>1, <3>1
    <3>3. QED
      BY <2>4, <2>5, <3>2
  <2>10. QED
    BY <2>8, <2>9
<1>4. CASE ReadReturn(r)
  <2>1. cur'[r] = Nil /\ got'[r] = got[r]
    BY <1>4 DEF ReadReturn, Inv, TypeOK
  <2>2. j \in 1..Len(got[r]) /\ cur'[r] \notin Nodes
    BY <2>1
  <2>3. \A i \in 1..(j - 1) : f[got[r][i]] < f[got[r][j]]
    BY <2>2 DEF Rising
  <2>4. QED
    BY <2>1, <2>2, <2>3
<1>5. QED
  BY <1>2, <1>3, <1>4 DEF Reader

LEMMA ModuleRising ==
  ASSUME Inv, NEW f, Rising(f), Module
  PROVE  Rising(f)'
<1>1. CASE Rmmod \/ ExitReturn
  BY <1>1 DEF Rmmod, ExitReturn, writers, readers, Rising
<1>2. CASE DeleteNode
  <2>1. UNCHANGED <<at, new, tail, cur, got>>
    BY <1>2 DEF DeleteNode, writers, readers
  <2>2. \A x \in Nodes : next'[x] \in {Nil, next[x]}
    BY <1>2, DeleteLinks
  <2>3. QED
    BY <2>1, <2>2 DEF Rising
<1>3. CASE Insmod
  <2>1. /\ \A v \in Writers : at'[v] = "idle"
        /\ next' = FreshLinks /\ got' = [r \in Readers |-> <<>>]
    BY <1>3 DEF Insmod, Inv, OwnInv
  <2>2. \A r \in Readers : Len(got'[r]) = 0
    BY <2>1
  <2>3. \A x \in Nodes : next'[x] = Nil
    BY <2>1 DEF FreshLinks
  <2>4. QED
    BY <2>1, <2>2, <2>3 DEF Rising
<1>4. QED
  BY <1>1, <1>2, <1>3 DEF Module

LEMMA RankNext == Inv /\ HandInv /\ RankInv /\ [Next]_vars => RankInv'
<1> SUFFICES ASSUME Inv, HandInv, RankInv, [Next]_vars, ordered'
             PROVE  \E m \in Nat : \E f \in [Nodes -> 0..m] : Rising(f)'
  BY DEF RankInv
<1>1. ordered
  BY DEF Next, Module, Writer, Reader, LinkStep, Allocate, LoadTail,
      StoreHeadPrev, StoreNewNext, StoreNewPrev, StoreTailNext, Store, Added,
      ReadBegin, ReadNode, ReadReturn, Rmmod, DeleteNode, ExitReturn, Insmod,
      vars
<1>2. PICK m \in Nat : \E f \in [Nodes -> 0..m] : Rising(f)
  BY <1>1 DEF RankInv
<1>3. PICK f \in [Nodes -> 0..m] : Rising(f)
  BY <1>2
<1>4. FreshInv
  BY <1>1 DEF HandInv
<1>5. ASSUME NEW w \in Writers, LoadTail(w)
      PROVE  \E k \in Nat : \E g \in [Nodes -> 0..k] : Rising(g)'
  <2>1. \E g \in [Nodes -> 0..(m + 1)] : Rising(g)'
    BY <1>3, <1>4, <1>5, LoadTailRising
  <2>2. QED
    BY <2>1
<1>6. ASSUME NEW w \in Writers, Added(w) PROVE Rising(f)'
  <2>1. /\ at' = [at EXCEPT ![w] = "idle"]
        /\ UNCHANGED <<next, new, tail, cur, got>>
    BY <1>6 DEF Added, module, readers
  <2>2. \A v \in Writers : at'[v] = "linking" => at[v] = "linking"
    BY <2>1 DEF Inv, TypeOK
  <2>3. QED
    BY <1>3, <2>1, <2>2 DEF Rising
<1>7. CASE UNCHANGED vars
  BY <1>3, <1>7 DEF vars, Rising
<1>8. CASE \E w \in Writers : Allocate(w) \/ LinkStep(w)
  <2>1. Rising(f)'
    BY <1>3, <1>8, AllocateRising, LinkRising
  <2>2. QED
    BY <2>1
<1>9. CASE (\E r \in Readers : Reader(r)) \/ Module
  <2>1. Rising(f)'
    BY <1>3, <1>4, <1>9, ReaderRising, ModuleRising
  <2>2. QED
    BY <2>1
<1>10. QED
  BY <1>5, <1>6, <1>7, <1>8, <1>9 DEF Next, Writer

(* If the stores are made in order, no read meets a node twice, however    *)
(* many writers link at a time and whatever they lose of each other.       *)
THEOREM ReadsNeverRepeat == Safety => []NoNodeTwice
<1>1. Init => HandInv /\ RankInv
  <2> SUFFICES ASSUME Init PROVE FreshInv /\ RankInv
    BY DEF HandInv
  <2>1. /\ \A w \in Writers : at[w] = "idle" /\ todo[w] = {}
        /\ \A r \in Readers : got[r] = <<>> /\ Len(got[r]) = 0
        /\ \A x \in Nodes : next[x] = Nil
    BY DEF Init, FreshLinks
  <2>2. \A x : ~Fresh(x)
    BY <2>1 DEF Fresh
  <2>3. FreshInv
    BY <2>1, <2>2 DEF FreshInv, BegunOf
  <2>4. [x \in Nodes |-> 0] \in [Nodes -> 0..0]
    OBVIOUS
  <2>5. Rising([x \in Nodes |-> 0])
    BY <2>1 DEF Rising
  <2>6. QED
    BY <2>3, <2>4, <2>5 DEF RankInv
<1>2. Inv /\ RankInv => NoNodeTwice
  <2> SUFFICES ASSUME Inv, RankInv, ordered, NEW r \in Readers,
                      NEW i \in 1..Len(got[r]), NEW j \in 1..Len(got[r]),
                      got[r][i] = got[r][j]
               PROVE  i = j
    BY DEF NoNodeTwice
  <2>1. PICK m \in Nat : \E f \in [Nodes -> 0..m] : Rising(f)
    BY DEF RankInv
  <2>2. PICK f \in [Nodes -> 0..m] : Rising(f)
    BY <2>1
  <2>3. got[r][i] \in Nodes /\ Len(got[r]) \in Nat
    BY CountedNodes
  <2>4. ~(f[got[r][i]] < f[got[r][j]]) /\ ~(f[got[r][j]] < f[got[r][i]])
    BY <2>3
  <2>5. ~(i < j)
    <3>1. i < j => i \in 1..(j - 1)
      OBVIOUS
    <3>2. QED
      BY <2>2, <2>4, <3>1 DEF Rising
  <2>6. ~(j < i)
    <3>1. j < i => j \in 1..(i - 1)
      OBVIOUS
    <3>2. QED
      BY <2>2, <2>4, <3>1 DEF Rising
  <2>7. QED
    BY <2>5, <2>6
<1>3. QED
  BY <1>1, <1>2, HandNext, RankNext, Invariance, PTL DEF Safety
-----------------------------------------------------------------------------
(* Unloading frees every node, in whatever order the stores are made, if   *)
(* two writers were never linking at a time: each node allocated is in the *)
(* chain, or in the hand of a writer that has not published it.            *)
Unlisted(w) == at[w] = "begun" \/ 4 \in todo[w]

EachOnce == \A i, j \in 1..Len(added) : added[i] = added[j] => i = j

ListedInv ==
  /\ \A i \in 0..(Len(added) - 1) : next[Entry(i)] = added[i + 1]
  /\ next[Last] = HeadNode \/ \E w \in Writers : 2 \in todo[w] /\ new[w] = Last
  /\ \A i \in 1..Len(added) : life[added[i]] = "used"
  /\ EachOnce
  /\ (\A w \in Writers : todo[w] = {}) => prev[HeadNode] = Last
  /\ \A n \in Nodes : life[n] = "used" =>
       \/ \E i \in 1..Len(added) : added[i] = n
       \/ \E w \in Writers : Unlisted(w) /\ new[w] = n

LoneOf(w) ==
  /\ Unlisted(w) => \A i \in 1..Len(added) : added[i] # new[w]
  /\ at[w] = "begun" => next[new[w]] = new[w]
  /\ todo[w] # {} =>
       /\ \A v \in Writers : todo[v] # {} => v = w
       /\ IF 4 \in todo[w] THEN tail[w] = Last ELSE new[w] = Last
       /\ 1 \notin todo[w] => prev[HeadNode] = new[w]
       /\ 2 \notin todo[w] => next[new[w]] = HeadNode

(* In the exit function, the first k nodes of the chain are deleted.       *)
LeftFrom(k) ==
  /\ next[HeadNode] = IF k = Len(added) THEN HeadNode ELSE added[k + 1]
  /\ \A i \in (k + 1)..Len(added) :
       next[added[i]] = IF i = Len(added) THEN HeadNode ELSE added[i + 1]
  /\ \A n \in Nodes : life[n] = "used" =>
       \E i \in (k + 1)..Len(added) : added[i] = n

LiveInv == ListedInv /\ \A w \in Writers : LoneOf(w)

KeptInv ==
  ~raced =>
    /\ phase = "live" => LiveInv
    /\ phase = "exit" => EachOnce /\ \E k \in 0..Len(added) : LeftFrom(k)
    /\ phase = "gone" => \A n \in Nodes : life[n] # "used"

LEMMA EntryShape ==
  ASSUME Inv
  PROVE  /\ Len(added) \in Nat /\ added \in Seq(Nodes)
         /\ \A i \in 1..Len(added) : added[i] \in Nodes /\ Entry(i) = added[i]
         /\ \A i \in 0..Len(added) : Entry(i) \in Links
         /\ Entry(0) = HeadNode /\ Last \in Links
         /\ Last = IF Len(added) = 0 THEN HeadNode ELSE added[Len(added)]
<1>1. added \in Seq(Nodes)
  BY DEF Inv, TypeOK
<1>2. Len(added) \in Nat /\ \A i \in 1..Len(added) : added[i] \in Nodes
  BY <1>1
<1>3. QED
  BY <1>1, <1>2 DEF Entry, Last

LEMMA AllocateKept ==
  ASSUME Inv, LiveInv, NEW w \in Writers, Allocate(w)
  PROVE  LiveInv'
<1>1. PICK n \in Nodes :
        /\ life[n] = "unused"
        /\ life' = [life EXCEPT ![n] = "used"]
        /\ new' = [new EXCEPT ![w] = n]
        /\ next' = [next EXCEPT ![n] = n]
        /\ prev' = [prev EXCEPT ![n] = n]
  BY DEF Allocate
<1>2. /\ at' = [at EXCEPT ![w] = "begun"] /\ at[w] = "idle"
      /\ UNCHANGED <<tail, todo, added>>
  BY DEF Allocate
<1>3. ListedInv /\ \A v \in Writers : LoneOf(v)
  BY DEF LiveInv
<1>4. \A i \in 1..Len(added) : added[i] # n
  BY <1>1, <1>3 DEF ListedInv
<1>5. /\ at'[w] = "begun" /\ new'[w] = n /\ todo[w] = {}
      /\ \A v \in Writers \ {w} : at'[v] = at[v] /\ new'[v] = new[v]
      /\ \A v \in Writers \ {w} : at[v] # "idle" \/ todo[v] # {} =>
           new[v] \in Nodes /\ new[v] # n
  BY <1>1, <1>2 DEF Inv, TypeOK, OwnInv
<1>6. /\ \A x \in Links : next'[x] = IF x = n THEN n ELSE next[x]
      /\ prev'[HeadNode] = prev[HeadNode]
      /\ \A x \in Nodes : life'[x] = IF x = n THEN "used" ELSE life[x]
  BY <1>1 DEF Inv, TypeOK
<1>7. Last' = Last /\ \A i : Entry(i)' = Entry(i)
  BY <1>2 DEF Last, Entry
<1>8. \A i \in 0..Len(added) : Entry(i) \in Links /\ Entry(i) # n
  BY <1>4, EntryShape DEF Entry
<1>9. Last \in Links /\ Last # n
  BY <1>4, EntryShape
<1>10. Unlisted(w)' /\ \A v \in Writers \ {w} : Unlisted(v)' <=> Unlisted(v)
  BY <1>2, <1>5 DEF Unlisted
<1>11. ~Unlisted(w)
  BY <1>2, <1>5 DEF Unlisted
<1>12. ListedInv'
  <2>1. ASSUME NEW i \in 0..(Len(added) - 1) PROVE next'[Entry(i)] = added[i + 1]
    <3>1. i \in 0..Len(added)
      BY EntryShape
    <3>2. next[Entry(i)] = added[i + 1]
      BY <1>3 DEF ListedInv
    <3>3. QED
      BY <1>6, <1>8, <3>1, <3>2
  <2>2. next'[Last] = HeadNode \/ \E v \in Writers : 2 \in todo[v] /\ new'[v] = Last
    <3>1. CASE next[Last] = HeadNode
      BY <1>6, <1>9, <3>1
    <3>2. CASE next[Last] # HeadNode
      <4>1. PICK v \in Writers : 2 \in todo[v] /\ new[v] = Last
        BY <1>3, <3>2 DEF ListedInv
      <4>2. v # w
        BY <1>5, <4>1
      <4>3. QED
        BY <1>5, <4>1, <4>2
    <3>3. QED
      BY <3>1, <3>2
  <2>3. \A i \in 1..Len(added) : life'[added[i]] = "used"
    BY <1>3, <1>6, EntryShape DEF ListedInv
  <2>4. ASSUME NEW x \in Nodes, life'[x] = "used"
        PROVE  \/ \E i \in 1..Len(added) : added[i] = x
               \/ \E v \in Writers : Unlisted(v)' /\ new'[v] = x
    <3>1. CASE x = n
      BY <1>5, <1>10, <3>1
    <3>2. CASE \E v \in Writers : Unlisted(v) /\ new[v] = x
      BY <1>5, <1>10, <1>11, <3>2
    <3>3. QED
      BY <1>3, <1>6, <2>4, <3>1, <3>2 DEF ListedInv
  <2>5. EachOnce' /\ ((\A v \in Writers : todo[v] = {}) => prev'[HeadNode] = Last)
    BY <1>2, <1>3, <1>6 DEF ListedInv, EachOnce
  <2>6. QED
    BY <1>2, <1>7, <2>1, <2>2, <2>3, <2>4, <2>5 DEF ListedInv
<1>13. ASSUME NEW v \in Writers PROVE LoneOf(v)'
  <2>1. CASE v = w
    BY <1>2, <1>4, <1>5, <1>6, <2>1 DEF LoneOf
  <2>2. CASE v # w
    <3>1. LoneOf(v)
      BY <1>3
    <3>2. at[v] # "idle" \/ todo[v] # {} => next'[new[v]] = next[new[v]]
      BY <1>5, <1>6, <2>2
    <3>3. QED
      BY <1>2, <1>5, <1>6, <1>7, <1>10, <2>2, <3>1, <3>2 DEF LoneOf
  <2>3. QED
    BY <2>1, <2>2
<1>14. QED
  BY <1>12, <1>13 DEF LiveInv

LEMMA LoadTailKept ==
  ASSUME Inv, LiveInv, NEW w \in Writers, LoadTail(w), ~raced'
  PROVE  LiveInv'
<1>1. /\ at[w] = "begun" /\ at' = [at EXCEPT ![w] = "linking"]
      /\ tail' = [tail EXCEPT ![w] = prev[HeadNode]]
      /\ todo' = [todo EXCEPT ![w] = 1..4]
      /\ \A v \in Writers : todo[v] = {}
      /\ UNCHANGED <<life, next, prev, new, added>>
  BY DEF LoadTail, module
<1>2. /\ at'[w] = "linking" /\ tail'[w] = prev[HeadNode] /\ todo'[w] = 1..4
      /\ \A v \in Writers \ {w} : at'[v] = at[v] /\ todo'[v] = {}
  BY <1>1 DEF Inv, TypeOK
<1>3. ListedInv /\ \A v \in Writers : LoneOf(v)
  BY DEF LiveInv
<1>4. next[Last] = HeadNode /\ prev[HeadNode] = Last
  BY <1>1, <1>3 DEF ListedInv
<1>5. Last' = Last /\ \A i : Entry(i)' = Entry(i)
  BY <1>1 DEF Last, Entry
<1>6. \A v \in Writers : Unlisted(v)' <=> Unlisted(v)
  BY <1>1, <1>2 DEF Unlisted
<1>7. EachOnce'
  BY <1>1, <1>3 DEF ListedInv, EachOnce
<1>8. ListedInv'
  BY <1>1, <1>2, <1>3, <1>4, <1>5, <1>6, <1>7 DEF ListedInv
<1>9. ASSUME NEW v \in Writers PROVE LoneOf(v)'
  BY <1>1, <1>2, <1>3, <1>4, <1>5, <1>6 DEF LoneOf
<1>10. QED
  BY <1>8, <1>9 DEF LiveInv

(* The stores that do not publish: whatever is left to do, the node of the *)
(* one writer at work is the last of the chain or will be.                 *)
LEMMA PrivateKept ==
  ASSUME Inv, LiveInv, NEW w \in Writers,
         StoreHeadPrev(w) \/ StoreNewNext(w) \/ StoreNewPrev(w)
  PROVE  LiveInv'
<1>1. PICK s \in 1..3 :
        /\ Store(w, s) /\ added' = added
        /\ s = 1 => /\ prev' = [prev EXCEPT ![HeadNode] = new[w]]
                    /\ next' = next
        /\ s = 2 => /\ next' = [next EXCEPT ![new[w]] = HeadNode]
                    /\ prev' = prev
        /\ s = 3 => /\ prev' = [prev EXCEPT ![new[w]] = tail[w]]
                    /\ next' = next
  <2>1. CASE StoreHeadPrev(w)
    BY <2>1 DEF StoreHeadPrev
  <2>2. CASE StoreNewNext(w)
    BY <2>2 DEF StoreNewNext
  <2>3. CASE StoreNewPrev(w)
    BY <2>3 DEF StoreNewPrev
  <2>4. QED
    BY <2>1, <2>2, <2>3
<1>2. /\ at[w] = "linking" /\ s \in todo[w] /\ new[w] \in Nodes
      /\ \A v \in Writers \ {w} : todo'[v] = todo[v]
      /\ \A v \in Writers \ {w} : at[v] # "idle" => new[v] # new[w]
      /\ todo'[w] = todo[w] \ {s}
      /\ UNCHANGED <<life, at, new, tail>>
  BY <1>1, StoreFrame
<1>3. ListedInv /\ \A v \in Writers : LoneOf(v)
  BY DEF LiveInv
<1>4. \A v \in Writers \ {w} : todo[v] = {} /\ todo'[v] = {}
  BY <1>2, <1>3 DEF LoneOf
<1>5. /\ prev'[HeadNode] = IF s = 1 THEN new[w] ELSE prev[HeadNode]
      /\ \A x \in Links : next'[x] = IF s = 2 /\ x = new[w] THEN HeadNode
                                     ELSE next[x]
  <2>1. /\ next \in [Links -> Links \cup {Nil}]
        /\ prev \in [Links -> Links \cup {Nil}]
    BY DEF Inv, TypeOK
  <2>2. prev'[HeadNode] = IF s = 1 THEN new[w] ELSE prev[HeadNode]
    BY <1>1, <1>2, <2>1
  <2>3. \A x \in Links : next'[x] = IF s = 2 /\ x = new[w] THEN HeadNode
                                    ELSE next[x]
    BY <1>1, <1>2, <2>1
  <2>4. QED
    BY <2>2, <2>3
<1>6. Last' = Last /\ \A i : Entry(i)' = Entry(i)
  BY <1>1 DEF Last, Entry
<1>7. \A v \in Writers : Unlisted(v)' <=> Unlisted(v)
  BY <1>2 DEF Unlisted
<1>8. /\ IF 4 \in todo[w] THEN tail[w] = Last ELSE new[w] = Last
      /\ 1 \notin todo[w] => prev[HeadNode] = new[w]
      /\ 2 \notin todo[w] => next[new[w]] = HeadNode
      /\ Unlisted(w) => \A i \in 1..Len(added) : added[i] # new[w]
  BY <1>2, <1>3 DEF LoneOf
<1>9. 4 \in todo'[w] <=> 4 \in todo[w]
  BY <1>2
<1>10. ListedInv'
  <2>1. ASSUME NEW i \in 0..(Len(added) - 1) PROVE next'[Entry(i)] = added[i + 1]
    <3>1. Entry(i) # new[w]
      <4>1. CASE 4 \in todo[w]
        BY <1>2, <1>8, <4>1, EntryShape DEF Unlisted, Entry
      <4>2. CASE 4 \notin todo[w]
        <5>1. Len(added) # 0 /\ added[Len(added)] = new[w]
          BY <1>2, <1>8, <4>2, EntryShape
        <5>2. i # 0 => i \in 1..Len(added) /\ Len(added) \in 1..Len(added)
                       /\ i # Len(added)
          BY EntryShape
        <5>3. i # 0 => added[i] # added[Len(added)]
          BY <1>3, <5>2 DEF ListedInv, EachOnce
        <5>4. QED
          BY <1>2, <5>1, <5>3 DEF Entry
      <4>3. QED
        BY <4>1, <4>2
    <3>2. Entry(i) \in Links /\ next[Entry(i)] = added[i + 1]
      BY <1>3, EntryShape DEF ListedInv
    <3>3. QED
      BY <1>5, <3>1, <3>2
  <2>2. next'[Last] = HeadNode \/ \E v \in Writers : 2 \in todo'[v] /\ new[v] = Last
    <3>1. CASE next[Last] = HeadNode
      BY <1>5, <3>1, EntryShape
    <3>2. CASE next[Last] # HeadNode
      <4>1. PICK v \in Writers : 2 \in todo[v] /\ new[v] = Last
        BY <1>3, <3>2 DEF ListedInv
      <4>2. v = w
        BY <1>4, <4>1
      <4>3. QED
        BY <1>2, <1>5, <4>1, <4>2
    <3>3. QED
      BY <3>1, <3>2
  <2>3. (\A v \in Writers : todo'[v] = {}) => prev'[HeadNode] = Last
    BY <1>2, <1>5, <1>8, <1>9
  <2>4. EachOnce'
    BY <1>1, <1>3 DEF ListedInv, EachOnce
  <2>5. QED
    BY <1>1, <1>2, <1>3, <1>6, <1>7, <2>1, <2>2, <2>3, <2>4 DEF ListedInv
<1>11. ASSUME NEW v \in Writers PROVE LoneOf(v)'
  <2>1. CASE v = w
    <3>1. /\ \A u \in Writers : todo'[u] # {} => u = w
          /\ 1 \notin todo'[w] => prev'[HeadNode] = new[w]
          /\ 2 \notin todo'[w] => next'[new[w]] = HeadNode
      BY <1>2, <1>4, <1>5, <1>8
    <3>2. QED
      BY <1>1, <1>2, <1>6, <1>7, <1>8, <1>9, <2>1, <3>1 DEF LoneOf
  <2>2. CASE v # w
    <3>1. todo'[v] = {} /\ LoneOf(v)
      BY <1>3, <1>4, <2>2
    <3>2. at[v] = "begun" => new[v] \in Nodes /\ new[v] # new[w]
      BY <1>2, <2>2 DEF Inv, OwnInv
    <3>3. QED
      BY <1>1, <1>2, <1>5, <1>7, <3>1, <3>2 DEF LoneOf
  <2>3. QED
    BY <2>1, <2>2
<1>12. QED
  BY <1>10, <1>11 DEF LiveInv

(* The store that publishes appends to the chain.                          *)
LEMMA PublishKept ==
  ASSUME Inv, LiveInv, NEW w \in Writers, StoreTailNext(w)
  PROVE  LiveInv'
<1>1. /\ Store(w, 4) /\ added' = Append(added, new[w])
      /\ next' = [next EXCEPT ![tail[w]] = new[w]] /\ prev' = prev
  BY DEF StoreTailNext
<1>2. /\ at[w] = "linking" /\ 4 \in todo[w] /\ tail[w] # new[w]
      /\ new[w] \in Nodes /\ life[new[w]] = "used" /\ tail[w] \in Links
      /\ \A v \in Writers \ {w} : todo'[v] = todo[v]
      /\ \A v \in Writers \ {w} : at[v] # "idle" => new[v] # new[w]
      /\ todo'[w] = todo[w] \ {4}
      /\ UNCHANGED <<life, at, new, tail>>
  BY <1>1, StoreFrame DEF StepOf
<1>3. ListedInv /\ \A v \in Writers : LoneOf(v)
  BY DEF LiveInv
<1>4. \A v \in Writers \ {w} : todo[v] = {} /\ todo'[v] = {}
  BY <1>2, <1>3 DEF LoneOf
<1>5. /\ tail[w] = Last
      /\ 1 \notin todo[w] => prev[HeadNode] = new[w]
      /\ 2 \notin todo[w] => next[new[w]] = HeadNode
      /\ \A i \in 1..Len(added) : added[i] # new[w]
  BY <1>2, <1>3 DEF LoneOf, Unlisted
<1>6. \A x \in Links : next'[x] = IF x = Last THEN new[w] ELSE next[x]
  BY <1>1, <1>2, <1>5 DEF Inv, TypeOK
<1>7. /\ Len(added) \in Nat /\ Len(added') = Len(added) + 1
      /\ \A i \in 1..Len(added) : added'[i] = added[i]
      /\ added'[Len(added) + 1] = new[w]
  BY <1>1, <1>2, EntryShape
<1>8. /\ Last' = new[w]
      /\ \A i \in 0..Len(added) : Entry(i)' = Entry(i)
  BY <1>7 DEF Last, Entry
<1>9. Entry(Len(added)) = Last /\ Last \in Links /\ Last # new[w]
  BY <1>2, <1>5, EntryShape DEF Last
<1>10. ListedInv'
  <2>1. ASSUME NEW i \in 0..(Len(added') - 1)
        PROVE  next'[Entry(i)'] = added'[i + 1]
    <3>1. CASE i = Len(added)
      BY <1>6, <1>7, <1>8, <1>9, <3>1
    <3>2. CASE i # Len(added)
      <4>1. i \in 0..(Len(added) - 1) /\ i + 1 \in 1..Len(added)
        BY <1>7, <3>2
      <4>2. Entry(i) # Last
        <5>1. i # 0 => i \in 1..Len(added) /\ Len(added) \in 1..Len(added)
          BY <1>7, <4>1
        <5>2. i # 0 => added[i] # added[Len(added)]
          BY <1>3, <3>2, <5>1 DEF ListedInv, EachOnce
        <5>3. Len(added) # 0 /\ added[Len(added)] \in Nodes
          BY <1>7, <4>1, EntryShape
        <5>4. QED
          BY <5>2, <5>3 DEF Entry, Last
      <4>3. Entry(i) \in Links /\ next[Entry(i)] = added[i + 1]
        BY <1>3, <4>1, EntryShape DEF ListedInv
      <4>4. QED
        BY <1>6, <1>7, <1>8, <4>1, <4>2, <4>3
    <3>3. QED
      BY <3>1, <3>2
  <2>2. next'[Last'] = HeadNode
          \/ \E v \in Writers : 2 \in todo'[v] /\ new'[v] = Last'
    <3>1. next'[new[w]] = next[new[w]]
      BY <1>2, <1>6, <1>9
    <3>2. QED
      BY <1>2, <1>5, <1>8, <3>1
  <2>3. \A i \in 1..Len(added') : life'[added'[i]] = "used"
    BY <1>2, <1>3, <1>7 DEF ListedInv
  <2>4. EachOnce'
    BY <1>3, <1>5, <1>7 DEF ListedInv, EachOnce
  <2>5. (\A v \in Writers : todo'[v] = {}) => prev'[HeadNode] = Last'
    BY <1>1, <1>2, <1>5, <1>8
  <2>6. ASSUME NEW n \in Nodes, life'[n] = "used"
        PROVE  \/ \E i \in 1..Len(added') : added'[i] = n
               \/ \E v \in Writers : Unlisted(v)' /\ new'[v] = n
    <3>1. CASE n = new[w]
      <4>1. Len(added) + 1 \in 1..Len(added')
        BY <1>7
      <4>2. QED
        BY <1>7, <3>1, <4>1
    <3>2. CASE \E i \in 1..Len(added) : added[i] = n
      <4>1. PICK i \in 1..Len(added) : added[i] = n
        BY <3>2
      <4>2. i \in 1..Len(added') /\ added'[i] = n
        BY <1>7, <4>1
      <4>3. QED
        BY <4>2
    <3>3. CASE n # new[w] /\ \E v \in Writers : Unlisted(v) /\ new[v] = n
      BY <1>2, <3>3 DEF Unlisted
    <3>4. QED
      BY <1>2, <1>3, <2>6, <3>1, <3>2, <3>3 DEF ListedInv
  <2>7. QED
    BY <2>1, <2>2, <2>3, <2>4, <2>5, <2>6 DEF ListedInv
<1>11. ASSUME NEW v \in Writers PROVE LoneOf(v)'
  <2>1. CASE v = w
    <3>1. ~Unlisted(w)' /\ at'[w] # "begun" /\ 4 \notin todo'[w]
      BY <1>2 DEF Unlisted
    <3>2. \A u \in Writers : todo'[u] # {} => u = w
      BY <1>4
    <3>3. 2 \notin todo'[w] => next'[new[w]] = HeadNode
      BY <1>2, <1>5, <1>6, <1>9
    <3>4. 1 \notin todo'[w] => prev'[HeadNode] = new[w]
      BY <1>1, <1>2, <1>5
    <3>5. QED
      BY <1>2, <1>8, <2>1, <3>1, <3>2, <3>3, <3>4 DEF LoneOf
  <2>2. CASE v # w
    <3>1. todo'[v] = {} /\ LoneOf(v) /\ at'[v] = at[v] /\ new'[v] = new[v]
      BY <1>2, <1>3, <1>4, <2>2
    <3>2. at[v] = "begun" =>
            /\ new[v] \in Nodes /\ new[v] # new[w]
            /\ \A i \in 1..Len(added) : added[i] # new[v]
      BY <1>2, <2>2, <3>1 DEF Inv, OwnInv, LoneOf, Unlisted
    <3>3. at[v] = "begun" => new[v] # Last
      BY <3>2, EntryShape
    <3>4. at[v] = "begun" => next'[new[v]] = new[v]
      BY <1>6, <3>1, <3>2, <3>3 DEF LoneOf
    <3>5. at[v] = "begun" => \A i \in 1..Len(added') : added'[i] # new[v]
      BY <1>7, <3>2
    <3>6. QED
      BY <3>1, <3>4, <3>5 DEF LoneOf, Unlisted
  <2>3. QED
    BY <2>1, <2>2
<1>12. QED
  BY <1>10, <1>11 DEF LiveInv

LEMMA AddedKept ==
  ASSUME Inv, LiveInv, NEW w \in Writers, Added(w)
  PROVE  LiveInv'
<1>1. /\ at' = [at EXCEPT ![w] = "idle"] /\ at[w] = "linking"
      /\ UNCHANGED <<next, prev, life, new, tail, todo, added>>
  BY DEF Added, module
<1>2. \A v \in Writers : at'[v] = "begun" <=> at[v] = "begun"
  BY <1>1 DEF Inv, TypeOK
<1>3. /\ Last' = Last /\ \A i : Entry(i)' = Entry(i)
      /\ \A v \in Writers : Unlisted(v)' <=> Unlisted(v)
  BY <1>1, <1>2 DEF Last, Entry, Unlisted
<1>4. QED
  BY <1>1, <1>2, <1>3 DEF LiveInv, ListedInv, EachOnce, LoneOf

(* When unloading begins every node is in the chain.                       *)
LEMMA RmmodKept ==
  ASSUME Inv, LiveInv, Rmmod
  PROVE  EachOnce' /\ LeftFrom(0)'
<1>1. /\ \A w \in Writers : at[w] = "idle" /\ todo[w] = {}
      /\ UNCHANGED <<next, life, added>>
  BY DEF Rmmod, Inv, OwnInv
<1>2. ListedInv
  BY DEF LiveInv
<1>3. next[Last] = HeadNode /\ \A w \in Writers : ~Unlisted(w)
  BY <1>1, <1>2 DEF ListedInv, Unlisted
<1>4. next[HeadNode] = IF 0 = Len(added) THEN HeadNode ELSE added[1]
  BY <1>2, <1>3, EntryShape DEF ListedInv
<1>5. ASSUME NEW i \in 1..Len(added)
      PROVE  next[added[i]] = IF i = Len(added) THEN HeadNode ELSE added[i + 1]
  <2>1. i # Len(added) => i \in 0..(Len(added) - 1)
    BY EntryShape
  <2>2. QED
    BY <1>2, <1>3, <2>1, EntryShape DEF ListedInv
<1>6. \A n \in Nodes : life[n] = "used" => \E i \in 1..Len(added) : added[i] = n
  BY <1>2, <1>3 DEF ListedInv
<1>7. EachOnce'
  BY <1>1, <1>2 DEF ListedInv, EachOnce
<1>8. QED
  BY <1>1, <1>4, <1>5, <1>6, <1>7 DEF LeftFrom

LEMMA DeleteNodeKept ==
  ASSUME Inv, EachOnce, NEW k \in 0..Len(added), LeftFrom(k), DeleteNode
  PROVE  EachOnce' /\ k + 1 \in 0..Len(added) /\ LeftFrom(k + 1)'
<1>1. /\ pos # HeadNode /\ phase = "exit"
      /\ life' = [life EXCEPT ![pos] = "freed"] /\ added' = added
  BY DEF DeleteNode
<1>2. k < Len(added) /\ pos = added[k + 1] /\ pos \in Nodes
  BY <1>1, FirstOfList, EntryShape DEF LeftFrom
<1>3. \A x \in Links : next'[x] = IF x = pos THEN Nil
                                  ELSE IF x = HeadNode THEN next[pos] ELSE next[x]
  BY DeleteLinks
<1>4. k + 1 \in (k + 1)..Len(added) /\ k + 1 \in 1..Len(added)
  BY <1>2, EntryShape
<1>5. next'[HeadNode] = IF k + 1 = Len(added) THEN HeadNode
                        ELSE added[(k + 1) + 1]
  BY <1>1, <1>2, <1>3, <1>4 DEF LeftFrom
<1>6. ASSUME NEW i \in ((k + 1) + 1)..Len(added)
      PROVE  next'[added[i]] = IF i = Len(added) THEN HeadNode ELSE added[i + 1]
  <2>1. i \in (k + 1)..Len(added) /\ i \in 1..Len(added) /\ i # k + 1
    BY EntryShape
  <2>2. added[i] # pos /\ added[i] \in Nodes
    BY <1>2, <1>4, <2>1, EntryShape DEF EachOnce
  <2>3. QED
    BY <1>3, <2>1, <2>2 DEF LeftFrom
<1>7. ASSUME NEW n \in Nodes, life'[n] = "used"
      PROVE  \E i \in ((k + 1) + 1)..Len(added) : added[i] = n
  <2>1. n # pos /\ life[n] = "used"
    BY <1>1, <1>2, <1>7 DEF Inv, TypeOK
  <2>2. PICK i \in (k + 1)..Len(added) : added[i] = n
    BY <2>1 DEF LeftFrom
  <2>3. i # k + 1
    BY <1>2, <2>1, <2>2
  <2>4. i \in ((k + 1) + 1)..Len(added)
    BY <2>2, <2>3
  <2>5. QED
    BY <2>2, <2>4
<1>8. EachOnce'
  BY <1>1 DEF EachOnce
<1>9. QED
  BY <1>1, <1>2, <1>4, <1>5, <1>6, <1>7, <1>8, EntryShape DEF LeftFrom

LEMMA KeptNext == Inv /\ KeptInv /\ [Next]_vars => KeptInv'
<1> SUFFICES ASSUME Inv, KeptInv, [Next]_vars, ~raced' PROVE KeptInv'
  BY DEF KeptInv
<1>1. ASSUME NEW w \in Writers, Writer(w) PROVE KeptInv'
  <2>1. phase = "live" /\ phase' = "live" /\ ~raced
    <3>1. CASE Allocate(w)
      BY <3>1 DEF Allocate
    <3>2. CASE LoadTail(w) \/ Added(w)
      <4>1. at[w] # "idle" /\ phase' = phase
        BY <3>2 DEF LoadTail, Added, module
      <4>2. raced' = (raced \/ \E v \in Writers : todo[v] # {}) \/ raced' = raced
        BY <3>2, Zenon DEF LoadTail, Added
      <4>3. ~raced
        BY <4>2, Zenon
      <4>4. QED
        BY <4>1, <4>3 DEF Inv, OwnInv
    <3>3. CASE LinkStep(w)
      <4>1. PICK s \in 1..4 : Store(w, s)
        BY <3>3 DEF LinkStep, StoreHeadPrev, StoreNewNext, StoreNewPrev,
                    StoreTailNext
      <4>2. QED
        BY <4>1, StoreFrame
    <3>4. QED
      BY <1>1, <3>1, <3>2, <3>3 DEF Writer
  <2>2. LiveInv
    BY <2>1 DEF KeptInv
  <2>3. LiveInv'
    BY <1>1, <2>2, AllocateKept, LoadTailKept, PrivateKept, PublishKept,
       AddedKept DEF Writer, LinkStep
  <2>4. QED
    BY <2>1, <2>3 DEF KeptInv
<1>2. CASE Rmmod
  <2>1. phase = "live" /\ phase' = "exit" /\ ~raced /\ added' = added
    BY <1>2 DEF Rmmod
  <2>2. EachOnce' /\ LeftFrom(0)'
    BY <1>2, <2>1, RmmodKept DEF KeptInv
  <2>3. 0 \in 0..Len(added)
    BY EntryShape
  <2>4. QED
    BY <2>1, <2>2, <2>3 DEF KeptInv
<1>3. CASE DeleteNode
  <2>1. phase = "exit" /\ phase' = "exit" /\ ~raced /\ added' = added
    BY <1>3 DEF DeleteNode
  <2>2. PICK k \in 0..Len(added) : EachOnce /\ LeftFrom(k)
    BY <2>1 DEF KeptInv
  <2>3. EachOnce' /\ k + 1 \in 0..Len(added) /\ LeftFrom(k + 1)'
    BY <1>3, <2>2, DeleteNodeKept
  <2>4. QED
    BY <2>1, <2>3 DEF KeptInv
<1>4. CASE ExitReturn
  <2>1. /\ phase = "exit" /\ phase' = "gone" /\ ~raced /\ life' = life
        /\ next[HeadNode] = HeadNode
    BY <1>4 DEF ExitReturn, Inv, PhaseInv
  <2>2. PICK k \in 0..Len(added) : LeftFrom(k)
    BY <2>1 DEF KeptInv
  <2>3. k = Len(added)
    BY <2>1, <2>2, EntryShape DEF LeftFrom
  <2>4. \A n \in Nodes : life[n] # "used"
    BY <2>2, <2>3, EntryShape DEF LeftFrom
  <2>5. QED
    BY <2>1, <2>4 DEF KeptInv
<1>5. CASE Insmod
  <2>1. /\ phase' = "live" /\ next' = FreshLinks /\ prev' = FreshLinks
        /\ added' = <<>> /\ life' = [n \in Nodes |-> "unused"]
        /\ \A w \in Writers : at'[w] = "idle" /\ todo'[w] = {}
    BY <1>5 DEF Insmod, Inv, OwnInv
  <2>2. /\ Len(added') = 0 /\ next'[HeadNode] = HeadNode
        /\ prev'[HeadNode] = HeadNode
    BY <2>1 DEF FreshLinks
  <2>3. Last' = HeadNode
    BY <2>2 DEF Last, Entry
  <2>4. ListedInv'
    BY <2>1, <2>2, <2>3 DEF ListedInv, EachOnce
  <2>5. \A w \in Writers : LoneOf(w)'
    BY <2>1 DEF LoneOf, Unlisted
  <2>6. QED
    BY <2>1, <2>4, <2>5 DEF KeptInv, LiveInv
<1>6. CASE (\E r \in Readers : Reader(r)) \/ UNCHANGED vars
  <2>1. UNCHANGED <<phase, life, next, prev, at, new, tail, todo, added, raced>>
    BY <1>6 DEF Reader, ReadBegin, ReadNode, ReadReturn, module, writers, vars
  <2>2. QED
    BY <2>1 DEF KeptInv, LiveInv, ListedInv, LoneOf, LeftFrom, EachOnce,
                Unlisted, Entry, Last
<1>7. QED
  BY <1>1, <1>2, <1>3, <1>4, <1>5, <1>6 DEF Next, Module

(* If no two writers were linking at a time, rmmod frees every node that   *)
(* was allocated, though the stores of each were made in any order.        *)
THEOREM UnloadFreesAll == Safety => []NothingLeaks
<1>1. Init => KeptInv
  <2> SUFFICES ASSUME Init PROVE LiveInv
    BY DEF Init, KeptInv
  <2>1. /\ next[HeadNode] = HeadNode /\ prev[HeadNode] = HeadNode
        /\ Len(added) = 0 /\ life = [n \in Nodes |-> "unused"]
        /\ \A w \in Writers : at[w] = "idle" /\ todo[w] = {}
    BY DEF Init, FreshLinks
  <2>2. Last = HeadNode
    BY <2>1 DEF Last, Entry
  <2>3. ListedInv
    BY <2>1, <2>2 DEF ListedInv, EachOnce
  <2>4. \A w \in Writers : LoneOf(w)
    BY <2>1 DEF LoneOf, Unlisted
  <2>5. QED
    BY <2>3, <2>4 DEF LiveInv
<1>2. KeptInv => NothingLeaks
  BY DEF KeptInv, NothingLeaks
<1>3. QED
  BY <1>1, <1>2, KeptNext, InitInv, NextInv, PTL DEF Safety
=============================================================================
