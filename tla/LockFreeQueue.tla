---------------------------- MODULE LockFreeQueue ----------------------------
(***************************************************************************)
(* LockFreeQueue of src/Books/CPPCurrencyProgramming2th/xxx/ch5/           *)
(* design_2.cpp with the producer and consumer threads of its main.  A     *)
(* step is one access to head, tail, size or to a node.  Nodes are         *)
(* addresses: delete gives one back and new hands out any free one.        *)
(***************************************************************************)
EXTENDS Naturals, Sequences, FiniteSets

CONSTANTS
  Producers, Consumers,  \* the threads (two of each in main)
  Teams,                 \* the sets of threads that may use the queue together
  Quota,                 \* items each of them enqueues or dequeues (5 in main)
  QueueCapacity,         \* 10 in main
  SizeModulus,           \* size_t counts modulo 2^w
  QueueNodes, NoNode     \* addresses of nodes, and nullptr

ASSUME LfqAssumption ==
  /\ Quota \in Nat /\ QueueCapacity \in Nat \ {0}
  /\ SizeModulus \in Nat /\ SizeModulus > QueueCapacity + Cardinality(Producers)
  /\ NoNode \notin QueueNodes /\ Producers \cap Consumers = {}
  /\ IsFiniteSet(QueueNodes) /\ QueueNodes # {}
  /\ IsFiniteSet(Producers) /\ Teams \subseteq SUBSET (Producers \cup Consumers)

VARIABLES
  head, tail, size,    \* the members of the class
  allocated,           \* nodes that are not deleted
  data, next,          \* the members of each node
  call,                \* the next step of each thread, and the oldTail or
                       \* oldHead, next, newNode and result of its call
  team,                \* the threads that run
  enqueued, dequeued   \* what each thread has enqueued (a count), dequeued

nodevars == <<allocated, data, next>>
lfqvars  == <<head, tail, size, nodevars, call, team, enqueued, dequeued>>

LfqInit ==
  /\ \E n \in QueueNodes : head = n /\ tail = n /\ allocated = {n}
  /\ size = 0 /\ team \in Teams
  /\ data = [n \in QueueNodes |-> NoNode] /\ next = data
  /\ call = [th \in Producers \cup Consumers |->
               [pc |-> "call", old |-> NoNode, succ |-> NoNode, node |-> NoNode,
                result |-> NoNode]]
  /\ enqueued = [p \in Producers |-> 0] /\ dequeued = [c \in Consumers |-> <<>>]

(* Only the call of th changes, from step a to step b.                     *)
Moves(th, a, b) == call[th].pc = a /\ call' = [call EXCEPT ![th].pc = b]

-----------------------------------------------------------------------------
(* enqueue(value), called again by producer while the queue is full.       *)

enqueue_full(p) == /\ call[p].pc = "call" /\ enqueued[p] < Quota
                   /\ size >= QueueCapacity
                   /\ UNCHANGED <<head, tail, size, nodevars, call, enqueued, dequeued>>

newNode(p, n) == /\ call[p].pc = "call" /\ enqueued[p] < Quota
                 /\ call' = [call EXCEPT ![p].pc = "tail", ![p].node = n]
                 /\ allocated' = allocated \cup {n}
                 /\ data' = [data EXCEPT ![n] = <<p, enqueued[p] + 1>>]
                 /\ next' = [next EXCEPT ![n] = NoNode]
                 /\ UNCHANGED <<head, tail, size, enqueued, dequeued>>

enqueue_room(p) == size < QueueCapacity
                     /\ \E n \in QueueNodes \ allocated : newNode(p, n)

enqueue_tail(p) == /\ call[p].pc = "tail"
                   /\ call' = [call EXCEPT ![p].pc = "recheck", ![p].old = tail]
                   /\ UNCHANGED <<head, tail, size, nodevars, enqueued, dequeued>>

enqueue_recheck(p) == /\ Moves(p, "recheck", IF call[p].old = tail THEN "next" ELSE "tail")
                      /\ UNCHANGED <<head, tail, size, nodevars, enqueued, dequeued>>

enqueue_next(p) ==
  LET n == next[call[p].old] IN
  /\ call[p].pc = "next"
  /\ call' = [call EXCEPT ![p].pc = IF n = NoNode THEN "link" ELSE "help", ![p].succ = n]
  /\ UNCHANGED <<head, tail, size, nodevars, enqueued, dequeued>>

(* Mutant: the link is stored without a comparison.                        *)
enqueue_link_blind(p) ==
  /\ Moves(p, "link", "swing")
  /\ next' = [next EXCEPT ![call[p].old] = call[p].node]
  /\ UNCHANGED <<head, tail, size, allocated, data, enqueued, dequeued>>

enqueue_link(p) ==
  /\ Moves(p, "link", IF next[call[p].old] = NoNode THEN "swing" ELSE "tail")
  /\ next' = IF next[call[p].old] = NoNode
             THEN [next EXCEPT ![call[p].old] = call[p].node] ELSE next
  /\ UNCHANGED <<head, tail, size, allocated, data, enqueued, dequeued>>

enqueue_help(p) == /\ Moves(p, "help", "tail")
                   /\ tail' = IF tail = call[p].old THEN call[p].succ ELSE tail
                   /\ UNCHANGED <<head, size, nodevars, enqueued, dequeued>>

enqueue_swing(p) == /\ Moves(p, "swing", "count")
                    /\ tail' = IF tail = call[p].old THEN call[p].node ELSE tail
                    /\ UNCHANGED <<head, size, nodevars, enqueued, dequeued>>

enqueue_count(p) == /\ Moves(p, "count", "call")
                    /\ size' = (size + 1) % SizeModulus
                    /\ enqueued' = [enqueued EXCEPT ![p] = @ + 1]
                    /\ UNCHANGED <<head, tail, nodevars, dequeued>>

-----------------------------------------------------------------------------
(* dequeue(result), called again by consumer while the queue is empty.     *)

dequeue_head(c) == /\ call[c].pc = "call" /\ Len(dequeued[c]) < Quota
                   /\ call' = [call EXCEPT ![c].pc = "next", ![c].old = head]
                   /\ UNCHANGED <<head, tail, size, nodevars, enqueued, dequeued>>

dequeue_next(c) ==
  /\ call[c].pc = "next"
  /\ call' = [call EXCEPT ![c].pc = "recheck", ![c].succ = next[call[c].old]]
  /\ UNCHANGED <<head, tail, size, nodevars, enqueued, dequeued>>

dequeue_recheck(c) ==
  /\ Moves(c, "recheck",
           IF call[c].old = head /\ call[c].succ # NoNode THEN "read" ELSE "call")
  /\ UNCHANGED <<head, tail, size, nodevars, enqueued, dequeued>>

dequeue_read(c) ==
  /\ call[c].pc = "read"
  /\ call' = [call EXCEPT ![c].pc = "cas", ![c].result = data[call[c].succ]]
  /\ UNCHANGED <<head, tail, size, nodevars, enqueued, dequeued>>

dequeue_cas(c) == /\ Moves(c, "cas", IF head = call[c].old THEN "sub" ELSE "call")
                  /\ head' = IF head = call[c].old THEN call[c].succ ELSE head
                  /\ UNCHANGED <<tail, size, nodevars, enqueued, dequeued>>

dequeue_sub(c) == /\ Moves(c, "sub", "delete")
                  /\ size' = (size + SizeModulus - 1) % SizeModulus
                  /\ UNCHANGED <<head, tail, nodevars, enqueued, dequeued>>

(* Mutant: the node that held the result is deleted.                       *)
deletes(c, gone) == /\ Moves(c, "delete", "call")
                    /\ allocated' = allocated \ {gone}
                    /\ dequeued' = [dequeued EXCEPT ![c] = Append(@, call[c].result)]
                    /\ UNCHANGED <<head, tail, size, data, next, enqueued>>
dequeue_delete_new(c) == deletes(c, call[c].succ)

dequeue_delete(c) == deletes(c, call[c].old)

-----------------------------------------------------------------------------
LfqProducer(p) == p \in team /\ UNCHANGED team /\
  \/ enqueue_full(p) \/ enqueue_room(p) \/ enqueue_tail(p)
  \/ enqueue_recheck(p) \/ enqueue_next(p) \/ enqueue_link(p)
  \/ enqueue_help(p) \/ enqueue_swing(p) \/ enqueue_count(p)
LfqConsumer(c) == c \in team /\ UNCHANGED team /\
  \/ dequeue_head(c) \/ dequeue_next(c) \/ dequeue_recheck(c)
  \/ dequeue_read(c) \/ dequeue_cas(c) \/ dequeue_sub(c) \/ dequeue_delete(c)

(* main joins its producers and its consumers.                             *)
LfqJoined == /\ team \cap Consumers # {}
             /\ \A p \in Producers \cap team : enqueued[p] = Quota
             /\ \A c \in Consumers \cap team : Len(dequeued[c]) = Quota

(* The nodes from head on; Chain[1] is the dummy.                          *)
Reach[k \in 1 .. Cardinality(QueueNodes) + 1] ==
  IF k = 1 THEN head
  ELSE IF Reach[k - 1] = NoNode THEN NoNode ELSE next[Reach[k - 1]]
Chain == [k \in 1 .. Cardinality({j \in DOMAIN Reach : Reach[j] # NoNode}) |-> Reach[k]]

(* main returns: ~LockFreeQueue dequeues what is left, then deletes head.  *)
destroy_queue == /\ LfqJoined /\ head # NoNode
                 /\ allocated' = allocated \ {Chain[k] : k \in DOMAIN Chain}
                 /\ head' = NoNode
                 /\ UNCHANGED <<tail, size, data, next, call, team, enqueued, dequeued>>

LfqNext == \/ \E p \in Producers : LfqProducer(p)
           \/ \E c \in Consumers : LfqConsumer(c)
           \/ destroy_queue
           \/ head = NoNode /\ UNCHANGED lfqvars

LfqSpec == LfqInit /\ [][LfqNext]_lfqvars

-----------------------------------------------------------------------------
(* Nodes a thread's next step looks into or deletes.                       *)
Touches(th) ==
  CASE call[th].pc \in {"next", "link", "delete"} -> {call[th].old}
    [] call[th].pc = "read"                       -> {call[th].succ}
    [] OTHER                                      -> {}

(* enqueue and dequeue never look into a node that dequeue has deleted,    *)
(* not even through a tail that still points to it.                        *)
LfqNoDangling == \A th \in Producers \cup Consumers : Touches(th) \subseteq allocated

(* Every node is deleted once the queue is destroyed, and until then a     *)
(* node is in the chain, or still or again private to one thread.          *)
LfqNoLeak ==
  allocated = (IF head = NoNode THEN {} ELSE {Chain[k] : k \in DOMAIN Chain})
    \cup {call[p].node : p \in {q \in Producers : call[q].pc \in
                                  {"tail", "recheck", "next", "link", "help"}}}
    \cup {call[c].old : c \in {d \in Consumers : call[d].pc \in {"sub", "delete"}}}

(* Used by producers alone, or by one producer and one consumer, the queue *)
(* uses no node after its deletion and loses none.                         *)
LfqNodesSound == LfqNoDangling /\ LfqNoLeak

(* The queue is a FIFO queue of at most capacity items, and one more for   *)
(* every further producer that may find room at the same time.  An item    *)
(* joins it when it is linked and leaves it when head moves on.            *)
LfqFifo == INSTANCE Fifo WITH
  Putters <- Producers, Takers <- Consumers,
  Bound <- QueueCapacity + Cardinality(Producers) - 1,
  queue <- IF head = NoNode THEN <<>>
           ELSE [k \in 1 .. Len(Chain) - 1 |-> data[Chain[k + 1]]],
  put   <- [p \in Producers |->
              enqueued[p] + IF call[p].pc \in {"swing", "count"} THEN 1 ELSE 0],
  taken <- [c \in Consumers |->
              dequeued[c] \o IF call[c].pc \in {"sub", "delete"}
                             THEN <<call[c].result>> ELSE <<>>]
LfqIsFifo == LfqFifo!Spec

(* A producer and a consumer both finish: a full queue makes room and an    *)
(* empty one is filled, also after the counter has wrapped.                *)
LfqTerminates == team \cap Consumers # {} => <>LfqJoined

=============================================================================
