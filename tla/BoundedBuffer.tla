---------------------------- MODULE BoundedBuffer ----------------------------
(***************************************************************************)
(* BoundedBuffer of src/Books/CPPCurrencyProgramming2th/xxx/ch4/           *)
(* design_3.cpp with the Producer and Consumer threads of its main.  The   *)
(* buffer is only touched under mtx, so a step is one such section, up to  *)
(* the wait on a condition variable or to the return.                      *)
(***************************************************************************)
EXTENDS Naturals, Sequences, FiniteSets

CONSTANTS BufProducers, BufConsumers,  \* the threads (3 and 2 in main)
          BufQuota,                    \* messages each of them handles (5 in main)
          BufCapacity                  \* 10 in main

ASSUME BufAssumption ==
  /\ BufQuota \in Nat /\ BufCapacity \in Nat \ {0}
  /\ BufProducers \cap BufConsumers = {}
  /\ IsFiniteSet(BufProducers) /\ IsFiniteSet(BufConsumers)
  \* what main's consumers leave behind fits into the buffer
  /\ BufQuota * Cardinality(BufProducers)
       <= BufQuota * Cardinality(BufConsumers) + BufCapacity

VARIABLES buf,                 \* the queue of messages
          produced, consumed,  \* messages of each thread so far
          asleep               \* threads that wait on their condition variable

bufvars == <<buf, produced, consumed, asleep>>

BufInit == /\ buf = <<>> /\ asleep = {}
           /\ produced = [p \in BufProducers |-> 0]
           /\ consumed = [c \in BufConsumers |-> <<>>]

(* notify_one of the condition variable on which only threads of S wait.   *)
NotifyOne(S) == IF asleep \cap S = {} THEN UNCHANGED asleep
                ELSE \E t \in asleep \cap S : asleep' = asleep \ {t}

enqueue_waits(p) == /\ p \notin asleep /\ produced[p] < BufQuota
                    /\ Len(buf) >= BufCapacity
                    /\ asleep' = asleep \cup {p}
                    /\ UNCHANGED <<buf, produced, consumed>>

puts(p) == /\ p \notin asleep /\ produced[p] < BufQuota
           /\ buf' = Append(buf, <<p, produced[p] + 1>>)
           /\ produced' = [produced EXCEPT ![p] = @ + 1]
           /\ NotifyOne(BufConsumers) /\ UNCHANGED consumed

(* Mutant: the predicate is not tested again after the wait.               *)
enqueue_untested(p) == puts(p)

enqueue(p) == Len(buf) < BufCapacity /\ puts(p)

dequeue_waits(c) == /\ c \notin asleep /\ Len(consumed[c]) < BufQuota
                    /\ buf = <<>>
                    /\ asleep' = asleep \cup {c}
                    /\ UNCHANGED <<buf, produced, consumed>>

takes(c) == /\ c \notin asleep /\ Len(consumed[c]) < BufQuota
            /\ buf # <<>>
            /\ consumed' = [consumed EXCEPT ![c] = Append(@, Head(buf))]
            /\ buf' = Tail(buf) /\ UNCHANGED produced

(* Mutant: producers are notified only when the buffer was full.           *)
dequeue_notifies_late(c) ==
  takes(c) /\ IF Len(buf) = BufCapacity THEN NotifyOne(BufProducers) ELSE UNCHANGED asleep

dequeue(c) == takes(c) /\ NotifyOne(BufProducers)

(* A wait may end for no reason; the predicate is tested again.            *)
wakes_up(t) == t \in asleep /\ asleep' = asleep \ {t} /\ UNCHANGED <<buf, produced, consumed>>

BufJoined == /\ \A p \in BufProducers : produced[p] = BufQuota
             /\ \A c \in BufConsumers : Len(consumed[c]) = BufQuota

BufProducer(p) == enqueue_waits(p) \/ enqueue(p)
BufConsumer(c) == dequeue_waits(c) \/ dequeue(c)

BufNext == \/ \E p \in BufProducers : BufProducer(p)
           \/ \E c \in BufConsumers : BufConsumer(c)
           \/ \E t \in BufProducers \cup BufConsumers : wakes_up(t)
           \/ BufJoined /\ UNCHANGED bufvars

BufSpec == BufInit /\ [][BufNext]_bufvars

-----------------------------------------------------------------------------
(* The buffer is a FIFO queue of at most capacity messages.                *)
BufFifo == INSTANCE Fifo WITH
  Putters <- BufProducers, Takers <- BufConsumers, Quota <- BufQuota,
  Bound <- BufCapacity, queue <- buf, put <- produced, taken <- consumed
BufIsFifo == BufFifo!Spec

(* No wakeup is lost: main can join its threads, although notify_one wakes *)
(* a single thread each time.                                              *)
BufTerminates == <>BufJoined

=============================================================================
