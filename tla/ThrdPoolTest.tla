---------------------------- MODULE ThrdPoolTest ----------------------------
(***************************************************************************)
(* The client of thrdpool_test.cc: detached producers post until they have *)
(* posted their share, the main thread waits until the tasks have counted  *)
(* to n*nproducer, then terminates the pool and waits for it.              *)
(***************************************************************************)
EXTENDS ThrdPool

(* g_count.load() == n*nproducer                                           *)
AllCounted == \A t \in Tasks : runs[t] = 1

(* producer: thrdpool_post in a loop, then the thread ends.                *)
producer(c) ==
  \/ \E t \in Tasks : thrdpool_post(c, t)
  \/ (\A t \in Tasks : heap[t] # "unused") /\ client_leaves(c)

(* test_thrdpool after the producers were detached.                        *)
test_thrdpool ==
  /\ AllCounted
  /\ \/ quit = 0 /\ thrdpool_terminate(Owner)
     \/ quit = 1 /\ thrdpool_waitdone

TestNext == (\E c \in Clients : producer(c)) \/ test_thrdpool \/ PoolNext
              \/ Finished

TestSpec == Init /\ [][TestNext]_vars

(* The polling loop of test_thrdpool waits for all producers to be done:   *)
(* when it is over and the pool is waited for, no producer is inside       *)
(* thrdpool_post any more.                                                 *)
ProducersDone ==
  phase \in {"waiting", "done"} => \A c \in Clients : pc[c] \notin PostLabels

=============================================================================
