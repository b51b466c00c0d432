-------------------------- MODULE ThreadPool_proof --------------------------
(***************************************************************************)
(* Proofs about ThreadPool for any number of workers, clients and tasks.   *)
(***************************************************************************)
EXTENDS ThreadPool, FiniteSetTheorems, TLAPS

(* The workers that have counted themselves in and not yet out.            *)
Counted ==
  {w \in Workers : pc[w] \in FetchLabels \cup SubmitLabels \cup {"body", "w_end"}}

ActiveOK == active = Cardinality(Counted)

(* Who is inside a critical section holds the mutex, and a submitter has   *)
(* wrapped a task.                                                         *)
MutexOK ==
  \A th \in Threads :
    /\ pc[th] \in MutexHeld <=> mutex = th
    /\ pc[th] \in {"sub_lock", "sub_push"} => wrapper[th] \in Tasks

(* Where the threads of each kind can be.                                  *)
PlaceOK ==
  /\ \A w \in Workers :
       /\ pc[w] \in WorkerLabels \cup FetchLabels \cup SubmitLabels
       /\ pc[w] # "unborn" => w \in started
       /\ pc[w] = "body" \/ pc[w] \in SubmitLabels <=> hand[w] # Nil
  /\ \A c \in Clients :
       pc[c] \in {"idle", "left"} \cup SubmitLabels \cup ShutdownLabels

TInv == TypeOK /\ ActiveOK /\ MutexOK /\ PlaceOK

LEMMA CountedFinite == IsFiniteSet(Counted) /\ Cardinality(Counted) \in Nat
<1>1. IsFiniteSet(Counted)
  BY PoolAssumption, FS_Subset DEF Counted
<1>2. QED
  BY <1>1, FS_CardinalityType

LEMMA TInit == Init => TInv
<1> SUFFICES ASSUME Init PROVE TInv
  OBVIOUS
<1>1. TypeOK
  <2>1. queue \in Seq(Tasks) /\ active \in Nat /\ runs \in [Tasks -> Nat]
    BY DEF Init
  <2>2. pc \in [Threads -> Labels]
    BY PoolAssumption DEF Init, Labels, WorkerLabels, Threads, Callers
  <2>3. QED
    BY <2>1, <2>2 DEF Init, TypeOK
<1>2. MutexOK /\ PlaceOK
  BY PoolAssumption
  DEF Init, MutexOK, PlaceOK, MutexHeld, WorkerLabels, SubmitLabels, Threads, Callers
<1>3. Counted = {}
  BY DEF Init, Counted, FetchLabels, SubmitLabels, Threads
<1>4. ActiveOK
  BY <1>3, FS_EmptySet DEF Init, ActiveOK
<1>5. QED
  BY <1>1, <1>2, <1>4 DEF TInv

(* Only worker_start and worker_end change who is counted.                 *)
LEMMA CountStep == TInv /\ [Next]_vars => ActiveOK' /\ active' \in Nat
<1> SUFFICES ASSUME TInv, [Next]_vars PROVE ActiveOK' /\ active' \in Nat
  OBVIOUS
<1> USE PoolAssumption
    DEF TInv, TypeOK, PlaceOK, Goto, Counted, FetchLabels, SubmitLabels,
        ShutdownLabels, WorkerLabels, Threads, Callers
<1>0. ASSUME Counted' = Counted, active' = active
      PROVE  ActiveOK' /\ active' \in Nat
  BY <1>0, CountedFinite DEF ActiveOK
<1>1. ASSUME NEW th \in Threads, NEW t \in Tasks, SubmitTask(th, t) PROVE ActiveOK' /\ active' \in Nat
  BY <1>0, <1>1 DEF SubmitTask, MayCall
<1>2. ASSUME NEW th \in Threads, submit_lock(th) PROVE ActiveOK' /\ active' \in Nat
  BY <1>0, <1>2 DEF submit_lock
<1>3. ASSUME NEW th \in Threads, submit_emplace(th) PROVE ActiveOK' /\ active' \in Nat
  BY <1>0, <1>3 DEF submit_emplace
<1>4. ASSUME NEW th \in Threads, submit_notify(th) PROVE ActiveOK' /\ active' \in Nat
  <2>1. CASE Goto(th, Resume(th))
    BY <1>0, <1>4, <2>1 DEF submit_notify, Resume
  <2>2. ASSUME NEW w \in Sleepers,
               pc' = [pc EXCEPT ![w] = "wake_lock", ![th] = Resume(th)]
        PROVE  Counted' = Counted
    BY <1>4, <2>2 DEF submit_notify, Sleepers, Resume
  <2>3. QED
    BY <1>0, <1>4, <2>1, <2>2 DEF submit_notify, notify_one
<1>5. ASSUME NEW th \in Callers, Shutdown(th) PROVE ActiveOK' /\ active' \in Nat
  BY <1>0, <1>5 DEF Shutdown
<1>6. ASSUME NEW th \in Callers, shutdown_won(th) PROVE ActiveOK' /\ active' \in Nat
  BY <1>0, <1>6 DEF shutdown_won
<1>7. ASSUME NEW th \in Callers, shutdown_lost(th) PROVE ActiveOK' /\ active' \in Nat
  BY <1>0, <1>7 DEF shutdown_lost, AfterShutdown
<1>8. ASSUME NEW th \in Callers, shutdown_notify(th) PROVE ActiveOK' /\ active' \in Nat
  BY <1>0, <1>8 DEF shutdown_notify, notify_all, Sleepers
<1>9. ASSUME NEW th \in Callers, shutdown_join(th) PROVE ActiveOK' /\ active' \in Nat
  BY <1>0, <1>9 DEF shutdown_join, AfterShutdown
<1>10. ASSUME NEW c \in Clients, client_leaves(c) PROVE ActiveOK' /\ active' \in Nat
  BY <1>0, <1>10 DEF client_leaves
<1>11. ASSUME NEW w \in Workers, emplace_back(w) PROVE ActiveOK' /\ active' \in Nat
  BY <1>0, <1>11 DEF emplace_back
<1>12. ASSUME NEW w \in Workers, worker_start(w) PROVE ActiveOK' /\ active' \in Nat
  <2>1. w \notin Counted /\ Counted' = Counted \cup {w}
    BY <1>12 DEF worker_start
  <2>2. active' = active + 1
    BY <1>12 DEF worker_start
  <2> HIDE DEF Counted
  <2>3. Cardinality(Counted \cup {w}) = Cardinality(Counted) + 1
    BY <2>1, CountedFinite, FS_AddElement
  <2>4. QED
    BY <2>1, <2>2, <2>3, CountedFinite DEF ActiveOK
<1>13. ASSUME NEW w \in Workers, fetch_lock(w) PROVE ActiveOK' /\ active' \in Nat
  BY <1>0, <1>13 DEF fetch_lock
<1>14. ASSUME NEW w \in Workers, fetch_predicate(w) PROVE ActiveOK' /\ active' \in Nat
  BY <1>0, <1>14 DEF fetch_predicate
<1>15. ASSUME NEW w \in Workers, fetch_block(w) PROVE ActiveOK' /\ active' \in Nat
  BY <1>0, <1>15 DEF fetch_block
<1>16. ASSUME NEW w \in Workers, spurious_wakeup(w) PROVE ActiveOK' /\ active' \in Nat
  BY <1>0, <1>16 DEF spurious_wakeup
<1>17. ASSUME NEW w \in Workers, fetch_null(w) PROVE ActiveOK' /\ active' \in Nat
  BY <1>0, <1>17 DEF fetch_null
<1>18. ASSUME NEW w \in Workers, fetch_task(w) PROVE ActiveOK' /\ active' \in Nat
  BY <1>0, <1>18 DEF fetch_task
<1>19. ASSUME NEW w \in Workers, NEW outcome \in {"ready", "error"},
             task_returns(w, outcome) PROVE ActiveOK' /\ active' \in Nat
  BY <1>0, <1>19 DEF task_returns
<1>20. ASSUME NEW w \in Workers, worker_end(w) PROVE ActiveOK' /\ active' \in Nat
  <2>1. w \in Counted /\ Counted' = Counted \ {w}
    BY <1>20 DEF worker_end
  <2>2. active' = active - 1
    BY <1>20 DEF worker_end
  <2> HIDE DEF Counted
  <2>3. Cardinality(Counted \ {w}) = Cardinality(Counted) - 1
    BY <2>1, CountedFinite, FS_RemoveElement
  <2>4. Cardinality(Counted \ {w}) \in Nat
    BY <2>1, CountedFinite, FS_RemoveElement, FS_CardinalityType
  <2>5. QED
    BY <2>1, <2>2, <2>3, <2>4, CountedFinite DEF ActiveOK
<1>21. ASSUME constructed PROVE ActiveOK' /\ active' \in Nat
  BY <1>0, <1>21 DEF constructed
<1>22. ASSUME emplace_back_throws PROVE ActiveOK' /\ active' \in Nat
  BY <1>0, <1>22 DEF emplace_back_throws
<1>23. ASSUME destructor PROVE ActiveOK' /\ active' \in Nat
  BY <1>0, <1>23 DEF destructor
<1>24. ASSUME destroy_members PROVE ActiveOK' /\ active' \in Nat
  BY <1>0, <1>24 DEF destroy_members
<1>25. CASE UNCHANGED vars
  BY <1>0, <1>25 DEF vars
<1>26. QED
  BY <1>1, <1>2, <1>3, <1>4, <1>5, <1>6, <1>7, <1>8, <1>9, <1>10, <1>11,
     <1>12, <1>13, <1>14, <1>15, <1>16, <1>17, <1>18, <1>19, <1>20, <1>21,
     <1>22, <1>23, <1>24, <1>25
  DEF Next, CallNext, SubmitNext, ShutdownNext, WorkerNext, OwnerNext, Finished

LEMMA TStep == TInv /\ [Next]_vars => TInv'
<1> SUFFICES ASSUME TInv, [Next]_vars PROVE TInv'
  OBVIOUS
<1>0. ActiveOK' /\ active' \in Nat
  BY CountStep
<1> USE PoolAssumption
    DEF TInv, TypeOK, MutexOK, PlaceOK, Goto, Labels, FetchLabels, SubmitLabels,
        ShutdownLabels, WorkerLabels, MutexHeld, Threads, Callers
<1>1. ASSUME NEW th \in Threads, NEW t \in Tasks, SubmitTask(th, t) PROVE TInv'
  BY <1>0, <1>1 DEF SubmitTask, MayCall
<1>2. ASSUME NEW th \in Threads, submit_lock(th) PROVE TInv'
  BY <1>0, <1>2 DEF submit_lock
<1>3. ASSUME NEW th \in Threads, submit_emplace(th) PROVE TInv'
  BY <1>0, <1>3 DEF submit_emplace
<1>4. ASSUME NEW th \in Threads, submit_notify(th) PROVE TInv'
  <2>1. CASE Goto(th, Resume(th))
    BY <1>0, <1>4, <2>1 DEF submit_notify, Resume
  <2>2. ASSUME NEW w \in Sleepers,
               pc' = [pc EXCEPT ![w] = "wake_lock", ![th] = Resume(th)]
        PROVE  TInv'
    <3>1. TypeOK'
      BY <1>0, <1>4, <2>2 DEF submit_notify, Sleepers, Resume
    <3>2. MutexOK'
      BY <1>4, <2>2 DEF submit_notify, Sleepers, Resume
    <3>3. PlaceOK'
      BY <1>4, <2>2 DEF submit_notify, Sleepers, Resume
    <3> QED BY <1>0, <3>1, <3>2, <3>3
  <2>3. QED
    BY <1>4, <2>1, <2>2 DEF submit_notify, notify_one
<1>5. ASSUME NEW th \in Callers, Shutdown(th) PROVE TInv'
  BY <1>0, <1>5 DEF Shutdown
<1>6. ASSUME NEW th \in Callers, shutdown_won(th) PROVE TInv'
  <2>1. Queued \subseteq Tasks
    BY DEF Queued
  <2>2. QED
    BY <1>0, <1>6, <2>1 DEF shutdown_won
<1>7. ASSUME NEW th \in Callers, shutdown_lost(th) PROVE TInv'
  BY <1>0, <1>7 DEF shutdown_lost, AfterShutdown
<1>8. ASSUME NEW th \in Callers, shutdown_notify(th) PROVE TInv'
  BY <1>0, <1>8 DEF shutdown_notify, notify_all, Sleepers
<1>9. ASSUME NEW th \in Callers, shutdown_join(th) PROVE TInv'
  BY <1>0, <1>9 DEF shutdown_join, AfterShutdown
<1>10. ASSUME NEW c \in Clients, client_leaves(c) PROVE TInv'
  BY <1>0, <1>10 DEF client_leaves
<1>11. ASSUME NEW w \in Workers, emplace_back(w) PROVE TInv'
  BY <1>0, <1>11 DEF emplace_back
<1>12. ASSUME NEW w \in Workers, worker_start(w) PROVE TInv'
  BY <1>0, <1>12 DEF worker_start
<1>13. ASSUME NEW w \in Workers, fetch_lock(w) PROVE TInv'
  BY <1>0, <1>13 DEF fetch_lock
<1>14. ASSUME NEW w \in Workers, fetch_predicate(w) PROVE TInv'
  BY <1>0, <1>14 DEF fetch_predicate
<1>15. ASSUME NEW w \in Workers, fetch_block(w) PROVE TInv'
  BY <1>0, <1>15 DEF fetch_block
<1>16. ASSUME NEW w \in Workers, spurious_wakeup(w) PROVE TInv'
  BY <1>0, <1>16 DEF spurious_wakeup
<1>17. ASSUME NEW w \in Workers, fetch_null(w) PROVE TInv'
  BY <1>0, <1>17 DEF fetch_null
<1>18. ASSUME NEW w \in Workers, fetch_task(w) PROVE TInv'
  BY <1>0, <1>18 DEF fetch_task
<1>19. ASSUME NEW w \in Workers, NEW outcome \in {"ready", "error"},
             task_returns(w, outcome) PROVE TInv'
  BY <1>0, <1>19 DEF task_returns
<1>20. ASSUME NEW w \in Workers, worker_end(w) PROVE TInv'
  BY <1>0, <1>20 DEF worker_end
<1>21. ASSUME constructed PROVE TInv'
  BY <1>0, <1>21 DEF constructed
<1>22. ASSUME emplace_back_throws PROVE TInv'
  BY <1>0, <1>22 DEF emplace_back_throws
<1>23. ASSUME destructor PROVE TInv'
  BY <1>0, <1>23 DEF destructor
<1>24. ASSUME destroy_members PROVE TInv'
  BY <1>0, <1>24 DEF destroy_members
<1>25. CASE UNCHANGED vars
  BY <1>0, <1>25 DEF vars
<1> HIDE DEF TInv, TypeOK, MutexOK, PlaceOK, Goto, Labels, FetchLabels,
        SubmitLabels, ShutdownLabels, WorkerLabels, MutexHeld, Threads, Callers
<1>26. QED
  BY <1>1, <1>2, <1>3, <1>4, <1>5, <1>6, <1>7, <1>8, <1>9, <1>10, <1>11,
     <1>12, <1>13, <1>14, <1>15, <1>16, <1>17, <1>18, <1>19, <1>20, <1>21,
     <1>22, <1>23, <1>24, <1>25
  DEF Next, CallNext, SubmitNext, ShutdownNext, WorkerNext, OwnerNext, Finished

-----------------------------------------------------------------------------
(* The protocol of Shutdown.                                               *)

Submitting(th) == pc[th] \in {"sub_lock", "sub_push"}
Joining(th)    == pc[th] \in {"sd_notify", "sd_join"}
Leaving(w)     == pc[w] \in {"w_end", "exited"}

(* Where the owner and the clients are in each phase.  Until the pool is   *)
(* constructed nothing is submitted.                                       *)
OwnerOK ==
  /\ phase = "construct" <=> pc[Owner] = "construct"
  /\ phase = "unwind" => pc[Owner] \in ShutdownLabels \cup {"destroy"}
  /\ phase = "up" => pc[Owner] \in {"idle"} \cup SubmitLabels \cup ShutdownLabels
  /\ phase = "dtor" => pc[Owner] \in ShutdownLabels \cup {"destroy"}
  /\ phase = "gone" <=> pc[Owner] = "gone"
  /\ phase \in {"up", "dtor"} => started = Workers
  /\ phase \in {"dtor", "gone"} =>
       \A c \in Clients : pc[c] \in {"idle", "left"}

EarlyOK ==
  phase \in {"construct", "unwind"} =>
    /\ queue = <<>>
    /\ \A c \in Clients : pc[c] = "idle"
    /\ \A th \in Threads : pc[th] \notin SubmitLabels \cup {"body"}

(* Nobody joins and no worker leaves before the flag is set; after that    *)
(* somebody is still to join the workers, or they have all exited.         *)
FlagOK ==
  /\ phase = "construct" => ~isShutdown
  /\ ~isShutdown => /\ accepted = {}
                    /\ \A th \in Callers : ~Joining(th)
                    /\ \A w \in Workers : ~Leaving(w)
                    /\ pc[Owner] \notin {"destroy", "gone"}
  /\ isShutdown => (\E th \in Callers : Joining(th)) \/ AllExited
  /\ pc[Owner] \in {"destroy", "gone"} => AllExited

(* A task that is being submitted is in no other place.                    *)
FreshOK ==
  /\ \A t \in Tasks : future[t] = "none" =>
       /\ t \notin Queued /\ t \notin accepted
       /\ \A th \in Threads : Submitting(th) => wrapper[th] # t
  /\ \A th \in Threads : Submitting(th) =>
       /\ wrapper[th] \notin Queued /\ wrapper[th] \notin accepted
       /\ \A x \in Threads : Submitting(x) /\ wrapper[x] = wrapper[th] => x = th

(* A task queued when the flag was set is finished, or still queued, or in *)
(* the hands of a worker; and not queued any more once a worker has left.  *)
AcceptOK ==
  /\ \A t \in accepted : \/ future[t] \in {"ready", "error"}
                         \/ t \in Queued
                         \/ \E w \in Workers : hand[w] = t
  /\ (\E w \in Workers : Leaving(w)) => accepted \cap Queued = {}

SInv == OwnerOK /\ EarlyOK /\ FlagOK /\ FreshOK /\ AcceptOK

(* The phases.                                                             *)
LEMMA OwnerStep == TInv /\ SInv /\ [Next]_vars => OwnerOK' /\ EarlyOK'
<1> SUFFICES ASSUME TInv, SInv, [Next]_vars PROVE OwnerOK' /\ EarlyOK'
  OBVIOUS
<1> USE PoolAssumption
    DEF TInv, TypeOK, PlaceOK, SInv, OwnerOK, EarlyOK, Goto, SubmitLabels,
        ShutdownLabels, FetchLabels, WorkerLabels, Threads, Callers
<1>1. ASSUME NEW th \in Threads, NEW t \in Tasks, SubmitTask(th, t) PROVE OwnerOK' /\ EarlyOK'
  BY <1>1 DEF SubmitTask, MayCall
<1>2. ASSUME NEW th \in Threads, submit_lock(th) PROVE OwnerOK' /\ EarlyOK'
  BY <1>2 DEF submit_lock
<1>3. ASSUME NEW th \in Threads, submit_emplace(th) PROVE OwnerOK' /\ EarlyOK'
  BY <1>3 DEF submit_emplace
<1>4. ASSUME NEW th \in Threads, submit_notify(th) PROVE OwnerOK' /\ EarlyOK'
  BY <1>4 DEF submit_notify, notify_one, Sleepers, Resume
<1>5. ASSUME NEW th \in Callers, Shutdown(th) PROVE OwnerOK' /\ EarlyOK'
  BY <1>5 DEF Shutdown
<1>6. ASSUME NEW th \in Callers, shutdown_won(th) PROVE OwnerOK' /\ EarlyOK'
  BY <1>6 DEF shutdown_won
<1>7. ASSUME NEW th \in Callers, shutdown_lost(th) PROVE OwnerOK' /\ EarlyOK'
  BY <1>7 DEF shutdown_lost, AfterShutdown
<1>8. ASSUME NEW th \in Callers, shutdown_notify(th) PROVE OwnerOK' /\ EarlyOK'
  BY <1>8 DEF shutdown_notify, notify_all, Sleepers
<1>9. ASSUME NEW th \in Callers, shutdown_join(th) PROVE OwnerOK' /\ EarlyOK'
  BY <1>9 DEF shutdown_join, AfterShutdown
<1>10. ASSUME NEW c \in Clients, client_leaves(c) PROVE OwnerOK' /\ EarlyOK'
  BY <1>10 DEF client_leaves
<1>11. ASSUME NEW w \in Workers, emplace_back(w) PROVE OwnerOK' /\ EarlyOK'
  BY <1>11 DEF emplace_back
<1>12. ASSUME NEW w \in Workers, worker_start(w) PROVE OwnerOK' /\ EarlyOK'
  BY <1>12 DEF worker_start
<1>13. ASSUME NEW w \in Workers, fetch_lock(w) PROVE OwnerOK' /\ EarlyOK'
  BY <1>13 DEF fetch_lock
<1>14. ASSUME NEW w \in Workers, fetch_predicate(w) PROVE OwnerOK' /\ EarlyOK'
  BY <1>14 DEF fetch_predicate
<1>15. ASSUME NEW w \in Workers, fetch_block(w) PROVE OwnerOK' /\ EarlyOK'
  BY <1>15 DEF fetch_block
<1>16. ASSUME NEW w \in Workers, spurious_wakeup(w) PROVE OwnerOK' /\ EarlyOK'
  BY <1>16 DEF spurious_wakeup
<1>17. ASSUME NEW w \in Workers, fetch_null(w) PROVE OwnerOK' /\ EarlyOK'
  BY <1>17 DEF fetch_null
<1>18. ASSUME NEW w \in Workers, fetch_task(w) PROVE OwnerOK' /\ EarlyOK'
  BY <1>18 DEF fetch_task
<1>19. ASSUME NEW w \in Workers, NEW outcome \in {"ready", "error"},
             task_returns(w, outcome) PROVE OwnerOK' /\ EarlyOK'
  BY <1>19 DEF task_returns
<1>20. ASSUME NEW w \in Workers, worker_end(w) PROVE OwnerOK' /\ EarlyOK'
  BY <1>20 DEF worker_end
<1>21. ASSUME constructed PROVE OwnerOK' /\ EarlyOK'
  BY <1>21 DEF constructed
<1>22. ASSUME emplace_back_throws PROVE OwnerOK' /\ EarlyOK'
  BY <1>22 DEF emplace_back_throws
<1>23. ASSUME destructor PROVE OwnerOK' /\ EarlyOK'
  BY <1>23 DEF destructor
<1>24. ASSUME destroy_members PROVE OwnerOK' /\ EarlyOK'
  BY <1>24 DEF destroy_members
<1>25. CASE UNCHANGED vars
  BY <1>25 DEF vars
<1> HIDE DEF TInv, TypeOK, PlaceOK, SInv, OwnerOK, EarlyOK, Goto, SubmitLabels,
        ShutdownLabels, FetchLabels, WorkerLabels, Threads, Callers
<1>26. QED
  BY <1>1, <1>2, <1>3, <1>4, <1>5, <1>6, <1>7, <1>8, <1>9, <1>10, <1>11,
     <1>12, <1>13, <1>14, <1>15, <1>16, <1>17, <1>18, <1>19, <1>20, <1>21,
     <1>22, <1>23, <1>24, <1>25
  DEF Next, CallNext, SubmitNext, ShutdownNext, WorkerNext, OwnerNext, Finished

(* The flag and the joins.                                                 *)
LEMMA FlagStep == TInv /\ SInv /\ [Next]_vars => FlagOK'
<1> SUFFICES ASSUME TInv, SInv, [Next]_vars PROVE FlagOK'
  OBVIOUS
<1> USE PoolAssumption
    DEF TInv, TypeOK, PlaceOK, SInv, OwnerOK, EarlyOK, FlagOK, Goto,
        Joining, Leaving, AllExited, SubmitLabels, ShutdownLabels, FetchLabels,
        WorkerLabels, Threads, Callers
<1>1. ASSUME NEW th \in Threads, NEW t \in Tasks, SubmitTask(th, t) PROVE FlagOK'
  BY <1>1 DEF SubmitTask, MayCall
<1>2. ASSUME NEW th \in Threads, submit_lock(th) PROVE FlagOK'
  BY <1>2 DEF submit_lock
<1>3. ASSUME NEW th \in Threads, submit_emplace(th) PROVE FlagOK'
  BY <1>3 DEF submit_emplace
<1>4. ASSUME NEW th \in Threads, submit_notify(th) PROVE FlagOK'
  <2>1. CASE Goto(th, Resume(th))
    BY <1>4, <2>1 DEF submit_notify, Resume
  <2>2. ASSUME NEW w \in Sleepers,
               pc' = [pc EXCEPT ![w] = "wake_lock", ![th] = Resume(th)]
        PROVE  FlagOK'
    BY <1>4, <2>2 DEF submit_notify, Sleepers, Resume
  <2>3. QED
    BY <1>4, <2>1, <2>2 DEF submit_notify, notify_one
<1>5. ASSUME NEW th \in Callers, Shutdown(th) PROVE FlagOK'
  BY <1>5 DEF Shutdown
<1>6. ASSUME NEW th \in Callers, shutdown_won(th) PROVE FlagOK'
  BY <1>6 DEF shutdown_won
<1>7. ASSUME NEW th \in Callers, shutdown_lost(th) PROVE FlagOK'
  BY <1>7 DEF shutdown_lost, AfterShutdown
<1>8. ASSUME NEW th \in Callers, shutdown_notify(th) PROVE FlagOK'
  BY <1>8 DEF shutdown_notify, notify_all, Sleepers
<1>9. ASSUME NEW th \in Callers, shutdown_join(th) PROVE FlagOK'
  BY <1>9 DEF shutdown_join, AfterShutdown
<1>10. ASSUME NEW c \in Clients, client_leaves(c) PROVE FlagOK'
  BY <1>10 DEF client_leaves
<1>11. ASSUME NEW w \in Workers, emplace_back(w) PROVE FlagOK'
  BY <1>11 DEF emplace_back
<1>12. ASSUME NEW w \in Workers, worker_start(w) PROVE FlagOK'
  BY <1>12 DEF worker_start
<1>13. ASSUME NEW w \in Workers, fetch_lock(w) PROVE FlagOK'
  BY <1>13 DEF fetch_lock
<1>14. ASSUME NEW w \in Workers, fetch_predicate(w) PROVE FlagOK'
  BY <1>14 DEF fetch_predicate
<1>15. ASSUME NEW w \in Workers, fetch_block(w) PROVE FlagOK'
  BY <1>15 DEF fetch_block
<1>16. ASSUME NEW w \in Workers, spurious_wakeup(w) PROVE FlagOK'
  BY <1>16 DEF spurious_wakeup
<1>17. ASSUME NEW w \in Workers, fetch_null(w) PROVE FlagOK'
  BY <1>17 DEF fetch_null
<1>18. ASSUME NEW w \in Workers, fetch_task(w) PROVE FlagOK'
  BY <1>18 DEF fetch_task
<1>19. ASSUME NEW w \in Workers, NEW outcome \in {"ready", "error"},
             task_returns(w, outcome) PROVE FlagOK'
  BY <1>19 DEF task_returns
<1>20. ASSUME NEW w \in Workers, worker_end(w) PROVE FlagOK'
  BY <1>20 DEF worker_end
<1>21. ASSUME constructed PROVE FlagOK'
  BY <1>21 DEF constructed
<1>22. ASSUME emplace_back_throws PROVE FlagOK'
  BY <1>22 DEF emplace_back_throws
<1>23. ASSUME destructor PROVE FlagOK'
  BY <1>23 DEF destructor
<1>24. ASSUME destroy_members PROVE FlagOK'
  BY <1>24 DEF destroy_members
<1>25. CASE UNCHANGED vars
  BY <1>25 DEF vars
<1> HIDE DEF TInv, TypeOK, PlaceOK, SInv, OwnerOK, EarlyOK, FlagOK, Goto,
        Joining, Leaving, AllExited, SubmitLabels, ShutdownLabels, FetchLabels,
        WorkerLabels, Threads, Callers
<1>26. QED
  BY <1>1, <1>2, <1>3, <1>4, <1>5, <1>6, <1>7, <1>8, <1>9, <1>10, <1>11,
     <1>12, <1>13, <1>14, <1>15, <1>16, <1>17, <1>18, <1>19, <1>20, <1>21,
     <1>22, <1>23, <1>24, <1>25
  DEF Next, CallNext, SubmitNext, ShutdownNext, WorkerNext, OwnerNext, Finished

(* What a push and a pop do to the set of queued tasks.                    *)
Elements(q) == {q[i] : i \in 1 .. Len(q)}

LEMMA ElementsAppend ==
  ASSUME NEW q \in Seq(Tasks), NEW t \in Tasks
  PROVE  Elements(Append(q, t)) = Elements(q) \cup {t}
<1>1. /\ Len(q) \in Nat /\ Len(Append(q, t)) = Len(q) + 1
      /\ \A i \in 1 .. Len(q) : Append(q, t)[i] = q[i]
      /\ Append(q, t)[Len(q) + 1] = t
  OBVIOUS
<1>2. QED
  BY <1>1 DEF Elements

LEMMA ElementsTail ==
  ASSUME NEW q \in Seq(Tasks), q # <<>>
  PROVE  Elements(q) = {Head(q)} \cup Elements(Tail(q))
<1>1. /\ Len(q) \in Nat \ {0} /\ Len(Tail(q)) = Len(q) - 1 /\ Head(q) = q[1]
      /\ \A i \in 1 .. Len(q) - 1 : Tail(q)[i] = q[i + 1]
  OBVIOUS
<1>2. ASSUME NEW x \in Elements(q) PROVE x \in {Head(q)} \cup Elements(Tail(q))
  <2>1. PICK i \in 1 .. Len(q) : x = q[i]
    BY DEF Elements
  <2>2. CASE i = 1
    BY <1>1, <2>1, <2>2
  <2>3. CASE i # 1
    <3>1. i - 1 \in 1 .. Len(Tail(q)) /\ Tail(q)[i - 1] = x
      BY <1>1, <2>1, <2>3
    <3>2. QED
      BY <3>1 DEF Elements
  <2>4. QED
    BY <2>2, <2>3
<1>3. {Head(q)} \cup Elements(Tail(q)) \subseteq Elements(q)
  BY <1>1 DEF Elements
<1>4. QED
  BY <1>2, <1>3

LEMMA QueuedElements == Queued = Elements(queue) /\ Queued' = Elements(queue')
BY DEF Queued, Elements

(* A step that moves no task.                                              *)
LeavesTasks ==
  /\ UNCHANGED <<queue, wrapper, hand, future, accepted>>
  /\ \A th \in Threads : Submitting(th)' => Submitting(th)
  /\ \A w \in Workers : Leaving(w)' => Leaving(w)

LEMMA TasksFrame == FreshOK /\ AcceptOK /\ LeavesTasks => FreshOK' /\ AcceptOK'
<1> SUFFICES ASSUME FreshOK, AcceptOK, LeavesTasks PROVE FreshOK' /\ AcceptOK'
  OBVIOUS
<1>1. Queued' = Queued
  BY DEF LeavesTasks, Queued
<1>2. FreshOK'
  BY <1>1 DEF LeavesTasks, FreshOK
<1>3. AcceptOK'
  BY <1>1 DEF LeavesTasks, AcceptOK
<1>4. QED
  BY <1>2, <1>3

LEMMA SubmitMoves ==
  ASSUME TInv, SInv, NEW th \in Threads, NEW t \in Tasks, SubmitTask(th, t)
  PROVE  FreshOK' /\ AcceptOK'
<1>1. /\ future[t] = "none" /\ future' = [future EXCEPT ![t] = "pending"]
      /\ wrapper' = [wrapper EXCEPT ![th] = t] /\ pc' = [pc EXCEPT ![th] = "sub_lock"]
      /\ UNCHANGED <<hand, accepted>> /\ Queued' = Queued
      /\ pc[th] \in {"idle", "body"}
  BY DEF SubmitTask, Goto, Queued, MayCall
<1>2. FreshOK'
  BY <1>1 DEF SInv, FreshOK, Submitting, TInv, TypeOK
<1>3. AcceptOK'
  BY <1>1 DEF SInv, AcceptOK, FreshOK, Leaving, TInv, TypeOK
<1>4. QED
  BY <1>2, <1>3

LEMMA EmplaceMoves ==
  ASSUME TInv, SInv, NEW th \in Threads, submit_emplace(th)
  PROVE  FreshOK' /\ AcceptOK'
<1>1. /\ pc[th] = "sub_push" /\ pc' = [pc EXCEPT ![th] = "sub_notify"]
      /\ wrapper' = [wrapper EXCEPT ![th] = Nil] /\ wrapper[th] \in Tasks
      /\ UNCHANGED <<hand, accepted, future>>
  BY DEF submit_emplace, Goto, TInv, MutexOK
<1>2. Queued' = Queued \cup {wrapper[th]}
  BY <1>1, QueuedElements, ElementsAppend DEF submit_emplace, TInv, TypeOK
<1>3. FreshOK'
  <2>1. \A x \in Threads : Submitting(x)' => x # th /\ Submitting(x) /\ wrapper'[x] = wrapper[x]
    BY <1>1 DEF Submitting, TInv, TypeOK
  <2>2. Submitting(th)
    BY <1>1 DEF Submitting
  <2>3. QED
    BY <1>1, <1>2, <2>1, <2>2 DEF SInv, FreshOK
<1>4. AcceptOK'
  <2>1. wrapper[th] \notin accepted
    BY <1>1 DEF SInv, FreshOK, Submitting
  <2>2. \A w \in Workers : Leaving(w)' => Leaving(w)
    BY <1>1 DEF Leaving, TInv, TypeOK
  <2>3. QED
    BY <1>1, <1>2, <2>1, <2>2 DEF SInv, AcceptOK
<1>5. QED
  BY <1>3, <1>4

LEMMA ShutdownMoves ==
  ASSUME TInv, SInv, NEW th \in Callers, shutdown_won(th)
  PROVE  FreshOK' /\ AcceptOK'
<1>1. /\ pc[th] = "sd_cas" /\ pc' = [pc EXCEPT ![th] = "sd_notify"]
      /\ ~isShutdown /\ accepted' = Queued /\ Queued' = Queued
      /\ UNCHANGED <<hand, future, wrapper>>
  BY DEF shutdown_won, Goto, Queued
<1>2. FreshOK'
  BY <1>1 DEF SInv, FreshOK, Submitting, TInv, TypeOK
<1>3. \A w \in Workers : ~Leaving(w)'
  BY <1>1 DEF SInv, FlagOK, Leaving, TInv, TypeOK
<1>4. QED
  BY <1>1, <1>2, <1>3 DEF AcceptOK

LEMMA FetchMoves ==
  ASSUME TInv, SInv, NEW w \in Workers, fetch_task(w)
  PROVE  FreshOK' /\ AcceptOK'
<1>1. /\ pc[w] = "f_take" /\ pc' = [pc EXCEPT ![w] = "body"]
      /\ hand' = [hand EXCEPT ![w] = Head(queue)] /\ hand[w] = Nil
      /\ UNCHANGED <<wrapper, future, accepted>>
  BY DEF fetch_task, Goto, TInv, PlaceOK, SubmitLabels
<1>2. Queued = {Head(queue)} \cup Queued'
  BY QueuedElements, ElementsTail DEF fetch_task, TInv, TypeOK
<1>3. FreshOK'
  BY <1>1, <1>2 DEF SInv, FreshOK, Submitting, TInv, TypeOK
<1>4. \A x \in Workers : Leaving(x)' => Leaving(x)
  BY <1>1 DEF Leaving, TInv, TypeOK
<1>5. hand'[w] = Head(queue) /\ \A x \in Workers \ {w} : hand'[x] = hand[x]
  BY <1>1 DEF TInv, TypeOK
<1>6. \A t \in accepted : t # Nil
  BY PoolAssumption DEF TInv, TypeOK
<1>7. AcceptOK'
  BY <1>1, <1>2, <1>4, <1>5, <1>6 DEF SInv, AcceptOK
<1>8. QED
  BY <1>3, <1>7

LEMMA NullMoves ==
  ASSUME TInv, SInv, NEW w \in Workers, fetch_null(w)
  PROVE  FreshOK' /\ AcceptOK'
<1>1. /\ pc[w] = "f_take" /\ pc' = [pc EXCEPT ![w] = "w_end"]
      /\ UNCHANGED <<queue, wrapper, future, hand, accepted>>
      /\ Queued' = Queued /\ Queued = {}
  BY DEF fetch_null, Goto, Queued
<1>2. FreshOK'
  BY <1>1 DEF SInv, FreshOK, Submitting, TInv, TypeOK
<1>3. AcceptOK'
  BY <1>1 DEF SInv, AcceptOK
<1>4. QED
  BY <1>2, <1>3

LEMMA ReturnMoves ==
  ASSUME TInv, SInv, NEW w \in Workers, NEW outcome \in {"ready", "error"},
         task_returns(w, outcome)
  PROVE  FreshOK' /\ AcceptOK'
<1>1. /\ pc[w] = "body" /\ pc' = [pc EXCEPT ![w] = "f_lock"]
      /\ future' = [future EXCEPT ![hand[w]] = outcome]
      /\ hand' = [hand EXCEPT ![w] = Nil]
      /\ UNCHANGED <<wrapper, accepted>> /\ Queued' = Queued
  BY DEF task_returns, Goto, Queued
<1>2. hand[w] \in Tasks
  BY <1>1 DEF TInv, PlaceOK, TypeOK
<1>3. FreshOK'
  BY <1>1, <1>2 DEF SInv, FreshOK, Submitting, TInv, TypeOK
<1>4. \A x \in Workers : Leaving(x)' => Leaving(x)
  BY <1>1 DEF Leaving, TInv, TypeOK
<1>5. /\ future'[hand[w]] \in {"ready", "error"}
      /\ \A t \in Tasks \ {hand[w]} : future'[t] = future[t]
      /\ \A x \in Workers \ {w} : hand'[x] = hand[x]
  BY <1>1, <1>2 DEF TInv, TypeOK
<1>6. accepted \subseteq Tasks
  BY DEF TInv, TypeOK
<1>7. AcceptOK'
  BY <1>1, <1>4, <1>5, <1>6 DEF SInv, AcceptOK
<1>8. QED
  BY <1>3, <1>7

(* Accepted tasks have their result once every worker has exited.          *)
LEMMA ExitedMeansDone ==
  ASSUME TInv, SInv, started # {}, AllExited
  PROVE  accepted \cap Queued = {}
         /\ \A t \in accepted : future[t] \in {"ready", "error"}
<1>1. PICK w \in Workers : w \in started /\ pc[w] = "exited"
  BY DEF AllExited, TInv, TypeOK
<1>2. accepted \cap Queued = {}
  BY <1>1 DEF SInv, AcceptOK, Leaving
<1>3. \A x \in Workers : hand[x] = Nil
  BY DEF AllExited, TInv, PlaceOK, SubmitLabels
<1>4. \A t \in accepted : t # Nil
  BY PoolAssumption DEF TInv, TypeOK
<1>5. QED
  BY <1>2, <1>3, <1>4 DEF SInv, AcceptOK

LEMMA DestroyMoves ==
  ASSUME TInv, SInv, destroy_members PROVE FreshOK' /\ AcceptOK'
<1>1. /\ pc[Owner] = "destroy" /\ pc' = [pc EXCEPT ![Owner] = "gone"]
      /\ future' = [t \in Tasks |-> IF t \in Queued THEN "broken" ELSE future[t]]
      /\ UNCHANGED <<wrapper, accepted, hand>> /\ queue' = <<>>
  BY DEF destroy_members, Goto
<1>2. Queued' = {}
  BY <1>1 DEF Queued
<1>3. accepted \cap Queued = {}
  <2>1. AllExited
    BY <1>1 DEF SInv, FlagOK
  <2>2. CASE phase \in {"construct", "unwind"}
    BY <2>2 DEF SInv, EarlyOK, Queued
  <2>3. CASE phase \notin {"construct", "unwind"}
    <3>1. started # {}
      BY <1>1, <2>3, PoolAssumption DEF SInv, OwnerOK, TInv, TypeOK
    <3>2. QED
      BY <2>1, <3>1, ExitedMeansDone
  <2>4. QED
    BY <2>2, <2>3
<1>4. FreshOK'
  BY <1>1, <1>2 DEF SInv, FreshOK, Submitting, TInv, TypeOK
<1>5. \A t \in accepted : future'[t] = future[t]
  BY <1>1, <1>3 DEF TInv, TypeOK
<1>6. AcceptOK'
  BY <1>1, <1>2, <1>3, <1>5 DEF SInv, AcceptOK
<1>7. QED
  BY <1>4, <1>6

LEMMA TasksStep == TInv /\ SInv /\ [Next]_vars => FreshOK' /\ AcceptOK'
<1> SUFFICES ASSUME TInv, SInv, [Next]_vars PROVE FreshOK' /\ AcceptOK'
  OBVIOUS
<1>0. LeavesTasks => FreshOK' /\ AcceptOK'
  BY TasksFrame DEF SInv
<1>1. ASSUME NEW th \in Threads, NEW t \in Tasks, SubmitTask(th, t) PROVE FreshOK' /\ AcceptOK'
  BY <1>1, SubmitMoves
<1>2. ASSUME NEW th \in Threads, submit_emplace(th) PROVE FreshOK' /\ AcceptOK'
  BY <1>2, EmplaceMoves
<1>3. ASSUME NEW th \in Callers, shutdown_won(th) PROVE FreshOK' /\ AcceptOK'
  BY <1>3, ShutdownMoves
<1>4. ASSUME NEW w \in Workers, fetch_null(w) PROVE FreshOK' /\ AcceptOK'
  BY <1>4, NullMoves
<1>5. ASSUME NEW w \in Workers, fetch_task(w) PROVE FreshOK' /\ AcceptOK'
  BY <1>5, FetchMoves
<1>6. ASSUME NEW w \in Workers, NEW outcome \in {"ready", "error"},
             task_returns(w, outcome) PROVE FreshOK' /\ AcceptOK'
  BY <1>6, ReturnMoves
<1>7. ASSUME destroy_members PROVE FreshOK' /\ AcceptOK'
  BY <1>7, DestroyMoves
<1> USE PoolAssumption DEF TInv, TypeOK, PlaceOK, Goto, LeavesTasks, Submitting, Leaving,
        SubmitLabels, ShutdownLabels, FetchLabels, WorkerLabels, Threads, Callers
<1>8. ASSUME NEW th \in Threads, submit_lock(th) PROVE LeavesTasks
  BY <1>8 DEF submit_lock
<1>9. ASSUME NEW th \in Threads, submit_notify(th) PROVE LeavesTasks
  <2>1. CASE Goto(th, Resume(th))
    BY <1>9, <2>1 DEF submit_notify, Resume
  <2>2. ASSUME NEW w \in Sleepers,
               pc' = [pc EXCEPT ![w] = "wake_lock", ![th] = Resume(th)]
        PROVE  LeavesTasks
    BY <1>9, <2>2 DEF submit_notify, Sleepers, Resume
  <2>3. QED
    BY <1>9, <2>1, <2>2 DEF submit_notify, notify_one
<1>10. ASSUME NEW th \in Callers, Shutdown(th) PROVE LeavesTasks
  BY <1>10 DEF Shutdown
<1>11. ASSUME NEW th \in Callers, shutdown_lost(th) PROVE LeavesTasks
  BY <1>11 DEF shutdown_lost, AfterShutdown
<1>12. ASSUME NEW th \in Callers, shutdown_notify(th) PROVE LeavesTasks
  BY <1>12 DEF shutdown_notify, notify_all, Sleepers
<1>13. ASSUME NEW th \in Callers, shutdown_join(th) PROVE LeavesTasks
  BY <1>13 DEF shutdown_join, AfterShutdown
<1>14. ASSUME NEW c \in Clients, client_leaves(c) PROVE LeavesTasks
  BY <1>14 DEF client_leaves
<1>15. ASSUME NEW w \in Workers, emplace_back(w) PROVE LeavesTasks
  BY <1>15 DEF emplace_back
<1>16. ASSUME NEW w \in Workers, worker_start(w) PROVE LeavesTasks
  BY <1>16 DEF worker_start
<1>17. ASSUME NEW w \in Workers, fetch_lock(w) PROVE LeavesTasks
  BY <1>17 DEF fetch_lock
<1>18. ASSUME NEW w \in Workers, fetch_predicate(w) PROVE LeavesTasks
  BY <1>18 DEF fetch_predicate
<1>19. ASSUME NEW w \in Workers, fetch_block(w) PROVE LeavesTasks
  BY <1>19 DEF fetch_block
<1>20. ASSUME NEW w \in Workers, spurious_wakeup(w) PROVE LeavesTasks
  BY <1>20 DEF spurious_wakeup
<1>21. ASSUME NEW w \in Workers, worker_end(w) PROVE LeavesTasks
  BY <1>21 DEF worker_end
<1>22. ASSUME constructed PROVE LeavesTasks
  BY <1>22 DEF constructed
<1>23. ASSUME emplace_back_throws PROVE LeavesTasks
  BY <1>23 DEF emplace_back_throws
<1>24. ASSUME destructor PROVE LeavesTasks
  BY <1>24 DEF destructor
<1>25. ASSUME UNCHANGED vars PROVE LeavesTasks
  BY <1>25 DEF vars
<1> HIDE DEF TInv, TypeOK, PlaceOK, Goto, LeavesTasks, Submitting, Leaving,
        SubmitLabels, ShutdownLabels, FetchLabels, WorkerLabels, Threads, Callers
<1>26. QED
  BY <1>0, <1>1, <1>2, <1>3, <1>4, <1>5, <1>6, <1>7, <1>8, <1>9, <1>10, <1>11,
     <1>12, <1>13, <1>14, <1>15, <1>16, <1>17, <1>18, <1>19, <1>20, <1>21,
     <1>22, <1>23, <1>24, <1>25
  DEF Next, CallNext, SubmitNext, ShutdownNext, WorkerNext, OwnerNext, Finished

LEMMA SInit == Init => SInv
<1> SUFFICES ASSUME Init PROVE SInv
  OBVIOUS
<1>1. /\ pc[Owner] = "construct" /\ (\A c \in Clients : pc[c] = "idle")
      /\ \A w \in Workers : pc[w] = "unborn"
      /\ phase = "construct" /\ ~isShutdown /\ accepted = {} /\ queue = <<>>
      /\ Queued = {}
  BY PoolAssumption DEF Init, Threads, Callers, Queued
<1>2. QED
  BY <1>1 DEF SInv, OwnerOK, EarlyOK, FlagOK, FreshOK, AcceptOK, Joining, Leaving,
              Submitting, SubmitLabels, ShutdownLabels, Threads, Callers

LEMMA SStep == TInv /\ SInv /\ [Next]_vars => SInv'
BY OwnerStep, FlagStep, TasksStep DEF SInv

-----------------------------------------------------------------------------
(* Type correctness of the model of ThreadPool; in particular              *)
(* m_activeThreadCount never goes below zero.                              *)
THEOREM TypeCorrect == Spec => []TypeOK
<1>1. Spec => []TInv
  BY TInit, TStep, PTL DEF Spec
<1>2. TInv => TypeOK
  BY DEF TInv
<1>3. QED
  BY <1>1, <1>2, PTL

LEMMA Invariance == Spec => [](TInv /\ SInv)
<1>1. Init => TInv /\ SInv
  BY TInit, SInit
<1>2. (TInv /\ SInv) /\ [Next]_vars => (TInv /\ SInv)'
  BY TStep, SStep
<1>3. QED
  BY <1>1, <1>2, PTL DEF Spec

(* Shutdown waits for the tasks submitted before it, for any number of     *)
(* workers, clients and tasks: none is left in the queue by a worker that  *)
(* exits, and when all have exited each has its result.                    *)
THEOREM ShutdownCompletes == Spec => []AcceptedDone
<1>1. TInv /\ SInv => AcceptedDone
  <2> SUFFICES ASSUME TInv, SInv PROVE AcceptedDone
    OBVIOUS
  <2>1. (\E w \in Workers : pc[w] \in {"w_end", "exited"}) => accepted \cap Queued = {}
    BY DEF SInv, AcceptOK, Leaving
  <2>2. QED
    BY <2>1, ExitedMeansDone DEF AcceptedDone
<1>2. QED
  BY <1>1, Invariance, PTL

(* The members of a pool are destroyed only when every worker has exited,  *)
(* the mutex is free and no other call is in progress.                     *)
THEOREM DestructionIsAlone == Spec => []DestroyedAlone
<1>1. TInv /\ SInv => DestroyedAlone
  <2> SUFFICES ASSUME TInv, SInv, pc[Owner] \in {"destroy", "gone"}
               PROVE  /\ mutex = Nil /\ AllExited
                      /\ \A c \in Clients : pc[c] \in {"idle", "left"}
    BY DEF DestroyedAlone
  <2>1. AllExited
    BY DEF SInv, FlagOK
  <2>2. \A c \in Clients : pc[c] \in {"idle", "left"}
    BY DEF SInv, OwnerOK, EarlyOK, SubmitLabels, ShutdownLabels, TInv, TypeOK
  <2>3. \A th \in Threads : pc[th] \notin MutexHeld
    BY <2>1, <2>2
    DEF AllExited, TInv, PlaceOK, MutexHeld, Threads, Callers, WorkerLabels
  <2>4. mutex = Nil
    BY <2>3 DEF TInv, TypeOK, MutexOK
  <2>5. QED
    BY <2>1, <2>2, <2>4
<1>2. QED
  BY <1>1, Invariance, PTL

-----------------------------------------------------------------------------
(* Where a task is.                                                        *)

Wrapped(t) == \E th \in Threads : wrapper[th] = t
InHand(t)  == \E w \in Workers : hand[w] = t

(* A pending task is wrapped, queued or in a worker's hand, no two of them *)
(* at a time, and each of the three holds it once.                         *)
PlacesOK ==
  /\ \A th \in Threads : wrapper[th] # Nil => Submitting(th)
  /\ \A t \in Tasks :
       /\ future[t] = "pending" <=> Wrapped(t) \/ InHand(t) \/ t \in Queued
       /\ ~(Wrapped(t) /\ InHand(t))
       /\ t \in Queued => ~Wrapped(t) /\ ~InHand(t)
       /\ runs[t] = IF future[t] \in {"ready", "error"} THEN 1 ELSE 0
  /\ \A x, y \in Threads : wrapper[x] = wrapper[y] /\ wrapper[x] # Nil => x = y
  /\ \A x, y \in Workers : hand[x] = hand[y] /\ hand[x] # Nil => x = y
  /\ \A i, j \in 1 .. Len(queue) : queue[i] = queue[j] => i = j

LEMMA PlacesInit == Init => PlacesOK
<1> SUFFICES ASSUME Init PROVE PlacesOK
  OBVIOUS
<1>1. Queued = {} /\ queue = <<>> /\ Len(queue) = 0
  BY DEF Init, Queued
<1>2. \A t \in Tasks : ~Wrapped(t) /\ ~InHand(t)
  BY PoolAssumption DEF Init, Wrapped, InHand
<1>3. QED
  BY <1>1, <1>2 DEF Init, PlacesOK

(* A step that moves no task and ends no submission.                       *)
LeavesPlaces ==
  /\ UNCHANGED <<queue, wrapper, hand, future, runs>>
  /\ \A th \in Threads : Submitting(th) => Submitting(th)'

LEMMA PlacesFrame == PlacesOK /\ LeavesPlaces => PlacesOK'
<1> SUFFICES ASSUME PlacesOK, LeavesPlaces PROVE PlacesOK'
  OBVIOUS
<1>1. Queued' = Queued
  BY DEF LeavesPlaces, Queued
<1>2. \A t : (Wrapped(t)' <=> Wrapped(t)) /\ (InHand(t)' <=> InHand(t))
  BY DEF LeavesPlaces, Wrapped, InHand
<1>3. QED
  BY <1>1, <1>2 DEF LeavesPlaces, PlacesOK

LEMMA SubmitPlaces ==
  ASSUME TInv, PlacesOK, NEW th \in Threads, NEW t \in Tasks, SubmitTask(th, t)
  PROVE  PlacesOK'
<1>1. /\ future[t] = "none" /\ future' = [future EXCEPT ![t] = "pending"]
      /\ wrapper' = [wrapper EXCEPT ![th] = t] /\ pc' = [pc EXCEPT ![th] = "sub_lock"]
      /\ UNCHANGED <<hand, queue, runs>> /\ Queued' = Queued
      /\ pc[th] \in {"idle", "body"}
  BY DEF SubmitTask, Goto, Queued, MayCall
<1>2. wrapper[th] = Nil /\ t # Nil
  BY <1>1, PoolAssumption DEF PlacesOK, Submitting
<1>3. \A u \in Tasks :
        /\ InHand(u)' <=> InHand(u)
        /\ Wrapped(u)' <=> Wrapped(u) \/ u = t
  <2>1. \A x \in Threads : wrapper'[x] = IF x = th THEN t ELSE wrapper[x]
    BY <1>1 DEF TInv, TypeOK
  <2>2. \A u \in Tasks : u # Nil
    BY PoolAssumption
  <2>3. QED
    BY <1>1, <1>2, <2>1, <2>2 DEF Wrapped, InHand
<1>4. ~Wrapped(t) /\ ~InHand(t) /\ t \notin Queued
  BY <1>1 DEF PlacesOK
<1>5. \A x \in Threads : wrapper[x] # t
  BY <1>4 DEF Wrapped
<1>6. \A x \in Threads : wrapper'[x] # Nil => Submitting(x)'
  BY <1>1, <1>2 DEF PlacesOK, Submitting, TInv, TypeOK
<1>7. \A x, y \in Threads : wrapper'[x] = wrapper'[y] /\ wrapper'[x] # Nil => x = y
  BY <1>1, <1>5 DEF PlacesOK, TInv, TypeOK
<1>8. \A u \in Tasks : future'[u] = IF u = t THEN "pending" ELSE future[u]
  BY <1>1 DEF TInv, TypeOK
<1>9. ASSUME NEW u \in Tasks
      PROVE  /\ future'[u] = "pending" <=> Wrapped(u)' \/ InHand(u)' \/ u \in Queued'
             /\ ~(Wrapped(u)' /\ InHand(u)')
             /\ u \in Queued' => ~Wrapped(u)' /\ ~InHand(u)'
             /\ runs'[u] = IF future'[u] \in {"ready", "error"} THEN 1 ELSE 0
  BY <1>1, <1>3, <1>4, <1>8 DEF PlacesOK
<1>10. QED
  BY <1>1, <1>6, <1>7, <1>9 DEF PlacesOK

LEMMA EmplacePlaces ==
  ASSUME TInv, PlacesOK, NEW th \in Threads, submit_emplace(th)
  PROVE  PlacesOK'
<1> DEFINE t == wrapper[th]
<1>1. /\ pc[th] = "sub_push" /\ pc' = [pc EXCEPT ![th] = "sub_notify"]
      /\ wrapper' = [wrapper EXCEPT ![th] = Nil] /\ t \in Tasks /\ t # Nil
      /\ queue' = Append(queue, t)
      /\ UNCHANGED <<hand, runs, future>>
  BY PoolAssumption DEF submit_emplace, Goto, TInv, MutexOK
<1>2. Queued' = Queued \cup {t}
  BY <1>1, QueuedElements, ElementsAppend DEF TInv, TypeOK
<1>3. Wrapped(t) /\ t \notin Queued /\ ~InHand(t)
  BY <1>1 DEF PlacesOK, Wrapped
<1>4. \A u \in Tasks :
        /\ InHand(u)' <=> InHand(u)
        /\ Wrapped(u)' <=> Wrapped(u) /\ u # t
  <2>1. \A x \in Threads : wrapper'[x] = IF x = th THEN Nil ELSE wrapper[x]
    BY <1>1 DEF TInv, TypeOK
  <2>2. \A u \in Tasks : u # Nil
    BY PoolAssumption
  <2>3. \A x \in Threads : wrapper[x] = t => x = th
    BY <1>1 DEF PlacesOK
  <2>4. QED
    BY <1>1, <2>1, <2>2, <2>3 DEF Wrapped, InHand
<1>5. \A i, j \in 1 .. Len(queue') : queue'[i] = queue'[j] => i = j
  <2>1. /\ Len(queue) \in Nat /\ Len(queue') = Len(queue) + 1
        /\ queue'[Len(queue) + 1] = t
        /\ \A i \in 1 .. Len(queue) : queue'[i] = queue[i]
    BY <1>1 DEF TInv, TypeOK
  <2>2. \A i \in 1 .. Len(queue) : queue[i] # t
    BY <1>3 DEF Queued
  <2>3. QED
    BY <2>1, <2>2 DEF PlacesOK
<1>6. /\ \A x \in Threads : wrapper'[x] # Nil => Submitting(x)'
      /\ \A x, y \in Threads : wrapper'[x] = wrapper'[y] /\ wrapper'[x] # Nil => x = y
  BY <1>1 DEF PlacesOK, Submitting, TInv, TypeOK
<1>7. ASSUME NEW u \in Tasks
      PROVE  /\ future'[u] = "pending" <=> Wrapped(u)' \/ InHand(u)' \/ u \in Queued'
             /\ ~(Wrapped(u)' /\ InHand(u)')
             /\ u \in Queued' => ~Wrapped(u)' /\ ~InHand(u)'
             /\ runs'[u] = IF future'[u] \in {"ready", "error"} THEN 1 ELSE 0
  BY <1>1, <1>2, <1>3, <1>4 DEF PlacesOK
<1>8. QED
  BY <1>1, <1>5, <1>6, <1>7 DEF PlacesOK

LEMMA FetchPlaces ==
  ASSUME TInv, PlacesOK, NEW w \in Workers, fetch_task(w)
  PROVE  PlacesOK'
<1> DEFINE t == Head(queue)
<1>1. /\ pc[w] = "f_take" /\ pc' = [pc EXCEPT ![w] = "body"]
      /\ hand' = [hand EXCEPT ![w] = t] /\ hand[w] = Nil
      /\ queue' = Tail(queue) /\ queue # <<>> /\ queue \in Seq(Tasks)
      /\ UNCHANGED <<wrapper, future, runs>>
  BY DEF fetch_task, Goto, TInv, PlaceOK, SubmitLabels, TypeOK
<1>2. /\ Len(queue) \in Nat \ {0} /\ Len(queue') = Len(queue) - 1
      /\ t = queue[1] /\ t \in Tasks
      /\ \A i \in 1 .. Len(queue') : queue'[i] = queue[i + 1]
  BY <1>1
<1>3. Queued = {t} \cup Queued'
  BY <1>1, QueuedElements, ElementsTail
<1>4. t \notin Queued' /\ \A i, j \in 1 .. Len(queue') : queue'[i] = queue'[j] => i = j
  <2>1. \A i \in 1 .. Len(queue') : queue'[i] # t
    BY <1>2 DEF PlacesOK
  <2>2. QED
    BY <1>2, <2>1 DEF PlacesOK, Queued
<1>5. t # Nil /\ ~Wrapped(t) /\ ~InHand(t)
  BY <1>2, <1>3, PoolAssumption DEF PlacesOK
<1>6. \A u \in Tasks :
        /\ Wrapped(u)' <=> Wrapped(u)
        /\ InHand(u)' <=> InHand(u) \/ u = t
  <2>1. \A x \in Workers : hand'[x] = IF x = w THEN t ELSE hand[x]
    BY <1>1 DEF TInv, TypeOK
  <2>2. \A u \in Tasks : u # Nil
    BY PoolAssumption
  <2>3. QED
    BY <1>1, <2>1, <2>2 DEF Wrapped, InHand
<1>7. \A x, y \in Workers : hand'[x] = hand'[y] /\ hand'[x] # Nil => x = y
  <2>1. \A x \in Workers : hand[x] # t
    BY <1>5 DEF InHand
  <2>2. QED
    BY <1>1, <2>1 DEF PlacesOK, TInv, TypeOK
<1>8. \A x \in Threads : wrapper'[x] # Nil => Submitting(x)'
  BY <1>1 DEF PlacesOK, Submitting, TInv, TypeOK
<1>9. ASSUME NEW u \in Tasks
      PROVE  /\ future'[u] = "pending" <=> Wrapped(u)' \/ InHand(u)' \/ u \in Queued'
             /\ ~(Wrapped(u)' /\ InHand(u)')
             /\ u \in Queued' => ~Wrapped(u)' /\ ~InHand(u)'
             /\ runs'[u] = IF future'[u] \in {"ready", "error"} THEN 1 ELSE 0
  BY <1>1, <1>3, <1>4, <1>5, <1>6 DEF PlacesOK
<1>10. QED
  BY <1>1, <1>4, <1>7, <1>8, <1>9 DEF PlacesOK

LEMMA ReturnPlaces ==
  ASSUME TInv, PlacesOK, NEW w \in Workers, NEW outcome \in {"ready", "error"},
         task_returns(w, outcome)
  PROVE  PlacesOK'
<1> DEFINE t == hand[w]
<1>1. /\ pc[w] = "body" /\ pc' = [pc EXCEPT ![w] = "f_lock"]
      /\ future' = [future EXCEPT ![t] = outcome]
      /\ runs' = [runs EXCEPT ![t] = @ + 1]
      /\ hand' = [hand EXCEPT ![w] = Nil]
      /\ UNCHANGED <<wrapper, queue>> /\ Queued' = Queued
  BY DEF task_returns, Goto, Queued
<1>2. t \in Tasks /\ t # Nil
  BY <1>1, PoolAssumption DEF TInv, PlaceOK, TypeOK
<1>3. InHand(t) /\ ~Wrapped(t) /\ t \notin Queued
  BY <1>2 DEF InHand, PlacesOK
<1>4. \A u \in Tasks :
        /\ Wrapped(u)' <=> Wrapped(u)
        /\ InHand(u)' <=> InHand(u) /\ u # t
  <2>1. \A x \in Workers : hand'[x] = IF x = w THEN Nil ELSE hand[x]
    BY <1>1 DEF TInv, TypeOK
  <2>2. \A u \in Tasks : u # Nil
    BY PoolAssumption
  <2>3. \A x \in Workers : hand[x] = t => x = w
    BY <1>2 DEF PlacesOK
  <2>4. QED
    BY <1>1, <2>1, <2>2, <2>3 DEF Wrapped, InHand
<1>5. future[t] = "pending"
  BY <1>2, <1>3 DEF PlacesOK
<1>6. \A u \in Tasks :
        runs'[u] = IF future'[u] \in {"ready", "error"} THEN 1 ELSE 0
  BY <1>1, <1>2, <1>5 DEF PlacesOK, TInv, TypeOK
<1>7. \A u \in Tasks : future'[u] = IF u = t THEN outcome ELSE future[u]
  BY <1>1, <1>2 DEF TInv, TypeOK
<1>8. /\ \A x \in Threads : wrapper'[x] # Nil => Submitting(x)'
      /\ \A x, y \in Workers : hand'[x] = hand'[y] /\ hand'[x] # Nil => x = y
  BY <1>1 DEF PlacesOK, Submitting, TInv, TypeOK
<1>9. ASSUME NEW u \in Tasks
      PROVE  /\ future'[u] = "pending" <=> Wrapped(u)' \/ InHand(u)' \/ u \in Queued'
             /\ ~(Wrapped(u)' /\ InHand(u)')
             /\ u \in Queued' => ~Wrapped(u)' /\ ~InHand(u)'
  BY <1>1, <1>3, <1>4, <1>7 DEF PlacesOK
<1>10. QED
  BY <1>1, <1>6, <1>8, <1>9 DEF PlacesOK

LEMMA DestroyPlaces ==
  ASSUME TInv, PlacesOK, destroy_members PROVE PlacesOK'
<1>1. /\ pc[Owner] = "destroy" /\ pc' = [pc EXCEPT ![Owner] = "gone"]
      /\ future' = [t \in Tasks |-> IF t \in Queued THEN "broken" ELSE future[t]]
      /\ UNCHANGED <<wrapper, runs, hand>> /\ queue' = <<>> /\ Len(queue') = 0
  BY DEF destroy_members, Goto
<1>2. Queued' = {} /\ \A t : (Wrapped(t)' <=> Wrapped(t)) /\ (InHand(t)' <=> InHand(t))
  BY <1>1 DEF Queued, Wrapped, InHand
<1>3. \A th \in Threads : Submitting(th) => Submitting(th)'
  BY <1>1 DEF Submitting, TInv, TypeOK
<1>4. \A t \in Queued \cap Tasks : future[t] = "pending"
  BY DEF PlacesOK
<1>5. QED
  BY <1>1, <1>2, <1>3, <1>4 DEF PlacesOK

LEMMA PlacesStep == TInv /\ PlacesOK /\ [Next]_vars => PlacesOK'
<1> SUFFICES ASSUME TInv, PlacesOK, [Next]_vars PROVE PlacesOK'
  OBVIOUS
<1>0. LeavesPlaces => PlacesOK'
  BY PlacesFrame
<1>1. ASSUME NEW th \in Threads, NEW t \in Tasks, SubmitTask(th, t) PROVE PlacesOK'
  BY <1>1, SubmitPlaces
<1>2. ASSUME NEW th \in Threads, submit_emplace(th) PROVE PlacesOK'
  BY <1>2, EmplacePlaces
<1>3. ASSUME NEW w \in Workers, fetch_task(w) PROVE PlacesOK'
  BY <1>3, FetchPlaces
<1>4. ASSUME NEW w \in Workers, NEW outcome \in {"ready", "error"},
             task_returns(w, outcome) PROVE PlacesOK'
  BY <1>4, ReturnPlaces
<1>5. ASSUME destroy_members PROVE PlacesOK'
  BY <1>5, DestroyPlaces
<1> USE PoolAssumption DEF TInv, TypeOK, PlaceOK, Goto, LeavesPlaces, Submitting,
        SubmitLabels, ShutdownLabels, FetchLabels, WorkerLabels, Threads, Callers
<1>6. ASSUME NEW th \in Threads, submit_lock(th) PROVE LeavesPlaces
  BY <1>6 DEF submit_lock
<1>7. ASSUME NEW th \in Threads, submit_notify(th) PROVE LeavesPlaces
  <2>1. CASE Goto(th, Resume(th))
    BY <1>7, <2>1 DEF submit_notify, Resume
  <2>2. ASSUME NEW w \in Sleepers,
               pc' = [pc EXCEPT ![w] = "wake_lock", ![th] = Resume(th)]
        PROVE  LeavesPlaces
    BY <1>7, <2>2 DEF submit_notify, Sleepers, Resume
  <2>3. QED
    BY <1>7, <2>1, <2>2 DEF submit_notify, notify_one
<1>8. ASSUME NEW th \in Callers, Shutdown(th) \/ shutdown_won(th) PROVE LeavesPlaces
  BY <1>8 DEF Shutdown, shutdown_won
<1>9. ASSUME NEW th \in Callers, shutdown_lost(th) \/ shutdown_join(th)
      PROVE  LeavesPlaces
  BY <1>9 DEF shutdown_lost, shutdown_join, AfterShutdown
<1>10. ASSUME NEW th \in Callers, shutdown_notify(th) PROVE LeavesPlaces
  BY <1>10 DEF shutdown_notify, notify_all, Sleepers
<1>11. ASSUME NEW c \in Clients, client_leaves(c) PROVE LeavesPlaces
  BY <1>11 DEF client_leaves
<1>12. ASSUME NEW w \in Workers, emplace_back(w) \/ worker_start(w) \/ worker_end(w)
       PROVE  LeavesPlaces
  BY <1>12 DEF emplace_back, worker_start, worker_end
<1>13. ASSUME NEW w \in Workers, fetch_lock(w) \/ fetch_predicate(w) \/ fetch_block(w)
       PROVE  LeavesPlaces
  BY <1>13 DEF fetch_lock, fetch_predicate, fetch_block
<1>14. ASSUME NEW w \in Workers, spurious_wakeup(w) \/ fetch_null(w) PROVE LeavesPlaces
  BY <1>14 DEF spurious_wakeup, fetch_null
<1>15. ASSUME constructed \/ emplace_back_throws \/ destructor PROVE LeavesPlaces
  BY <1>15 DEF constructed, emplace_back_throws, destructor
<1>16. ASSUME UNCHANGED vars PROVE LeavesPlaces
  BY <1>16 DEF vars
<1> HIDE DEF TInv, TypeOK, PlaceOK, Goto, LeavesPlaces, Submitting,
        SubmitLabels, ShutdownLabels, FetchLabels, WorkerLabels, Threads, Callers
<1>17. QED
  BY <1>0, <1>1, <1>2, <1>3, <1>4, <1>5, <1>6, <1>7, <1>8, <1>9, <1>10, <1>11,
     <1>12, <1>13, <1>14, <1>15, <1>16
  DEF Next, CallNext, SubmitNext, ShutdownNext, WorkerNext, OwnerNext, Finished

(* At most one of the three places, and only once there: the sets that     *)
(* OneRun counts have together one element or none.                        *)
LEMMA PlacesCount == TInv /\ PlacesOK => OneRun
<1> SUFFICES ASSUME TInv, PlacesOK, NEW t \in Tasks
             PROVE  /\ Cardinality(Holders(t)) + Cardinality(Copies(t))
                         = IF future[t] = "pending" THEN 1 ELSE 0
                    /\ runs[t] = IF future[t] \in {"ready", "error"} THEN 1 ELSE 0
  BY DEF OneRun
<1>0. t # Nil /\ Workers \subseteq Threads
  BY PoolAssumption DEF Threads
<1>1. ~Wrapped(t) /\ ~InHand(t) => Holders(t) = {}
  BY DEF Wrapped, InHand, Holders
<1>2. t \notin Queued => Copies(t) = {}
  BY DEF Queued, Copies
<1>3. ASSUME Wrapped(t) PROVE \E x : Holders(t) = {x}
  <2>1. PICK x \in Threads : wrapper[x] = t
    BY <1>3 DEF Wrapped
  <2>2. ~InHand(t)
    BY <1>3 DEF PlacesOK
  <2>3. Holders(t) = {x}
    BY <1>0, <2>1, <2>2 DEF PlacesOK, InHand, Holders
  <2>4. QED
    BY <2>3
<1>4. ASSUME InHand(t) PROVE \E x : Holders(t) = {x}
  <2>1. PICK x \in Workers : hand[x] = t
    BY <1>4 DEF InHand
  <2>2. ~Wrapped(t)
    BY <1>4 DEF PlacesOK
  <2>3. Holders(t) = {x}
    BY <1>0, <2>1, <2>2 DEF PlacesOK, Wrapped, Holders
  <2>4. QED
    BY <2>3
<1>5. ASSUME t \in Queued PROVE \E i : Copies(t) = {i}
  <2>1. PICK i \in 1 .. Len(queue) : queue[i] = t
    BY <1>5 DEF Queued
  <2>2. Copies(t) = {i}
    BY <2>1 DEF PlacesOK, Copies
  <2>3. QED
    BY <2>2
<1>6. Cardinality({}) = 0 /\ \A x : Cardinality({x}) = 1
  BY FS_EmptySet, FS_Singleton
<1>7. CASE Wrapped(t) \/ InHand(t)
  <2>1. future[t] = "pending" /\ Copies(t) = {}
    BY <1>2, <1>7 DEF PlacesOK
  <2>2. Cardinality(Holders(t)) = 1
    BY <1>3, <1>4, <1>6, <1>7
  <2>3. QED
    BY <1>6, <2>1, <2>2 DEF PlacesOK
<1>8. CASE t \in Queued
  <2>1. future[t] = "pending" /\ Holders(t) = {}
    BY <1>1, <1>8 DEF PlacesOK
  <2>2. Cardinality(Copies(t)) = 1
    BY <1>5, <1>6, <1>8
  <2>3. QED
    BY <1>6, <2>1, <2>2 DEF PlacesOK
<1>9. CASE ~Wrapped(t) /\ ~InHand(t) /\ t \notin Queued
  <2>1. future[t] # "pending" /\ Holders(t) = {} /\ Copies(t) = {}
    BY <1>1, <1>2, <1>9 DEF PlacesOK
  <2>2. QED
    BY <1>6, <2>1 DEF PlacesOK
<1>10. QED
  BY <1>7, <1>8, <1>9

LEMMA PlacesInvariant == Spec => [](TInv /\ SInv /\ PlacesOK)
<1>1. PlacesOK /\ (TInv /\ SInv) /\ [Next]_vars => PlacesOK'
  BY PlacesStep
<1>2. QED
  BY <1>1, PlacesInit, Invariance, PTL DEF Spec

(* Every submitted task is, until its result is stored, in exactly one     *)
(* place, and it is called exactly once when its future becomes ready,     *)
(* whatever the number of workers, clients and tasks and however           *)
(* SubmitTask, FetchTask and Shutdown interleave.                          *)
THEOREM RunsOnce == Spec => []OneRun
BY PlacesCount, PlacesInvariant, PTL

-----------------------------------------------------------------------------
(* The refinement of JobPool.                                              *)

JobOf(t) ==
  IF runs[t] > 0 THEN "finished"
  ELSE IF future[t] = "broken" THEN "discarded"
  ELSE IF t \in Queued THEN "queued"
  ELSE IF InHand(t) THEN "started" ELSE "new"

LEMMA JobStateOf ==
  /\ JobState = [t \in Tasks |-> JobOf(t)]
  /\ JobState' = [t \in Tasks |-> JobOf(t)']
BY DEF JobState, JobOf, InHand

(* A step that moves no task between the places JobPool tells apart.       *)
LEMMA JobsFrame ==
  ASSUME UNCHANGED <<queue, hand, runs>>,
         \A t \in Tasks : future'[t] = "broken" <=> future[t] = "broken"
  PROVE  JobState' = JobState
<1>1. Queued' = Queued /\ \A t : InHand(t)' <=> InHand(t)
  BY DEF Queued, InHand
<1>2. \A t \in Tasks : JobOf(t)' = JobOf(t)
  BY <1>1 DEF JobOf
<1>3. QED
  BY <1>2, JobStateOf

(* One task moves and the others stay where they are.                      *)
LEMMA JobMoves ==
  ASSUME NEW t \in Tasks, NEW to, JobOf(t)' = to,
         \A u \in Tasks \ {t} : JobOf(u)' = JobOf(u)
  PROVE  JobState' = [JobState EXCEPT ![t] = to] /\ JobState[t] = JobOf(t)
BY JobStateOf

(* A worker with empty hands can start a task: the tasks that are started  *)
(* are in the hands of the others.                                         *)
LEMMA RoomToStart ==
  ASSUME TInv, PlacesOK, NEW w \in Workers, hand[w] = Nil
  PROVE  Cardinality({t \in Tasks : JobState[t] = "started"}) < Cardinality(Workers)
<1> DEFINE Started == {t \in Tasks : JobState[t] = "started"}
           Holder  == [t \in Started |-> CHOOSE x \in Workers : hand[x] = t]
           Others  == Workers \ {w}
<1>1. \A t \in Started : t \in Tasks /\ InHand(t)
  BY JobStateOf DEF JobOf
<1>2. \A t \in Started : Holder[t] \in Others /\ hand[Holder[t]] = t
  BY <1>1, PoolAssumption DEF InHand
<1>3. Holder \in Injection(Started, Others)
  <2>1. Holder \in [Started -> Others]
    BY <1>2
  <2>2. \A s, t \in Started : Holder[s] = Holder[t] => s = t
    BY <1>2
  <2>3. QED
    BY <2>1, <2>2 DEF Injection, IsInjective
<1>4. /\ IsFiniteSet(Others) /\ Cardinality(Others) = Cardinality(Workers) - 1
      /\ Cardinality(Workers) \in Nat
  BY PoolAssumption, FS_RemoveElement, FS_CardinalityType
<1>5. IsFiniteSet(Started) /\ Cardinality(Started) <= Cardinality(Others)
  BY <1>3, <1>4, FS_Injection
<1>6. Cardinality(Started) \in Nat
  BY <1>5, FS_CardinalityType
<1>7. QED
  BY <1>4, <1>5, <1>6

LEMMA AcceptJob ==
  ASSUME TInv, PlacesOK, NEW th \in Threads, submit_emplace(th)
  PROVE  Pool!Accept(wrapper[th]) /\ wrapper[th] \in Tasks
<1>0. PICK t \in Tasks : t = wrapper[th]
  BY DEF submit_emplace, TInv, MutexOK
<1>1. /\ UNCHANGED <<hand, runs, future, isShutdown>>
      /\ queue' = Append(queue, t)
  BY <1>0 DEF submit_emplace
<1>2. Queued' = Queued \cup {t}
  BY <1>1, QueuedElements, ElementsAppend DEF TInv, TypeOK
<1>3. Wrapped(t) /\ \A u : InHand(u)' <=> InHand(u)
  BY <1>0, <1>1 DEF Wrapped, InHand
<1>4. JobOf(t) = "new" /\ JobOf(t)' = "queued"
  BY <1>1, <1>2, <1>3 DEF PlacesOK, JobOf
<1>5. \A u \in Tasks \ {t} : JobOf(u)' = JobOf(u)
  BY <1>1, <1>2, <1>3 DEF JobOf
<1>6. QED
  BY <1>0, <1>1, <1>4, <1>5, JobMoves DEF Pool!Accept, Pool!Move

LEMMA StartJob ==
  ASSUME TInv, PlacesOK, NEW w \in Workers, fetch_task(w)
  PROVE  Pool!Start(Head(queue)) /\ Head(queue) \in Tasks
<1>0. PICK t \in Tasks : t = Head(queue)
  BY DEF fetch_task, TInv, TypeOK
<1>1. /\ hand' = [hand EXCEPT ![w] = t] /\ hand[w] = Nil
      /\ queue' = Tail(queue) /\ queue # <<>> /\ queue \in Seq(Tasks)
      /\ UNCHANGED <<future, runs, isShutdown>>
  BY <1>0 DEF fetch_task, TInv, PlaceOK, SubmitLabels, TypeOK
<1>2. /\ Len(queue) \in Nat \ {0} /\ Len(queue') = Len(queue) - 1
      /\ t = queue[1]
      /\ \A i \in 1 .. Len(queue') : queue'[i] = queue[i + 1]
  BY <1>0, <1>1
<1>3. Queued = {t} \cup Queued'
  BY <1>0, <1>1, QueuedElements, ElementsTail
<1>4. t \notin Queued'
  BY <1>2 DEF PlacesOK, Queued
<1>5. \A u \in Tasks : InHand(u)' <=> InHand(u) \/ u = t
  <2>1. \A x \in Workers : hand'[x] = IF x = w THEN t ELSE hand[x]
    BY <1>1 DEF TInv, TypeOK
  <2>2. \A u \in Tasks : u # Nil
    BY PoolAssumption
  <2>3. QED
    BY <1>1, <2>1, <2>2 DEF InHand
<1>6. JobOf(t) = "queued" /\ JobOf(t)' = "started"
  BY <1>1, <1>2, <1>3, <1>4, <1>5 DEF PlacesOK, JobOf
<1>7. \A u \in Tasks \ {t} : JobOf(u)' = JobOf(u)
  BY <1>1, <1>3, <1>5 DEF JobOf
<1>8. JobState' = [JobState EXCEPT ![t] = "started"] /\ JobState[t] = "queued"
  BY <1>2, <1>6, <1>7, JobMoves
<1>9. Cardinality({u \in Tasks : JobState[u] = "started"}) < Cardinality(Workers)
  BY <1>1, RoomToStart
<1>10. ASSUME NEW S PROVE Pool!Cardinality(S) = Cardinality(S)
  BY DEF Pool!Cardinality, Cardinality
<1>11. QED
  BY <1>0, <1>1, <1>8, <1>9, <1>10 DEF Pool!Start, Pool!Move

LEMMA FinishJob ==
  ASSUME TInv, PlacesOK, NEW w \in Workers, NEW outcome \in {"ready", "error"},
         task_returns(w, outcome)
  PROVE  Pool!Finish(hand[w]) /\ hand[w] \in Tasks
<1>0. PICK t \in Tasks : t = hand[w]
  BY DEF task_returns, TInv, PlaceOK, TypeOK
<1>1. /\ future' = [future EXCEPT ![t] = outcome]
      /\ runs' = [runs EXCEPT ![t] = @ + 1]
      /\ hand' = [hand EXCEPT ![w] = Nil]
      /\ UNCHANGED isShutdown /\ Queued' = Queued
  BY <1>0 DEF task_returns, Queued
<1>2. t # Nil
  BY PoolAssumption
<1>3. InHand(t)
  BY <1>0 DEF InHand
<1>4. \A u \in Tasks : InHand(u)' <=> InHand(u) /\ u # t
  <2>1. \A x \in Workers : hand'[x] = IF x = w THEN Nil ELSE hand[x]
    BY <1>1 DEF TInv, TypeOK
  <2>2. \A u \in Tasks : u # Nil
    BY PoolAssumption
  <2>3. \A x \in Workers : hand[x] = t => x = w
    BY <1>0, <1>2 DEF PlacesOK
  <2>4. QED
    BY <1>0, <2>1, <2>2, <2>3 DEF InHand
<1>5. /\ \A u \in Tasks \ {t} : future'[u] = future[u] /\ runs'[u] = runs[u]
      /\ runs'[t] = runs[t] + 1 /\ runs[t] \in Nat
  BY <1>1, <1>2 DEF TInv, TypeOK
<1>6. JobOf(t) = "started" /\ JobOf(t)' = "finished"
  BY <1>1, <1>2, <1>3, <1>5 DEF PlacesOK, JobOf
<1>7. \A u \in Tasks \ {t} : JobOf(u)' = JobOf(u)
  BY <1>1, <1>4, <1>5 DEF JobOf
<1>8. QED
  BY <1>0, <1>1, <1>6, <1>7, JobMoves DEF Pool!Finish, Pool!Move

LEMMA DiscardJobs ==
  ASSUME TInv, SInv, PlacesOK, destroy_members
  PROVE  Pool!Discard(Queued) /\ Queued \in SUBSET Tasks
<1>1. /\ future' = [t \in Tasks |-> IF t \in Queued THEN "broken" ELSE future[t]]
      /\ UNCHANGED <<runs, hand, isShutdown>> /\ queue' = <<>>
  BY DEF destroy_members
<1>2. Queued' = {} /\ \A t : InHand(t)' <=> InHand(t)
  BY <1>1 DEF Queued, InHand
<1>3. isShutdown
  BY DEF destroy_members, SInv, FlagOK
<1>4. Queued \in SUBSET Tasks
  BY DEF Queued, TInv, TypeOK
<1>5. \A t \in Queued : JobOf(t) = "queued" /\ JobOf(t)' = "discarded"
  BY <1>1, <1>4 DEF PlacesOK, JobOf
<1>6. \A t \in Tasks \ Queued : JobOf(t)' = JobOf(t)
  BY <1>1, <1>2 DEF JobOf
<1>7. JobState' = [t \in Tasks |-> IF t \in Queued THEN "discarded" ELSE JobState[t]]
  BY <1>5, <1>6, JobStateOf
<1>8. QED
  BY <1>1, <1>3, <1>4, <1>5, <1>7, JobStateOf DEF Pool!Discard

LEMMA PoolInit == Init => Pool!Init
<1> SUFFICES ASSUME Init PROVE Pool!Init
  OBVIOUS
<1>1. Queued = {} /\ \A t \in Tasks : ~InHand(t)
  BY PoolAssumption DEF Init, Queued, InHand
<1>2. \A t \in Tasks : JobOf(t) = "new"
  BY <1>1 DEF Init, JobOf
<1>3. QED
  BY <1>2, JobStateOf DEF Init, Pool!Init

LEMMA PoolStep ==
  TInv /\ SInv /\ PlacesOK /\ [Next]_vars => [Pool!Next]_<<JobState, isShutdown>>
<1> SUFFICES ASSUME TInv, SInv, PlacesOK, [Next]_vars
             PROVE  Pool!Next \/ UNCHANGED <<JobState, isShutdown>>
  OBVIOUS
<1>1. ASSUME UNCHANGED <<queue, hand, runs, future>> PROVE UNCHANGED JobState
  BY <1>1, JobsFrame
<1>2. ASSUME NEW th \in Threads, NEW t \in Tasks, SubmitTask(th, t)
      PROVE  UNCHANGED <<JobState, isShutdown>>
  <2>1. \A u \in Tasks : future'[u] = "broken" <=> future[u] = "broken"
    BY <1>2 DEF SubmitTask, TInv, TypeOK
  <2>2. QED
    BY <1>2, <2>1, JobsFrame DEF SubmitTask
<1>3. ASSUME NEW th \in Threads, submit_emplace(th) PROVE Pool!Next
  BY <1>3, AcceptJob DEF Pool!Next
<1>4. ASSUME NEW w \in Workers, fetch_task(w) PROVE Pool!Next
  BY <1>4, StartJob DEF Pool!Next
<1>5. ASSUME NEW w \in Workers, NEW outcome \in {"ready", "error"},
             task_returns(w, outcome) PROVE Pool!Next
  BY <1>5, FinishJob DEF Pool!Next
<1>6. ASSUME destroy_members PROVE Pool!Next
  BY <1>6, DiscardJobs DEF Pool!Next
<1>7. ASSUME NEW th \in Callers, shutdown_won(th) PROVE Pool!Next
  BY <1>1, <1>7 DEF shutdown_won, Pool!Next, Pool!Close
<1>8. ASSUME NEW th \in Threads, submit_lock(th) \/ submit_notify(th)
      PROVE  UNCHANGED <<JobState, isShutdown>>
  BY <1>1, <1>8 DEF submit_lock, submit_notify
<1>9. ASSUME NEW th \in Callers,
             \/ Shutdown(th) \/ shutdown_lost(th) \/ shutdown_notify(th)
             \/ shutdown_join(th)
      PROVE  UNCHANGED <<JobState, isShutdown>>
  BY <1>1, <1>9 DEF Shutdown, shutdown_lost, shutdown_notify, shutdown_join
<1>10. ASSUME NEW w \in Workers,
              \/ emplace_back(w) \/ worker_start(w) \/ worker_end(w) \/ fetch_lock(w)
              \/ fetch_predicate(w) \/ fetch_block(w) \/ fetch_null(w)
              \/ spurious_wakeup(w)
       PROVE  UNCHANGED <<JobState, isShutdown>>
  BY <1>1, <1>10 DEF emplace_back, worker_start, worker_end, fetch_lock,
       fetch_predicate, fetch_block, fetch_null, spurious_wakeup
<1>11. ASSUME NEW c \in Clients, client_leaves(c) PROVE UNCHANGED <<JobState, isShutdown>>
  BY <1>1, <1>11 DEF client_leaves
<1>12. ASSUME constructed \/ emplace_back_throws \/ destructor
       PROVE  UNCHANGED <<JobState, isShutdown>>
  BY <1>1, <1>12 DEF constructed, emplace_back_throws, destructor
<1>13. CASE UNCHANGED vars
  BY <1>1, <1>13 DEF vars
<1>14. QED
  BY <1>2, <1>3, <1>4, <1>5, <1>6, <1>7, <1>8, <1>9, <1>10, <1>11, <1>12, <1>13
  DEF Next, CallNext, SubmitNext, ShutdownNext, WorkerNext, OwnerNext, Finished

(* The C++ pool implements JobPool for any number of workers, clients and  *)
(* tasks: emplacing is acceptance, FetchTask starts a task when fewer than *)
(* threadNum are started, the call finishes it, and only the destruction   *)
(* of a pool that was shut down discards what is queued.                   *)
THEOREM ImplementsPool == Spec => ImplementsJobPool
<1>1. Init => Pool!Init
  BY PoolInit
<1>2. TInv /\ SInv /\ PlacesOK /\ [Next]_vars => [Pool!Next]_<<JobState, isShutdown>>
  BY PoolStep
<1>3. QED
  BY <1>1, <1>2, PlacesInvariant, PTL DEF Spec, ImplementsJobPool, Pool!Spec

=============================================================================
