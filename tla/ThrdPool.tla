------------------------------ MODULE ThrdPool ------------------------------
(***************************************************************************)
(* The C thread pool of src/LinuxLesson/thread_pool (thrd_pool.c with the  *)
(* spinlock of spinlock.h).                                                *)
(*                                                                         *)
(* A pool is an intrusive linked list of tasks guarded by a spinlock, a    *)
(* mutex and condition variable on which idle workers sleep, and the flags *)
(* quit (atomic) and block (guarded by the mutex).  Every thread is a      *)
(* process with a program counter; a step is one access to shared state or *)
(* one library call.  The two locks are kept separate because the code     *)
(* does: the list is never examined under the mutex.                       *)
(***************************************************************************)
EXTENDS Naturals, Sequences, FiniteSets

CONSTANTS
  Workers,  \* the thrd_count threads thrdpool_create starts
  Clients,  \* other threads that post tasks or terminate the pool
  Owner,    \* the thread that creates the pool and waits for it
  Tasks,    \* the task_t nodes malloc can return, one per accepted post
  HeadCell, \* the cell queue->head; the other cells are the nodes' next
  Nil       \* NULL, and the holder of a free lock

ASSUME ThreadsAssumption ==
  /\ IsFiniteSet(Workers)
  /\ Workers \cap Clients = {}
  /\ Owner \notin Workers \cup Clients
  /\ Nil \notin Workers \cup Clients \cup {Owner}
ASSUME CellsAssumption ==
  /\ HeadCell \notin Tasks
  /\ Nil \notin Tasks \cup {HeadCell}

Posters == Clients \cup {Owner}
Threads == Workers \cup Posters
Cells   == Tasks \cup {HeadCell}

VARIABLES
  pc,       \* the next step of each thread
  hand,     \* each thread's local variable `task`
  phase,    \* where the owner is in the pool's life
  live,     \* the resources allocated and not yet released
  started,  \* pool->threads[0 .. thrd_count-1]
  quit,     \* pool->quit
  block,    \* queue->block
  spin,     \* the thread holding queue->lock
  mutex,    \* the thread holding queue->mutex
  link,     \* link[c] is the pointer stored in cell c
  tail,     \* queue->tail, the cell the next task is stored in
  heap,     \* malloc's view of each task node
  runs,     \* how often each task's function was called
  order,    \* history: the tasks in the order they were linked in
  taken     \* history: how many of them were unlinked

lifeVars == <<phase, live, started>>
flagVars == <<quit, block>>
listVars == <<link, tail, order, taken>>
vars == <<pc, hand, lifeVars, flagVars, spin, mutex, listVars, heap, runs>>

Resources == {"pool", "queue", "mutex", "cond", "attr", "threads"}

-----------------------------------------------------------------------------
(* Labels, grouped by the function whose step comes next.                  *)

PostLabels    == {"add_lock", "add_link", "add_tail", "add_unlock",
                  "add_signal"}
PopLabels     == {"pop_lock", "pop_head", "pop_tail", "pop_unlock"}
WaitLabels    == {"wait_lock", "wait_check", "wait_sleep", "asleep",
                  "wake_lock"}
TermLabels    == {"t_quit", "nb_lock", "nb_store", "nb_bcast"}
WorkerLabels  == {"unborn", "w_quit", "run", "body", "exited"}
CreateLabels  == {"c_pool", "c_queue", "c_mutex", "c_cond", "c_attr",
                  "c_threads", "spawn", "u_mutex", "u_queue", "u_pool"}
OwnerLabels   == CreateLabels \cup {"join", "drain_free", "destroy", "gone"}
Labels == PostLabels \cup PopLabels \cup WaitLabels \cup TermLabels
            \cup WorkerLabels \cup OwnerLabels \cup {"idle", "left"}

(* The labels at which a thread holds the spinlock, and the mutex.         *)
SpinHeld  == {"add_link", "add_tail", "add_unlock",
              "pop_head", "pop_tail", "pop_unlock"}
MutexHeld == {"wait_check", "wait_sleep", "nb_store"}

-----------------------------------------------------------------------------
Init ==
  /\ pc = [th \in Threads |-> IF th \in Workers THEN "unborn"
                              ELSE IF th = Owner THEN "c_pool" ELSE "idle"]
  /\ hand = [th \in Threads |-> Nil]
  /\ phase = "creating"
  /\ live = {}
  /\ started = {}
  /\ quit = 0 /\ block = 1
  /\ spin = Nil /\ mutex = Nil
  /\ link = [c \in Cells |-> Nil]
  /\ tail = HeadCell
  /\ heap = [t \in Tasks |-> "unused"]
  /\ runs = [t \in Tasks |-> 0]
  /\ order = <<>> /\ taken = 0

Goto(th, l) == pc' = [pc EXCEPT ![th] = l]

-----------------------------------------------------------------------------
(* spinlock.h                                                              *)

(* Mutant: the flag is tested and set in two steps.                        *)
spinlock_lock_torn(th) == spin' = th

spinlock_lock(th)   == spin = Nil /\ spin' = th
spinlock_unlock(th) == spin' = Nil

(* pthread_mutex_lock, pthread_mutex_unlock.                               *)
mutex_lock(th)   == mutex = Nil /\ mutex' = th
mutex_unlock(th) == mutex' = Nil

-----------------------------------------------------------------------------
(* thrdpool_create: each allocation either succeeds and control moves on,  *)
(* or fails and control enters the rollback of what was allocated before.  *)

CreateStep ==
  [c_pool    |-> [res |-> "pool",    ok |-> "c_queue",   fail |-> "gone"],
   c_queue   |-> [res |-> "queue",   ok |-> "c_mutex",   fail |-> "u_pool"],
   c_mutex   |-> [res |-> "mutex",   ok |-> "c_cond",    fail |-> "u_queue"],
   c_cond    |-> [res |-> "cond",    ok |-> "c_attr",    fail |-> "u_mutex"],
   c_attr    |-> [res |-> "attr",    ok |-> "c_threads", fail |-> "pop_lock"],
   c_threads |-> [res |-> "threads", ok |-> "spawn",     fail |-> "pop_lock"]]

Acquire(l) ==
  /\ pc[Owner] = l
  /\ live' = live \cup {CreateStep[l].res}
  /\ Goto(Owner, CreateStep[l].ok)
  /\ UNCHANGED <<hand, phase, started, flagVars, spin, mutex, listVars, heap,
                 runs>>

AcquireFails(l) ==
  /\ pc[Owner] = l
  /\ phase' = IF l = "c_pool" THEN "failed" ELSE "rollback"
  /\ Goto(Owner, CreateStep[l].fail)
  /\ UNCHANGED <<hand, live, started, flagVars, spin, mutex, listVars, heap,
                 runs>>

(* The rollback of __taskqueue_create and thrdpool_create.                 *)
UndoStep ==
  [u_mutex |-> [res |-> "mutex", next |-> "u_queue"],
   u_queue |-> [res |-> "queue", next |-> "u_pool"],
   u_pool  |-> [res |-> "pool",  next |-> "gone"]]

Undo(l) ==
  /\ pc[Owner] = l
  /\ live' = live \ {UndoStep[l].res}
  /\ phase' = IF l = "u_pool" THEN "failed" ELSE phase
  /\ Goto(Owner, UndoStep[l].next)
  /\ UNCHANGED <<hand, started, flagVars, spin, mutex, listVars, heap, runs>>

(* __threads_create: one pthread_create of the loop; the new thread runs   *)
(* at once.                                                                *)
pthread_create(w) ==
  /\ pc[Owner] = "spawn" /\ pc[w] = "unborn"
  /\ started' = started \cup {w}
  /\ pc' = [pc EXCEPT ![w] = "w_quit"]
  /\ UNCHANGED <<hand, phase, live, flagVars, spin, mutex, listVars, heap,
                 runs>>

(* __threads_create after the loop: every thread was started.              *)
threads_created ==
  /\ pc[Owner] = "spawn" /\ started = Workers
  /\ live' = live \ {"attr"}
  /\ phase' = "up"
  /\ Goto(Owner, "idle")
  /\ UNCHANGED <<hand, started, flagVars, spin, mutex, listVars, heap, runs>>

(* __threads_create after the loop: a pthread_create failed, the threads   *)
(* that were started are terminated and joined.                            *)
pthread_create_fails ==
  /\ pc[Owner] = "spawn" /\ started # Workers
  /\ live' = live \ {"attr"}
  /\ phase' = "rollback"
  /\ Goto(Owner, "t_quit")
  /\ UNCHANGED <<hand, started, flagVars, spin, mutex, listVars, heap, runs>>

-----------------------------------------------------------------------------
(* thrdpool_post and __add_task.                                           *)

(* A pool may be used from when thrdpool_create has returned it, by the    *)
(* clients, its owner and the function of a running task.                  *)
MayCall(th) ==
  \/ th \in Posters /\ pc[th] = "idle" /\ phase \in {"up", "waiting"}
  \/ th \in Workers /\ pc[th] = "body"

(* Where a caller goes on when a call has returned.                        *)
Resume(th) == IF th \in Workers THEN "body" ELSE "idle"

(* The post that is accepted.  One that is refused (quit is set, or malloc *)
(* fails) returns -1 and changes nothing: a stuttering step.               *)
thrdpool_post(th, t) ==
  /\ MayCall(th)
  /\ quit = 0
  /\ heap[t] = "unused"
  /\ heap' = [heap EXCEPT ![t] = "alloc"]
  /\ hand' = [hand EXCEPT ![th] = t]
  /\ link' = [link EXCEPT ![t] = Nil]
  /\ Goto(th, "add_lock")
  /\ UNCHANGED <<lifeVars, flagVars, spin, mutex, tail, order, taken, runs>>

add_lock(th) ==
  /\ pc[th] = "add_lock"
  /\ spinlock_lock(th)
  /\ Goto(th, "add_link")
  /\ UNCHANGED <<hand, lifeVars, flagVars, mutex, listVars, heap, runs>>

add_link(th) ==
  /\ pc[th] = "add_link"
  /\ link' = [link EXCEPT ![tail] = hand[th]]
  /\ order' = Append(order, hand[th])
  /\ Goto(th, "add_tail")
  /\ UNCHANGED <<hand, lifeVars, flagVars, spin, mutex, tail, taken, heap, runs>>

add_tail(th) ==
  /\ pc[th] = "add_tail"
  /\ tail' = hand[th]
  /\ hand' = [hand EXCEPT ![th] = Nil]
  /\ Goto(th, "add_unlock")
  /\ UNCHANGED <<lifeVars, flagVars, spin, mutex, link, order, taken, heap, runs>>

add_unlock(th) ==
  /\ pc[th] = "add_unlock"
  /\ spinlock_unlock(th)
  /\ Goto(th, "add_signal")
  /\ UNCHANGED <<hand, lifeVars, flagVars, mutex, listVars, heap, runs>>

Sleepers == {w \in Workers : pc[w] = "asleep"}

(* pthread_cond_signal: one sleeper wakes if there is one, and thrdpool_post *)
(* returns 0.                                                              *)
add_signal(th) ==
  /\ pc[th] = "add_signal"
  /\ \/ Sleepers = {} /\ Goto(th, Resume(th))
     \/ \E w \in Sleepers :
          pc' = [pc EXCEPT ![w] = "wake_lock", ![th] = Resume(th)]
  /\ UNCHANGED <<hand, lifeVars, flagVars, spin, mutex, listVars, heap, runs>>

-----------------------------------------------------------------------------
(* __pop_task, called by a worker and by __taskqueue_destroy.              *)

pop_lock(th) ==
  /\ pc[th] = "pop_lock"
  /\ spinlock_lock(th)
  /\ Goto(th, "pop_head")
  /\ UNCHANGED <<hand, lifeVars, flagVars, mutex, listVars, heap, runs>>

pop_empty(th) ==
  /\ pc[th] = "pop_head" /\ link[HeadCell] = Nil
  /\ hand' = [hand EXCEPT ![th] = Nil]
  /\ Goto(th, "pop_unlock")
  /\ UNCHANGED <<lifeVars, flagVars, spin, mutex, listVars, heap, runs>>

(* Mutant: the task is returned and stays at the head of the list.         *)
pop_head_keeps(th) ==
  /\ pc[th] = "pop_head" /\ link[HeadCell] # Nil
  /\ hand' = [hand EXCEPT ![th] = link[HeadCell]]
  /\ taken' = taken + 1
  /\ Goto(th, "pop_tail")
  /\ UNCHANGED <<lifeVars, flagVars, spin, mutex, link, tail, order, heap, runs>>

pop_head(th) ==
  /\ pc[th] = "pop_head" /\ link[HeadCell] # Nil
  /\ hand' = [hand EXCEPT ![th] = link[HeadCell]]
  /\ link' = [link EXCEPT ![HeadCell] = link[link[HeadCell]]]
  /\ taken' = taken + 1
  /\ Goto(th, "pop_tail")
  /\ UNCHANGED <<lifeVars, flagVars, spin, mutex, tail, order, heap, runs>>

(* Mutant: tail keeps pointing at the node taken when the list is empty.   *)
pop_tail_stale(th) ==
  /\ pc[th] = "pop_tail"
  /\ Goto(th, "pop_unlock")
  /\ UNCHANGED <<hand, lifeVars, flagVars, spin, mutex, listVars, heap, runs>>

pop_tail(th) ==
  /\ pc[th] = "pop_tail"
  /\ tail' = IF link[HeadCell] = Nil THEN HeadCell ELSE tail
  /\ Goto(th, "pop_unlock")
  /\ UNCHANGED <<hand, lifeVars, flagVars, spin, mutex, link, order, taken, heap,
                 runs>>

(* Mutant: __get_task tests the result of __pop_task the wrong way round.  *)
AfterPop_inverted(th) ==
  IF th \in Workers
  THEN IF hand[th] # Nil THEN "wait_lock" ELSE "w_quit"
  ELSE IF hand[th] = Nil THEN "destroy" ELSE "drain_free"

(* The caller goes on according to what __pop_task returned.               *)
AfterPop(th) ==
  IF th \in Workers
  THEN IF hand[th] = Nil THEN "wait_lock" ELSE "run"
  ELSE IF hand[th] = Nil THEN "destroy" ELSE "drain_free"

pop_unlock(th) ==
  /\ pc[th] = "pop_unlock"
  /\ spinlock_unlock(th)
  /\ Goto(th, AfterPop(th))
  /\ UNCHANGED <<hand, lifeVars, flagVars, mutex, listVars, heap, runs>>

-----------------------------------------------------------------------------
(* The rest of __get_task.                                                 *)

wait_lock(w) ==
  /\ pc[w] = "wait_lock"
  /\ mutex_lock(w)
  /\ Goto(w, "wait_check")
  /\ UNCHANGED <<hand, lifeVars, flagVars, spin, listVars, heap, runs>>

wait_refused(w) ==
  /\ pc[w] = "wait_check" /\ block = 0
  /\ mutex_unlock(w)
  /\ Goto(w, "exited")
  /\ UNCHANGED <<hand, lifeVars, flagVars, spin, listVars, heap, runs>>

wait_check(w) ==
  /\ pc[w] = "wait_check" /\ block = 1
  /\ Goto(w, "wait_sleep")
  /\ UNCHANGED <<hand, lifeVars, flagVars, spin, mutex, listVars, heap, runs>>

(* pthread_cond_wait releases the mutex and sleeps in one step.            *)
wait_sleep(w) ==
  /\ pc[w] = "wait_sleep"
  /\ mutex_unlock(w)
  /\ Goto(w, "asleep")
  /\ UNCHANGED <<hand, lifeVars, flagVars, spin, listVars, heap, runs>>

(* POSIX lets a sleeper wake without a signal.                             *)
spurious_wakeup(w) ==
  /\ pc[w] = "asleep"
  /\ Goto(w, "wake_lock")
  /\ UNCHANGED <<hand, lifeVars, flagVars, spin, mutex, listVars, heap, runs>>

(* pthread_cond_wait takes the mutex back and __get_task drops it at once. *)
wake_lock(w) ==
  /\ pc[w] = "wake_lock"
  /\ mutex = Nil
  /\ Goto(w, "pop_lock")
  /\ UNCHANGED <<hand, lifeVars, flagVars, spin, mutex, listVars, heap, runs>>

-----------------------------------------------------------------------------
(* __thrdpool_worker.                                                      *)

worker_quit(w) ==
  /\ pc[w] = "w_quit"
  /\ Goto(w, IF quit = 0 THEN "pop_lock" ELSE "exited")
  /\ UNCHANGED <<hand, lifeVars, flagVars, spin, mutex, listVars, heap, runs>>

worker_run(w) ==
  /\ pc[w] = "run"
  /\ heap' = [heap EXCEPT ![hand[w]] = "freed"]
  /\ runs' = [runs EXCEPT ![hand[w]] = @ + 1]
  /\ hand' = [hand EXCEPT ![w] = Nil]
  /\ Goto(w, "body")
  /\ UNCHANGED <<lifeVars, flagVars, spin, mutex, listVars>>

task_returns(w) ==
  /\ pc[w] = "body"
  /\ Goto(w, "w_quit")
  /\ UNCHANGED <<hand, lifeVars, flagVars, spin, mutex, listVars, heap, runs>>

-----------------------------------------------------------------------------
(* thrdpool_terminate (and the same steps in __threads_terminate).         *)

thrdpool_terminate(th) ==
  /\ MayCall(th)
  /\ Goto(th, "t_quit")
  /\ UNCHANGED <<hand, lifeVars, flagVars, spin, mutex, listVars, heap, runs>>

terminate_quit(th) ==
  /\ pc[th] = "t_quit"
  /\ quit' = 1
  /\ Goto(th, "nb_lock")
  /\ UNCHANGED <<hand, lifeVars, block, spin, mutex, listVars, heap, runs>>

(* Mutant: block is cleared without the mutex.                             *)
nonblock_unlocked(th) ==
  /\ pc[th] = "nb_lock"
  /\ block' = 0
  /\ Goto(th, "nb_bcast")
  /\ UNCHANGED <<hand, lifeVars, quit, spin, mutex, listVars, heap, runs>>

nonblock_lock(th) ==
  /\ pc[th] = "nb_lock"
  /\ mutex_lock(th)
  /\ Goto(th, "nb_store")
  /\ UNCHANGED <<hand, lifeVars, flagVars, spin, listVars, heap, runs>>

nonblock_store(th) ==
  /\ pc[th] = "nb_store"
  /\ block' = 0
  /\ mutex_unlock(th)
  /\ Goto(th, "nb_bcast")
  /\ UNCHANGED <<hand, lifeVars, quit, spin, listVars, heap, runs>>

AfterTerminate(th) ==
  IF th = Owner /\ phase = "rollback" THEN "join" ELSE Resume(th)

(* Mutant: pthread_cond_signal where a broadcast is needed.                *)
nonblock_signals(th) ==
  /\ pc[th] = "nb_bcast"
  /\ \/ Sleepers = {} /\ Goto(th, AfterTerminate(th))
     \/ \E w \in Sleepers :
          pc' = [pc EXCEPT ![w] = "wake_lock", ![th] = AfterTerminate(th)]
  /\ UNCHANGED <<hand, lifeVars, flagVars, spin, mutex, listVars, heap, runs>>

(* pthread_cond_broadcast, then the return to the caller.                  *)
nonblock_broadcast(th) ==
  /\ pc[th] = "nb_bcast"
  /\ pc' = [x \in Threads |-> IF x = th THEN AfterTerminate(th)
                              ELSE IF x \in Sleepers THEN "wake_lock"
                              ELSE pc[x]]
  /\ UNCHANGED <<hand, lifeVars, flagVars, spin, mutex, listVars, heap, runs>>

-----------------------------------------------------------------------------
(* thrdpool_waitdone and __taskqueue_destroy.                              *)

(* A client that has made its last call on the pool.                       *)
client_leaves(c) ==
  /\ MayCall(c)
  /\ Goto(c, "left")
  /\ UNCHANGED <<hand, lifeVars, flagVars, spin, mutex, listVars, heap, runs>>

(* The pool is freed at the end, so its owner may only wait for it when no *)
(* other client will touch it again.                                       *)
ClientsGone == \A c \in Clients : pc[c] = "left"

thrdpool_waitdone ==
  /\ pc[Owner] = "idle" /\ phase = "up"
  /\ phase' = "waiting"
  /\ Goto(Owner, "join")
  /\ UNCHANGED <<hand, live, started, flagVars, spin, mutex, listVars, heap,
                 runs>>

(* Mutant: the threads are not joined.                                     *)
join_threads_skipped ==
  /\ pc[Owner] = "join"
  /\ live' = IF phase = "rollback" THEN live \ {"threads"} ELSE live
  /\ Goto(Owner, "pop_lock")
  /\ UNCHANGED <<hand, phase, started, flagVars, spin, mutex, listVars, heap,
                 runs>>

(* pthread_join of every started thread; the rollback frees the array      *)
(* before it destroys the queue.                                           *)
join_threads ==
  /\ pc[Owner] = "join"
  /\ \A w \in started : pc[w] = "exited"
  /\ live' = IF phase = "rollback" THEN live \ {"threads"} ELSE live
  /\ Goto(Owner, "pop_lock")
  /\ UNCHANGED <<hand, phase, started, flagVars, spin, mutex, listVars, heap,
                 runs>>

(* Mutant: __taskqueue_destroy frees one task where it should loop.        *)
drain_free_once ==
  /\ pc[Owner] = "drain_free"
  /\ heap' = [heap EXCEPT ![hand[Owner]] = "freed"]
  /\ hand' = [hand EXCEPT ![Owner] = Nil]
  /\ Goto(Owner, "destroy")
  /\ UNCHANGED <<lifeVars, flagVars, spin, mutex, listVars, runs>>

drain_free ==
  /\ pc[Owner] = "drain_free"
  /\ heap' = [heap EXCEPT ![hand[Owner]] = "freed"]
  /\ hand' = [hand EXCEPT ![Owner] = Nil]
  /\ Goto(Owner, "pop_lock")
  /\ UNCHANGED <<lifeVars, flagVars, spin, mutex, listVars, runs>>

(* The end of __taskqueue_destroy; waitdone then frees threads and pool,   *)
(* a failed create frees the pool.                                         *)
taskqueue_destroy ==
  /\ pc[Owner] = "destroy"
  /\ live' = live \ {"queue", "mutex", "cond", "pool",
                     IF phase = "waiting" THEN "threads" ELSE "pool"}
  /\ phase' = IF phase = "waiting" THEN "done" ELSE "failed"
  /\ Goto(Owner, "gone")
  /\ UNCHANGED <<hand, started, flagVars, spin, mutex, listVars, heap, runs>>

-----------------------------------------------------------------------------
CreateNext ==
  \/ \E l \in DOMAIN CreateStep : Acquire(l) \/ AcquireFails(l)
  \/ \E l \in DOMAIN UndoStep : Undo(l)
  \/ \E w \in Workers : pthread_create(w)
  \/ threads_created
  \/ pthread_create_fails

AddNext(th) ==
  \/ add_lock(th) \/ add_link(th) \/ add_tail(th) \/ add_unlock(th)
  \/ add_signal(th)

PopNext(th) ==
  \/ pop_lock(th) \/ pop_empty(th) \/ pop_head(th) \/ pop_tail(th)
  \/ pop_unlock(th)

TerminateNext(th) ==
  \/ terminate_quit(th) \/ nonblock_lock(th) \/ nonblock_store(th)
  \/ nonblock_broadcast(th)

WorkerNext(w) ==
  \/ PopNext(w)
  \/ wait_lock(w) \/ wait_refused(w) \/ wait_check(w) \/ wait_sleep(w)
  \/ wake_lock(w)
  \/ worker_quit(w) \/ worker_run(w) \/ task_returns(w)

DestroyNext ==
  PopNext(Owner) \/ join_threads \/ drain_free \/ taskqueue_destroy

(* What clients choose to call, for any client that keeps to the contract. *)
CallNext ==
  \/ \E th \in Threads, t \in Tasks : thrdpool_post(th, t)
  \/ \E th \in Threads : thrdpool_terminate(th)
  \/ \E c \in Clients : client_leaves(c)
  \/ ClientsGone /\ thrdpool_waitdone

(* The steps of the library itself.                                        *)
PoolNext ==
  \/ CreateNext
  \/ \E th \in Threads : AddNext(th) \/ TerminateNext(th)
  \/ \E w \in Workers : WorkerNext(w) \/ spurious_wakeup(w)
  \/ DestroyNext

(* The owner has nothing left to do.                                       *)
Finished == pc[Owner] = "gone" /\ UNCHANGED vars

Next == CallNext \/ PoolNext \/ Finished

Spec == Init /\ [][Next]_vars

(* Every thread that is inside the library keeps running, gets a lock that *)
(* is free again and again, and returns from the function of a task.       *)
(* Nobody is obliged to call anything, and no sleeper to wake by itself.   *)
Fairness ==
  /\ \A w \in Workers : SF_vars(WorkerNext(w))
  /\ \A th \in Threads : SF_vars(AddNext(th) \/ TerminateNext(th))
  /\ WF_vars(CreateNext \/ DestroyNext)

FairSpec == Spec /\ Fairness

-----------------------------------------------------------------------------
TypeOK ==
  /\ pc \in [Threads -> Labels]
  /\ hand \in [Threads -> Tasks \cup {Nil}]
  /\ phase \in {"creating", "up", "rollback", "waiting", "done", "failed"}
  /\ live \subseteq Resources
  /\ started \subseteq Workers
  /\ quit \in {0, 1} /\ block \in {0, 1}
  /\ spin \in Threads \cup {Nil} /\ mutex \in Threads \cup {Nil}
  /\ link \in [Cells -> Tasks \cup {Nil}]
  /\ tail \in Cells
  /\ heap \in [Tasks -> {"unused", "alloc", "freed"}]
  /\ runs \in [Tasks -> Nat]
  /\ order \in Seq(Tasks)
  /\ taken \in Nat

(* The locks exclude: a thread is inside a critical section of thrd_pool.c *)
(* exactly while it holds the lock, so two threads never are (the spinlock *)
(* of spinlock.h around the list, the mutex around block).                 *)
LocksHeld ==
  \A th \in Threads : /\ pc[th] \in SpinHeld  <=> spin = th
                      /\ pc[th] \in MutexHeld <=> mutex = th

(* The tasks linked in and not yet unlinked are order[taken+1 .. Len].     *)
(* The cell that holds the pointer to the task order[i+1].                 *)
CellBefore(i) == IF i = taken THEN HeadCell ELSE order[i]

Adding  == \E th \in Threads : pc[th] = "add_tail"
Popping == \E th \in Threads : pc[th] = "pop_tail"

(* queue->head and the next pointers chain exactly the tasks added and not *)
(* yet popped, in the order they were added, and queue->tail is the last   *)
(* cell of that chain (or the one before it between __add_task's two       *)
(* writes, or the unlinked node before __pop_task resets it): the list of  *)
(* __add_task and __pop_task is a FIFO queue whatever the threads do.      *)
ListIsQueue ==
  /\ taken <= Len(order)
  /\ \A i \in taken .. Len(order) :
       link[CellBefore(i)] = IF i = Len(order) THEN Nil ELSE order[i + 1]
  /\ tail = IF Adding THEN CellBefore(Len(order) - 1)
            ELSE IF Popping /\ taken = Len(order) THEN order[taken]
            ELSE CellBefore(Len(order))

(* The owner is past the join of the workers: what it pops it drops.       *)
Draining == pc[Owner] \in PopLabels \cup {"drain_free", "destroy", "gone"}

HeldOnce(t)   == \E th \in Threads : \A x \in Threads : hand[x] = t <=> x = th
HeldByNone(t) == \A th \in Threads : hand[th] # t

(* Every task __pop_task has handed out is run exactly once: it has run,   *)
(* or exactly one thread holds it and it has not, or it was dropped by     *)
(* __taskqueue_destroy after the workers were joined; a task still linked  *)
(* has not run.                                                            *)
ExactlyOnce ==
  /\ \A i \in 1 .. taken :
       LET t == order[i] IN
       \/ runs[t] = 1 /\ HeldByNone(t)
       \/ runs[t] = 0 /\ HeldOnce(t)
       \/ runs[t] = 0 /\ HeldByNone(t) /\ Draining
  /\ \A i \in taken + 1 .. Len(order) : runs[order[i]] = 0

(* No thread is about to touch the pool, its queue, locks or threads after *)
(* they were destroyed, or a task node after it was freed, and nothing is  *)
(* freed twice, provided waitdone is called when the clients are gone.     *)
UsesQueue == PostLabels \cup PopLabels \cup WaitLabels \cup TermLabels
               \cup {"w_quit", "destroy"}
NoUseAfterFree ==
  /\ \A th \in Threads :
       /\ pc[th] \in UsesQueue => {"pool", "queue", "mutex", "cond"} \subseteq live
       /\ hand[th] # Nil => heap[hand[th]] = "alloc"
  /\ \A i \in taken + 1 .. Len(order) : heap[order[i]] = "alloc"
  /\ pc[Owner] \in {"join", "spawn"} => {"pool", "threads"} \subseteq live

(* When thrdpool_waitdone has returned, or thrdpool_create has returned    *)
(* NULL, no worker runs and everything allocated was released; only        *)
(* pthread_attr_destroy is skipped, on one path of __threads_create.       *)
EverythingReleased ==
  phase \in {"done", "failed"} =>
    /\ live \subseteq {"attr"}
    /\ \A t \in Tasks : heap[t] # "alloc"
    /\ \A w \in Workers : pc[w] \in {"unborn", "exited"}

(* thrdpool_terminate stops the pool: once quit is set every worker comes  *)
(* to its end, asleep or not, because __nonblock sets block under the      *)
(* mutex the sleepers test it under.                                       *)
TerminateStops == quit = 1 ~> \A w \in started : pc[w] = "exited"

(* thrdpool_waitdone of a terminated pool, and a thrdpool_create that has  *)
(* to roll back, return.                                                   *)
WaitdoneReturns ==
  (phase = "rollback" \/ (phase = "waiting" /\ quit = 1))
    ~> phase \in {"done", "failed"}

(* A posted task is taken from the queue by some worker, if the pool is    *)
(* not terminated first: thrdpool_post notifies the workers.               *)
PostedIsTaken ==
  \A t \in Tasks :
    (\E i \in 1 .. Len(order) : order[i] = t)
      ~> (quit = 1 \/ \E i \in 1 .. taken : order[i] = t)

-----------------------------------------------------------------------------
(* What the pool promises about tasks.  A task that only the owner holds   *)
(* is on its way to be freed by __taskqueue_destroy.                       *)
JobState ==
  [t \in Tasks |->
     IF runs[t] > 0 THEN "finished"
     ELSE IF \E i \in taken + 1 .. Len(order) : order[i] = t THEN "queued"
     ELSE IF \A i \in 1 .. taken : order[i] # t THEN "new"
     ELSE IF \E w \in Workers : hand[w] = t THEN "started" ELSE "discarded"]

Pool == INSTANCE JobPool
          WITH Jobs <- Tasks, MaxWorkers <- Cardinality(Workers),
               job <- JobState, closed <- quit = 1 \/ phase \in {"waiting", "done"}

(* The C pool implements JobPool: a posted task is started by one worker   *)
(* and run once, or dropped by a pool that is terminated or waited for.    *)
ImplementsJobPool == Pool!Spec

=============================================================================
