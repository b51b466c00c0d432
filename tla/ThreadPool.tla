----------------------------- MODULE ThreadPool -----------------------------
(***************************************************************************)
(* The C++ thread pool of src/PoolTypeStructure/ThreadPool (thread_pool.h, *)
(* thread_pool.cpp): a std::queue of packaged tasks under one mutex and    *)
(* condition variable, and an atomic flag m_isShutdown that is written     *)
(* without the mutex.  Threads are processes with a program counter; a     *)
(* step is one access to shared state or one library call.                 *)
(***************************************************************************)
EXTENDS Naturals, Sequences, FiniteSets

CONSTANTS
  Workers,  \* the threadNum threads of m_workerThreads
  Clients,  \* other threads that call SubmitTask and Shutdown
  Owner,    \* the thread that constructs and destroys the pool
  Tasks,    \* the packaged tasks, one per SubmitTask that is accepted
  Nil       \* no task, no thread

(* The constructor throws std::invalid_argument when threadNum is 0.       *)
ASSUME PoolAssumption ==
  /\ Workers # {} /\ IsFiniteSet(Workers)
  /\ Workers \cap Clients = {}
  /\ Owner \notin Workers \cup Clients
  /\ Nil \notin Workers \cup Clients \cup {Owner} \cup Tasks

Callers == Clients \cup {Owner}
Threads == Workers \cup Callers

VARIABLES
  pc,          \* the next step of each thread
  phase,       \* where the owner is in the pool's life
  started,     \* m_workerThreads
  active,      \* m_activeThreadCount
  isShutdown,  \* m_isShutdown
  mutex,       \* the thread holding m_taskQueue->mutex
  queue,       \* m_taskQueue->queue
  wrapper,     \* the task a SubmitTask in progress has wrapped
  hand,        \* the task a worker has fetched
  future,      \* the shared state of each task's future
  runs,        \* how often each task was called
  accepted     \* history: the tasks queued when m_isShutdown was set

vars == <<pc, phase, started, active, isShutdown, mutex, queue, wrapper, hand,
          future, runs, accepted>>

-----------------------------------------------------------------------------
SubmitLabels   == {"sub_lock", "sub_push", "sub_notify"}
ShutdownLabels == {"sd_cas", "sd_notify", "sd_join"}
FetchLabels    == {"f_lock", "f_pred", "f_block", "asleep", "wake_lock", "f_take"}
WorkerLabels   == {"unborn", "w_start", "body", "w_end", "exited"}
Labels == SubmitLabels \cup ShutdownLabels \cup FetchLabels \cup WorkerLabels
            \cup {"construct", "idle", "left", "destroy", "gone"}

(* The labels at which a thread holds the mutex.                           *)
MutexHeld == {"sub_push", "f_pred", "f_block", "f_take"}

Init ==
  /\ pc = [th \in Threads |-> IF th \in Workers THEN "unborn"
                              ELSE IF th = Owner THEN "construct" ELSE "idle"]
  /\ phase = "construct"
  /\ started = {} /\ active = 0
  /\ isShutdown = FALSE
  /\ mutex = Nil
  /\ queue = <<>>
  /\ wrapper = [th \in Threads |-> Nil]
  /\ hand = [w \in Workers |-> Nil]
  /\ future = [t \in Tasks |-> "none"]
  /\ runs = [t \in Tasks |-> 0]
  /\ accepted = {}

Goto(th, l) == pc' = [pc EXCEPT ![th] = l]

Queued == {queue[i] : i \in 1 .. Len(queue)}

Sleepers == {w \in Workers : pc[w] = "asleep"}

(* A call of std::condition_variable::notify_one by th, which then goes on *)
(* at l: one sleeper wakes, if there is one.                               *)
notify_one(th, l) ==
  \/ Sleepers = {} /\ Goto(th, l)
  \/ \E w \in Sleepers : pc' = [pc EXCEPT ![w] = "wake_lock", ![th] = l]

notify_all(th, l) ==
  pc' = [x \in Threads |-> IF x = th THEN l
                           ELSE IF x \in Sleepers THEN "wake_lock" ELSE pc[x]]

-----------------------------------------------------------------------------
(* The constructor.                                                        *)

emplace_back(w) ==
  /\ pc[Owner] = "construct" /\ pc[w] = "unborn"
  /\ started' = started \cup {w}
  /\ Goto(w, "w_start")
  /\ UNCHANGED <<phase, active, isShutdown, mutex, queue, wrapper, hand, future,
                 runs, accepted>>

constructed ==
  /\ pc[Owner] = "construct" /\ started = Workers
  /\ phase' = "up"
  /\ Goto(Owner, "idle")
  /\ UNCHANGED <<started, active, isShutdown, mutex, queue, wrapper, hand, future,
                 runs, accepted>>

(* emplace_back throws: Shutdown, then the exception leaves the            *)
(* constructor and the members are destroyed.                              *)
emplace_back_throws ==
  /\ pc[Owner] = "construct" /\ started # Workers
  /\ phase' = "unwind"
  /\ Goto(Owner, "sd_cas")
  /\ UNCHANGED <<started, active, isShutdown, mutex, queue, wrapper, hand, future,
                 runs, accepted>>

-----------------------------------------------------------------------------
(* SubmitTask.  It may be called by the owner, the clients and a task.     *)

MayCall(th) ==
  \/ th \in Callers /\ pc[th] = "idle" /\ phase = "up"
  \/ th \in Workers /\ pc[th] = "body"

Resume(th) == IF th \in Workers THEN "body" ELSE "idle"

(* The flag is read before the mutex is taken.  A refused call throws      *)
(* std::runtime_error and changes nothing.                                 *)
SubmitTask(th, t) ==
  /\ MayCall(th)
  /\ ~isShutdown
  /\ future[t] = "none"
  /\ future' = [future EXCEPT ![t] = "pending"]
  /\ wrapper' = [wrapper EXCEPT ![th] = t]
  /\ Goto(th, "sub_lock")
  /\ UNCHANGED <<phase, started, active, isShutdown, mutex, queue, hand, runs,
                 accepted>>

submit_lock(th) ==
  /\ pc[th] = "sub_lock"
  /\ mutex = Nil /\ mutex' = th
  /\ Goto(th, "sub_push")
  /\ UNCHANGED <<phase, started, active, isShutdown, queue, wrapper, hand, future,
                 runs, accepted>>

submit_emplace(th) ==
  /\ pc[th] = "sub_push"
  /\ queue' = Append(queue, wrapper[th])
  /\ wrapper' = [wrapper EXCEPT ![th] = Nil]
  /\ mutex' = Nil
  /\ Goto(th, "sub_notify")
  /\ UNCHANGED <<phase, started, active, isShutdown, hand, future, runs, accepted>>

(* Mutant: nobody is notified.                                             *)
submit_silent(th) ==
  /\ pc[th] = "sub_notify"
  /\ Goto(th, Resume(th))
  /\ UNCHANGED <<phase, started, active, isShutdown, mutex, queue, wrapper, hand,
                 future, runs, accepted>>

submit_notify(th) ==
  /\ pc[th] = "sub_notify"
  /\ notify_one(th, Resume(th))
  /\ UNCHANGED <<phase, started, active, isShutdown, mutex, queue, wrapper, hand,
                 future, runs, accepted>>

-----------------------------------------------------------------------------
(* WorkerThreadProc and FetchTask.                                         *)

worker_start(w) ==
  /\ pc[w] = "w_start"
  /\ active' = active + 1
  /\ Goto(w, "f_lock")
  /\ UNCHANGED <<phase, started, isShutdown, mutex, queue, wrapper, hand, future,
                 runs, accepted>>

(* The unique_lock, or the one condition.wait takes back when it wakes.    *)
fetch_lock(w) ==
  /\ pc[w] \in {"f_lock", "wake_lock"}
  /\ mutex = Nil /\ mutex' = w
  /\ Goto(w, "f_pred")
  /\ UNCHANGED <<phase, started, active, isShutdown, queue, wrapper, hand, future,
                 runs, accepted>>

(* The predicate of condition.wait.                                        *)
fetch_predicate(w) ==
  /\ pc[w] = "f_pred"
  /\ Goto(w, IF queue # <<>> \/ isShutdown THEN "f_take" ELSE "f_block")
  /\ UNCHANGED <<phase, started, active, isShutdown, mutex, queue, wrapper, hand,
                 future, runs, accepted>>

(* The predicate was false: the mutex is released and the worker sleeps.   *)
fetch_block(w) ==
  /\ pc[w] = "f_block"
  /\ mutex' = Nil
  /\ Goto(w, "asleep")
  /\ UNCHANGED <<phase, started, active, isShutdown, queue, wrapper, hand, future,
                 runs, accepted>>

spurious_wakeup(w) ==
  /\ pc[w] = "asleep"
  /\ Goto(w, "wake_lock")
  /\ UNCHANGED <<phase, started, active, isShutdown, mutex, queue, wrapper, hand,
                 future, runs, accepted>>

(* Mutant: a worker leaves on shutdown with tasks still queued.            *)
fetch_null_early(w) ==
  /\ pc[w] = "f_take" /\ isShutdown
  /\ mutex' = Nil
  /\ Goto(w, "w_end")
  /\ UNCHANGED <<phase, started, active, isShutdown, queue, wrapper, hand, future,
                 runs, accepted>>

fetch_null(w) ==
  /\ pc[w] = "f_take" /\ isShutdown /\ queue = <<>>
  /\ mutex' = Nil
  /\ Goto(w, "w_end")
  /\ UNCHANGED <<phase, started, active, isShutdown, queue, wrapper, hand, future,
                 runs, accepted>>

(* Mutant: the front of the queue is copied and not popped.                *)
fetch_task_keeps(w) ==
  /\ pc[w] = "f_take" /\ queue # <<>>
  /\ hand' = [hand EXCEPT ![w] = Head(queue)]
  /\ mutex' = Nil
  /\ Goto(w, "body")
  /\ UNCHANGED <<phase, started, active, isShutdown, queue, wrapper, future, runs,
                 accepted>>

fetch_task(w) ==
  /\ pc[w] = "f_take" /\ queue # <<>>
  /\ hand' = [hand EXCEPT ![w] = Head(queue)]
  /\ queue' = Tail(queue)
  /\ mutex' = Nil
  /\ Goto(w, "body")
  /\ UNCHANGED <<phase, started, active, isShutdown, wrapper, future, runs,
                 accepted>>

(* task() returns: the packaged_task has stored the result or the          *)
(* exception in the future, so the handlers of WorkerThreadProc see none.  *)
task_returns(w, outcome) ==
  /\ pc[w] = "body"
  /\ future' = [future EXCEPT ![hand[w]] = outcome]
  /\ runs' = [runs EXCEPT ![hand[w]] = @ + 1]
  /\ hand' = [hand EXCEPT ![w] = Nil]
  /\ Goto(w, "f_lock")
  /\ UNCHANGED <<phase, started, active, isShutdown, mutex, queue, wrapper, accepted>>

worker_end(w) ==
  /\ pc[w] = "w_end"
  /\ active' = active - 1
  /\ Goto(w, "exited")
  /\ UNCHANGED <<phase, started, isShutdown, mutex, queue, wrapper, hand, future,
                 runs, accepted>>

-----------------------------------------------------------------------------
(* Shutdown, called by the owner, by clients, by the destructor and by a   *)
(* constructor that failed.                                                *)

Shutdown(th) ==
  /\ th \in Callers /\ pc[th] = "idle" /\ phase = "up"
  /\ Goto(th, "sd_cas")
  /\ UNCHANGED <<phase, started, active, isShutdown, mutex, queue, wrapper, hand,
                 future, runs, accepted>>

AfterShutdown(th) ==
  IF th = Owner /\ phase \in {"unwind", "dtor"} THEN "destroy" ELSE "idle"

shutdown_won(th) ==
  /\ pc[th] = "sd_cas" /\ ~isShutdown
  /\ isShutdown' = TRUE
  /\ accepted' = Queued
  /\ Goto(th, "sd_notify")
  /\ UNCHANGED <<phase, started, active, mutex, queue, wrapper, hand, future, runs>>

shutdown_lost(th) ==
  /\ pc[th] = "sd_cas" /\ isShutdown
  /\ Goto(th, AfterShutdown(th))
  /\ UNCHANGED <<phase, started, active, isShutdown, mutex, queue, wrapper, hand,
                 future, runs, accepted>>

shutdown_notify(th) ==
  /\ pc[th] = "sd_notify"
  /\ notify_all(th, "sd_join")
  /\ UNCHANGED <<phase, started, active, isShutdown, mutex, queue, wrapper, hand,
                 future, runs, accepted>>

(* Mutant: the threads are not joined.                                     *)
shutdown_detach(th) ==
  /\ pc[th] = "sd_join"
  /\ Goto(th, AfterShutdown(th))
  /\ UNCHANGED <<phase, started, active, isShutdown, mutex, queue, wrapper, hand,
                 future, runs, accepted>>

shutdown_join(th) ==
  /\ pc[th] = "sd_join"
  /\ \A w \in started : pc[w] = "exited"
  /\ Goto(th, AfterShutdown(th))
  /\ UNCHANGED <<phase, started, active, isShutdown, mutex, queue, wrapper, hand,
                 future, runs, accepted>>

-----------------------------------------------------------------------------
(* The destructor.  Nobody may be inside a member function any more.       *)

client_leaves(c) ==
  /\ pc[c] = "idle" /\ phase = "up"
  /\ Goto(c, "left")
  /\ UNCHANGED <<phase, started, active, isShutdown, mutex, queue, wrapper, hand,
                 future, runs, accepted>>

destructor ==
  /\ pc[Owner] = "idle" /\ phase = "up"
  /\ \A c \in Clients : pc[c] = "left"
  /\ phase' = "dtor"
  /\ Goto(Owner, "sd_cas")
  /\ UNCHANGED <<started, active, isShutdown, mutex, queue, wrapper, hand, future,
                 runs, accepted>>

(* The members are destroyed; a task still queued breaks its promise.      *)
destroy_members ==
  /\ pc[Owner] = "destroy"
  /\ future' = [t \in Tasks |-> IF t \in Queued THEN "broken" ELSE future[t]]
  /\ queue' = <<>>
  /\ phase' = "gone"
  /\ Goto(Owner, "gone")
  /\ UNCHANGED <<started, active, isShutdown, mutex, wrapper, hand, runs, accepted>>

-----------------------------------------------------------------------------
CallNext ==
  \/ \E th \in Threads, t \in Tasks : SubmitTask(th, t)
  \/ \E th \in Callers : Shutdown(th)
  \/ \E c \in Clients : client_leaves(c)
  \/ destructor

SubmitNext(th)   == submit_lock(th) \/ submit_emplace(th) \/ submit_notify(th)
ShutdownNext(th) == \/ shutdown_won(th) \/ shutdown_lost(th)
                    \/ shutdown_notify(th) \/ shutdown_join(th)
WorkerNext(w) ==
  \/ worker_start(w) \/ fetch_lock(w) \/ fetch_predicate(w) \/ fetch_block(w)
  \/ fetch_null(w) \/ fetch_task(w) \/ worker_end(w)
  \/ \E outcome \in {"ready", "error"} : task_returns(w, outcome)
OwnerNext == \/ \E w \in Workers : emplace_back(w)
             \/ constructed \/ emplace_back_throws \/ destroy_members

Finished == pc[Owner] = "gone" /\ UNCHANGED vars

Next ==
  \/ CallNext
  \/ \E th \in Threads : SubmitNext(th)
  \/ \E th \in Callers : ShutdownNext(th)
  \/ \E w \in Workers : WorkerNext(w) \/ spurious_wakeup(w)
  \/ OwnerNext
  \/ Finished

Spec == Init /\ [][Next]_vars

(* Threads inside the pool keep running, get a mutex that is free again    *)
(* and again, and tasks return; nobody must call anything, and nobody      *)
(* wakes without a notification.                                           *)
Fairness ==
  /\ \A w \in Workers : SF_vars(WorkerNext(w))
  /\ \A th \in Threads : SF_vars(SubmitNext(th))
  /\ \A th \in Callers : WF_vars(ShutdownNext(th))
  /\ WF_vars(OwnerNext)

FairSpec == Spec /\ Fairness

-----------------------------------------------------------------------------
TypeOK ==
  /\ pc \in [Threads -> Labels]
  /\ phase \in {"construct", "unwind", "up", "dtor", "gone"}
  /\ started \subseteq Workers
  /\ active \in Nat
  /\ isShutdown \in BOOLEAN
  /\ mutex \in Threads \cup {Nil}
  /\ queue \in Seq(Tasks)
  /\ wrapper \in [Threads -> Tasks \cup {Nil}]
  /\ hand \in [Workers -> Tasks \cup {Nil}]
  /\ future \in [Tasks -> {"none", "pending", "ready", "error", "broken"}]
  /\ runs \in [Tasks -> Nat]
  /\ accepted \subseteq Tasks

(* A task whose future SubmitTask has created is, until its result is      *)
(* stored, in exactly one place: with the submitter, in the queue once, or *)
(* with one worker; it runs once, and its future is ready exactly then.    *)
Holders(t) == {th \in Threads : wrapper[th] = t} \cup {w \in Workers : hand[w] = t}
Copies(t)  == {i \in 1 .. Len(queue) : queue[i] = t}
OneRun ==
  \A t \in Tasks :
    /\ Cardinality(Holders(t)) + Cardinality(Copies(t))
         = IF future[t] = "pending" THEN 1 ELSE 0
    /\ runs[t] = IF future[t] \in {"ready", "error"} THEN 1 ELSE 0

(* Shutdown waits for the tasks submitted before it: when a worker has     *)
(* left its loop no such task is queued, and when the joins are over all   *)
(* of them have their result.                                              *)
AllExited == \A w \in started : pc[w] = "exited"
AcceptedDone ==
  /\ (\E w \in Workers : pc[w] \in {"w_end", "exited"}) => accepted \cap Queued = {}
  /\ isShutdown /\ started # {} /\ AllExited =>
       \A t \in accepted : future[t] \in {"ready", "error"}

(* The destructor frees nothing that is in use: when the members are       *)
(* destroyed every worker has exited, nobody holds or waits for the mutex  *)
(* and no other call is in progress.                                       *)
DestroyedAlone ==
  pc[Owner] \in {"destroy", "gone"} =>
    /\ mutex = Nil /\ AllExited
    /\ \A c \in Clients : pc[c] \in {"idle", "left"}

(* A task in the queue of a pool that is not shut down gets its result:    *)
(* SubmitTask notifies a worker that cannot miss it.                       *)
SubmittedRuns ==
  \A t \in Tasks : t \in Queued ~> (isShutdown \/ future[t] \in {"ready", "error"})

(* Shutdown, and the destructor with it, waits for all threads to exit and *)
(* returns.                                                                *)
ShutdownReturns ==
  \A th \in Callers : pc[th] = "sd_join" ~> pc[th] # "sd_join"

(* Shutdown stops accepting tasks and waits for those submitted: once it   *)
(* has returned to the caller that performed it, nothing is queued.        *)
ShutdownDrains ==
  isShutdown /\ started # {} /\ AllExited => queue = <<>>

-----------------------------------------------------------------------------
(* What the pool promises about tasks.                                     *)
JobState ==
  [t \in Tasks |->
     IF runs[t] > 0 THEN "finished"
     ELSE IF future[t] = "broken" THEN "discarded"
     ELSE IF t \in Queued THEN "queued"
     ELSE IF \E w \in Workers : hand[w] = t THEN "started" ELSE "new"]

Pool == INSTANCE JobPool
          WITH Jobs <- Tasks, MaxWorkers <- Cardinality(Workers),
               job <- JobState, closed <- isShutdown

(* The C++ pool implements JobPool: a submitted task is fetched by one     *)
(* worker and called once, or its promise is broken by a pool that was     *)
(* shut down.                                                              *)
ImplementsJobPool == Pool!Spec

=============================================================================
