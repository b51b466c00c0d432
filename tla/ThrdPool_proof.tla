--------------------------- MODULE ThrdPool_proof ---------------------------
(***************************************************************************)
(* Proofs about ThrdPool for any number of workers, clients and tasks.     *)
(***************************************************************************)
EXTENDS ThrdPool, FiniteSetTheorems, TLAPS

(* At these labels a thread's local `task` points to a task.               *)
HandOK ==
  \A th \in Threads :
    pc[th] \in {"add_lock", "add_link", "add_tail", "pop_tail", "run",
                "drain_free"} => hand[th] \in Tasks

TInv == TypeOK /\ HandOK /\ LocksHeld

(* Every step of thrdpool_create leads to a label of the owner at which no *)
(* lock is held.                                                           *)
LEMMA CreateTargets ==
  /\ \A l \in DOMAIN CreateStep :
       /\ l \in CreateLabels
       /\ CreateStep[l].res \in Resources
       /\ CreateStep[l].ok \in CreateLabels
       /\ CreateStep[l].fail \in CreateLabels \cup {"gone", "pop_lock"}
  /\ \A l \in DOMAIN UndoStep :
       /\ l \in CreateLabels
       /\ UndoStep[l].res \in Resources
       /\ UndoStep[l].next \in CreateLabels \cup {"gone"}
BY DEF CreateStep, UndoStep, Resources, CreateLabels

LEMMA TInit == Init => TInv
BY ThreadsAssumption, CellsAssumption
DEF Init, TInv, TypeOK, HandOK, LocksHeld, Labels, PostLabels, PopLabels,
    WaitLabels, TermLabels, WorkerLabels, OwnerLabels, CreateLabels, SpinHeld,
    MutexHeld, Threads, Posters, Cells, Resources

LEMMA TStep == TInv /\ [Next]_vars => TInv'
<1> SUFFICES ASSUME TInv, [Next]_vars PROVE TInv'
  OBVIOUS
<1> USE ThreadsAssumption, CellsAssumption
    DEF TInv, TypeOK, HandOK, LocksHeld, Goto, Labels, PostLabels, PopLabels,
        WaitLabels, TermLabels, WorkerLabels, OwnerLabels, CreateLabels,
        SpinHeld, MutexHeld, Threads, Posters, Cells, Resources, lifeVars,
        flagVars, listVars, spinlock_lock, spinlock_unlock, mutex_lock,
        mutex_unlock
<1>1. ASSUME NEW l \in DOMAIN CreateStep, Acquire(l) PROVE TInv'
  <2>1. live' \subseteq Resources
    BY <1>1, CreateTargets DEF Acquire
  <2>2. QED
    BY <1>1, <2>1, CreateTargets DEF Acquire
<1>2. ASSUME NEW l \in DOMAIN CreateStep, AcquireFails(l) PROVE TInv'
  BY <1>2, CreateTargets DEF AcquireFails
<1>3. ASSUME NEW l \in DOMAIN UndoStep, Undo(l) PROVE TInv'
  <2>1. live' \subseteq Resources /\ phase' \in {phase, "failed"}
    BY <1>3 DEF Undo
  <2>2. QED
    BY <1>3, <2>1, CreateTargets DEF Undo
<1>4. ASSUME NEW w \in Workers, pthread_create(w) PROVE TInv'
  BY <1>4 DEF pthread_create
<1>5. ASSUME threads_created PROVE TInv'
  BY <1>5 DEF threads_created
<1>6. ASSUME pthread_create_fails PROVE TInv'
  BY <1>6 DEF pthread_create_fails
<1>7. ASSUME NEW th \in Threads, NEW t \in Tasks, thrdpool_post(th, t) PROVE TInv'
  BY <1>7 DEF thrdpool_post, MayCall
<1>8. ASSUME NEW th \in Threads, add_lock(th) PROVE TInv'
  BY <1>8 DEF add_lock
<1>9. ASSUME NEW th \in Threads, add_link(th) PROVE TInv'
  <2>1. hand[th] \in Tasks
    BY <1>9 DEF add_link
  <2>2. order' \in Seq(Tasks)
    BY <1>9, <2>1 DEF add_link
  <2>3. link' \in [Cells -> Tasks \cup {Nil}]
    BY <1>9, <2>1 DEF add_link
  <2>4. QED
    BY <1>9, <2>2, <2>3 DEF add_link
<1>10. ASSUME NEW th \in Threads, add_tail(th) PROVE TInv'
  BY <1>10 DEF add_tail
<1>11. ASSUME NEW th \in Threads, add_unlock(th) PROVE TInv'
  BY <1>11 DEF add_unlock
<1>12. ASSUME NEW th \in Threads, add_signal(th) PROVE TInv'
  <2>1. CASE Sleepers = {} /\ Goto(th, Resume(th))
    BY <1>12, <2>1 DEF add_signal, Resume
  <2>2. ASSUME NEW w \in Sleepers,
               pc' = [pc EXCEPT ![w] = "wake_lock", ![th] = Resume(th)]
        PROVE  TInv'
    BY <1>12, <2>2 DEF add_signal, Sleepers, Resume
  <2>3. QED
    BY <1>12, <2>1, <2>2 DEF add_signal
<1>13. ASSUME NEW th \in Threads, pop_lock(th) PROVE TInv'
  BY <1>13 DEF pop_lock
<1>14. ASSUME NEW th \in Threads, pop_empty(th) PROVE TInv'
  BY <1>14 DEF pop_empty
<1>15. ASSUME NEW th \in Threads, pop_head(th) PROVE TInv'
  <2>1. link[HeadCell] \in Tasks
    BY <1>15 DEF pop_head
  <2>2. hand' \in [Threads -> Tasks \cup {Nil}]
    BY <1>15, <2>1 DEF pop_head
  <2>3. link' \in [Cells -> Tasks \cup {Nil}]
    BY <1>15, <2>1 DEF pop_head
  <2>4. QED
    BY <1>15, <2>2, <2>3 DEF pop_head
<1>16. ASSUME NEW th \in Threads, pop_tail(th) PROVE TInv'
  BY <1>16 DEF pop_tail
<1>17. ASSUME NEW th \in Threads, pop_unlock(th) PROVE TInv'
  BY <1>17 DEF pop_unlock, AfterPop
<1>18. ASSUME NEW th \in Threads, thrdpool_terminate(th) PROVE TInv'
  BY <1>18 DEF thrdpool_terminate, MayCall
<1>19. ASSUME NEW th \in Threads, terminate_quit(th) PROVE TInv'
  BY <1>19 DEF terminate_quit
<1>20. ASSUME NEW th \in Threads, nonblock_lock(th) PROVE TInv'
  BY <1>20 DEF nonblock_lock
<1>21. ASSUME NEW th \in Threads, nonblock_store(th) PROVE TInv'
  BY <1>21 DEF nonblock_store
<1>22. ASSUME NEW th \in Threads, nonblock_broadcast(th) PROVE TInv'
  BY <1>22 DEF nonblock_broadcast, Sleepers, AfterTerminate, Resume
<1>23. ASSUME NEW w \in Workers, wait_lock(w) PROVE TInv'
  BY <1>23 DEF wait_lock
<1>24. ASSUME NEW w \in Workers, wait_refused(w) PROVE TInv'
  BY <1>24 DEF wait_refused
<1>25. ASSUME NEW w \in Workers, wait_check(w) PROVE TInv'
  BY <1>25 DEF wait_check
<1>26. ASSUME NEW w \in Workers, wait_sleep(w) PROVE TInv'
  BY <1>26 DEF wait_sleep
<1>27. ASSUME NEW w \in Workers, spurious_wakeup(w) PROVE TInv'
  BY <1>27 DEF spurious_wakeup
<1>28. ASSUME NEW w \in Workers, wake_lock(w) PROVE TInv'
  BY <1>28 DEF wake_lock
<1>29. ASSUME NEW w \in Workers, worker_quit(w) PROVE TInv'
  BY <1>29 DEF worker_quit
<1>30. ASSUME NEW w \in Workers, worker_run(w) PROVE TInv'
  <2>1. runs' \in [Tasks -> Nat]
    BY <1>30 DEF worker_run
  <2>2. heap' \in [Tasks -> {"unused", "alloc", "freed"}]
    BY <1>30 DEF worker_run
  <2>3. hand' \in [Threads -> Tasks \cup {Nil}]
    BY <1>30 DEF worker_run
  <2>4. QED
    BY <1>30, <2>1, <2>2, <2>3 DEF worker_run
<1>31. ASSUME NEW w \in Workers, task_returns(w) PROVE TInv'
  BY <1>31 DEF task_returns
<1>32. ASSUME NEW c \in Clients, client_leaves(c) PROVE TInv'
  BY <1>32 DEF client_leaves, MayCall
<1>33. ASSUME thrdpool_waitdone PROVE TInv'
  BY <1>33 DEF thrdpool_waitdone
<1>34. ASSUME join_threads PROVE TInv'
  BY <1>34 DEF join_threads
<1>35. ASSUME drain_free PROVE TInv'
  BY <1>35 DEF drain_free
<1>36. ASSUME taskqueue_destroy PROVE TInv'
  BY <1>36 DEF taskqueue_destroy
<1>37. CASE UNCHANGED vars
  BY <1>37 DEF vars
<1>38. QED
  BY <1>1, <1>2, <1>3, <1>4, <1>5, <1>6, <1>7, <1>8, <1>9, <1>10, <1>11, <1>12, <1>13, <1>14, <1>15, <1>16, <1>17, <1>18, <1>19, <1>20, <1>21, <1>22, <1>23, <1>24, <1>25, <1>26, <1>27, <1>28, <1>29, <1>30, <1>31, <1>32, <1>33, <1>34, <1>35, <1>36, <1>37
  DEF Next, CallNext, PoolNext, CreateNext, AddNext, PopNext, TerminateNext,
      WorkerNext, DestroyNext, Finished

-----------------------------------------------------------------------------
(* The list.  Tasks are linked in at most once, a task being posted is not *)
(* linked yet and its next pointer is NULL, and between the two writes of  *)
(* a critical section the task in hand is the last one linked or unlinked. *)

Linked(t) == \E i \in 1 .. Len(order) : order[i] = t

OrderOK ==
  /\ \A i, j \in 1 .. Len(order) : order[i] = order[j] => i = j
  /\ \A t \in Tasks : heap[t] = "unused" => ~Linked(t) /\ HeldByNone(t)

PostOK ==
  \A th \in Threads : pc[th] \in {"add_lock", "add_link"} =>
    /\ ~Linked(hand[th]) /\ link[hand[th]] = Nil
    /\ \A x \in Threads : hand[x] = hand[th] => x = th

HalfDoneOK ==
  \A th \in Threads :
    /\ pc[th] = "add_tail" => taken < Len(order) /\ hand[th] = order[Len(order)]
    /\ pc[th] = "pop_tail" => 0 < taken /\ hand[th] = order[taken]

LInv == OrderOK /\ PostOK /\ HalfDoneOK /\ ListIsQueue

ListLabels == {"add_lock", "add_link", "add_tail", "pop_tail"}

(* A step that leaves the list alone, takes no thread into or out of the   *)
(* middle of a list operation and allocates nothing.                       *)
LeavesList ==
  /\ UNCHANGED listVars
  /\ \A t \in Tasks : heap'[t] = "unused" => heap[t] = "unused"
  /\ \A th \in Threads :
       /\ hand'[th] \in {hand[th], Nil}
       /\ pc'[th] \in ListLabels => pc'[th] = pc[th] /\ hand'[th] = hand[th]
       /\ pc[th] \in {"add_tail", "pop_tail"} => pc'[th] = pc[th]

LEMMA ListFrame == TInv /\ LInv /\ LeavesList => LInv'
<1> SUFFICES ASSUME TInv, LInv, LeavesList PROVE LInv'
  OBVIOUS
<1>1. /\ UNCHANGED <<link, tail, order, taken>>
      /\ \A th \in Threads : pc'[th] \in ListLabels => pc'[th] = pc[th]
      /\ \A th \in Threads : pc'[th] \in ListLabels => hand'[th] = hand[th]
      /\ \A th \in Threads : hand'[th] = hand[th] \/ hand'[th] = Nil
  BY DEF LeavesList, listVars
<1>2. OrderOK'
  <2>1. \A t \in Tasks : heap'[t] = "unused" => heap[t] = "unused"
    BY DEF LeavesList
  <2>2. QED
    BY <1>1, <2>1, CellsAssumption DEF LInv, OrderOK, Linked, HeldByNone
<1>3. PostOK'
  BY <1>1, CellsAssumption DEF LInv, PostOK, Linked, ListLabels, TInv, HandOK
<1>4. HalfDoneOK'
  BY <1>1 DEF LInv, HalfDoneOK, ListLabels
<1>5. Adding' = Adding /\ Popping' = Popping
  BY DEF LeavesList, Adding, Popping, ListLabels
<1>6. ListIsQueue'
  BY <1>1, <1>5 DEF LInv, ListIsQueue, CellBefore
<1>7. QED
  BY <1>2, <1>3, <1>4, <1>6 DEF LInv

LEMMA LInit == Init => LInv
<1> SUFFICES ASSUME Init PROVE LInv
  OBVIOUS
<1>1. /\ Len(order) = 0 /\ taken = 0 /\ tail = HeadCell /\ link[HeadCell] = Nil
      /\ \A th \in Threads : hand[th] = Nil /\ pc[th] \in {"unborn", "c_pool", "idle"}
  BY DEF Init, Cells
<1>2. OrderOK /\ PostOK /\ HalfDoneOK
  BY <1>1, CellsAssumption DEF OrderOK, PostOK, HalfDoneOK, Linked, HeldByNone
<1>3. ListIsQueue
  BY <1>1 DEF ListIsQueue, CellBefore, Adding, Popping
<1>4. QED
  BY <1>2, <1>3 DEF LInv

(* The steps that work on the list.                                        *)

LEMMA PostKeepsList ==
  ASSUME TInv, LInv, NEW th \in Threads, NEW t \in Tasks, thrdpool_post(th, t)
  PROVE  LInv'
<1> USE CellsAssumption DEF thrdpool_post, Goto
<1>1. ~Linked(t) /\ HeldByNone(t)
  BY DEF LInv, OrderOK
<1>2. OrderOK'
  BY <1>1 DEF LInv, OrderOK, Linked, HeldByNone, TInv, TypeOK
<1>3. PostOK'
  BY <1>1 DEF LInv, PostOK, Linked, HeldByNone, TInv, TypeOK, HandOK, Cells
<1>4. HalfDoneOK'
  BY DEF LInv, HalfDoneOK, TInv, TypeOK
<1>5. Adding' = Adding /\ Popping' = Popping
  BY DEF Adding, Popping, TInv, TypeOK, MayCall
<1>6. ListIsQueue'
  <2>1. \A i \in taken .. Len(order) : CellBefore(i) # t /\ CellBefore(i) \in Cells
    BY <1>1 DEF CellBefore, Linked, TInv, TypeOK, Cells
  <2>2. QED
    BY <1>5, <2>1 DEF LInv, ListIsQueue, CellBefore, TInv, TypeOK
<1>7. QED
  BY <1>2, <1>3, <1>4, <1>6 DEF LInv

LEMMA AddLockKeepsList ==
  ASSUME TInv, LInv, NEW th \in Threads, add_lock(th) PROVE LInv'
<1> USE DEF add_lock, Goto, listVars
<1>1. OrderOK' /\ PostOK' /\ HalfDoneOK'
  BY DEF LInv, OrderOK, PostOK, HalfDoneOK, Linked, HeldByNone, TInv, TypeOK
<1>2. Adding' = Adding /\ Popping' = Popping
  BY DEF Adding, Popping, TInv, TypeOK
<1>3. ListIsQueue'
  BY <1>2 DEF LInv, ListIsQueue, CellBefore
<1>4. QED
  BY <1>1, <1>3 DEF LInv

(* Only the holder of the spinlock can be in the middle of a list          *)
(* operation.                                                              *)
LEMMA Alone ==
  ASSUME TInv, NEW th \in Threads, pc[th] \in SpinHeld
  PROVE  \A x \in Threads : pc[x] \in SpinHeld => x = th
BY DEF TInv, LocksHeld

LEMMA AddLinkKeepsList ==
  ASSUME TInv, LInv, NEW th \in Threads, add_link(th) PROVE LInv'
<1> DEFINE t == hand[th]
<1> USE CellsAssumption
<1>0. PICK n \in Nat : n = Len(order)
  BY DEF TInv, TypeOK
<1>1. /\ pc[th] = "add_link" /\ pc' = [pc EXCEPT ![th] = "add_tail"]
      /\ link' = [link EXCEPT ![tail] = t] /\ order' = Append(order, t)
      /\ UNCHANGED <<hand, tail, taken, heap>>
  BY DEF add_link, Goto
<1>2. /\ t \in Tasks /\ ~Linked(t) /\ link[t] = Nil
      /\ \A x \in Threads : hand[x] = t => x = th
  BY <1>1 DEF LInv, PostOK, TInv, HandOK
<1>3. /\ Len(order') = n + 1 /\ Len(order) = n /\ order'[n + 1] = t
      /\ \A i \in 1 .. n : order'[i] = order[i] /\ order[i] \in Tasks
  BY <1>0, <1>1, <1>2 DEF TInv, TypeOK
<1>4. ~Adding /\ ~Popping
  BY <1>1, Alone DEF Adding, Popping, SpinHeld
<1>5. tail = CellBefore(n) /\ taken <= n /\ taken \in Nat
  BY <1>3, <1>4 DEF LInv, ListIsQueue, TInv, TypeOK
<1>6. OrderOK'
  <2>1. \A i, j \in 1 .. Len(order') : order'[i] = order'[j] => i = j
    BY <1>2, <1>3 DEF LInv, OrderOK, Linked
  <2>2. ASSUME NEW u \in Tasks, heap'[u] = "unused"
        PROVE  ~Linked(u)' /\ HeldByNone(u)'
    <3>1. u # t /\ ~Linked(u) /\ HeldByNone(u)
      BY <1>1, <2>2 DEF LInv, OrderOK, HeldByNone
    <3>2. QED
      BY <1>1, <1>3, <3>1 DEF Linked, HeldByNone
  <2>3. QED
    BY <2>1, <2>2 DEF OrderOK
<1>7. PostOK'
  <2> SUFFICES ASSUME NEW x \in Threads, pc'[x] \in {"add_lock", "add_link"}
               PROVE  /\ ~Linked(hand[x])' /\ link'[hand[x]] = Nil
                      /\ \A y \in Threads : hand[y] = hand[x] => y = x
    BY <1>1 DEF PostOK
  <2>1. x # th /\ pc[x] = pc'[x]
    BY <1>1 DEF TInv, TypeOK
  <2>2. /\ hand[x] \in Tasks /\ ~Linked(hand[x]) /\ link[hand[x]] = Nil
        /\ \A y \in Threads : hand[y] = hand[x] => y = x
    BY <2>1 DEF LInv, PostOK, TInv, HandOK
  <2>3. hand[x] # t
    BY <2>1, <2>2
  <2>4. hand[x] # tail
    BY <1>3, <1>5, <2>2 DEF CellBefore, Linked
  <2>5. link'[hand[x]] = Nil
    BY <1>1, <2>2, <2>4 DEF TInv, TypeOK, Cells
  <2>6. ~Linked(hand[x])'
    BY <1>1, <1>3, <2>2, <2>3 DEF Linked
  <2>7. QED
    BY <2>2, <2>5, <2>6
<1>8. HalfDoneOK'
  <2>1. \A x \in Threads : pc'[x] \in {"add_tail", "pop_tail"} => x = th
    BY <1>1, Alone DEF SpinHeld, TInv, TypeOK
  <2>2. pc'[th] = "add_tail"
    BY <1>1 DEF TInv, TypeOK
  <2>3. QED
    BY <1>1, <1>3, <1>5, <2>1, <2>2 DEF HalfDoneOK
<1>9. Adding'
  BY <1>1 DEF Adding, TInv, TypeOK
<1>10. ListIsQueue'
  <2>1. \A i \in taken .. n : CellBefore(i)' = CellBefore(i)
    BY <1>1, <1>3, <1>5 DEF CellBefore
  <2>2. ASSUME NEW i \in taken .. n
        PROVE  link'[CellBefore(i)] = order'[i + 1]
    <3>1. CASE i = n
      BY <1>1, <1>3, <1>5, <3>1 DEF TInv, TypeOK
    <3>2. CASE i < n
      <4>1. CellBefore(i) # tail
        BY <1>3, <1>5, <3>2 DEF CellBefore, LInv, OrderOK
      <4>2. link[CellBefore(i)] = order[i + 1]
        BY <1>3, <1>5, <3>2 DEF LInv, ListIsQueue
      <4>3. CellBefore(i) \in Cells
        BY <1>3, <1>5, <3>2 DEF CellBefore, Cells
      <4>4. QED
        BY <1>1, <1>3, <1>5, <3>2, <4>1, <4>2, <4>3 DEF TInv, TypeOK
    <3>3. QED
      BY <1>3, <1>5, <3>1, <3>2
  <2>3. CellBefore(n + 1)' = t
    BY <1>1, <1>3, <1>5 DEF CellBefore
  <2>4. link'[t] = Nil
    <3>1. t # tail
      BY <1>2, <1>3, <1>5 DEF CellBefore, Linked
    <3>2. QED
      BY <1>1, <1>2, <3>1 DEF TInv, TypeOK, Cells
  <2>5. taken' <= Len(order') /\ (Len(order') - 1) = n /\ Len(order') = n + 1
    BY <1>1, <1>3, <1>5
  <2>6. tail' = CellBefore(n)'
    BY <1>1, <1>5, <2>1
  <2>7. \A i \in taken' .. Len(order') :
          link'[CellBefore(i)'] = IF i = Len(order') THEN Nil ELSE order'[i + 1]
    BY <1>1, <1>3, <1>5, <2>1, <2>2, <2>3, <2>4
  <2>8. QED
    BY <1>9, <2>5, <2>6, <2>7 DEF ListIsQueue
<1>11. QED
  BY <1>6, <1>7, <1>8, <1>10 DEF LInv

LEMMA AddTailKeepsList ==
  ASSUME TInv, LInv, NEW th \in Threads, add_tail(th) PROVE LInv'
<1> USE CellsAssumption
<1>1. /\ pc[th] = "add_tail" /\ pc' = [pc EXCEPT ![th] = "add_unlock"]
      /\ tail' = hand[th] /\ hand' = [hand EXCEPT ![th] = Nil]
      /\ UNCHANGED <<link, order, taken, heap>>
  BY DEF add_tail, Goto
<1>2. /\ hand[th] = order[Len(order)] /\ taken < Len(order) /\ taken \in Nat
      /\ Len(order) \in Nat /\ hand[th] \in Tasks
  BY <1>1 DEF LInv, HalfDoneOK, TInv, TypeOK, HandOK
<1>3. \A x \in Threads : pc'[x] \in SpinHeld => x = th
  BY <1>1, Alone DEF SpinHeld, TInv, TypeOK
<1>4. OrderOK'
  BY <1>1 DEF LInv, OrderOK, Linked, HeldByNone, TInv, TypeOK
<1>5. PostOK'
  BY <1>1 DEF LInv, PostOK, Linked, TInv, TypeOK, HandOK
<1>6. HalfDoneOK' /\ ~Adding' /\ ~Popping'
  BY <1>1, <1>3 DEF HalfDoneOK, Adding, Popping, SpinHeld, TInv, TypeOK
<1>7. ListIsQueue'
  <2>1. tail' = CellBefore(Len(order))
    BY <1>1, <1>2 DEF CellBefore
  <2>2. QED
    BY <1>1, <1>6, <2>1 DEF LInv, ListIsQueue, CellBefore
<1>8. QED
  BY <1>4, <1>5, <1>6, <1>7 DEF LInv

LEMMA PopTailKeepsList ==
  ASSUME TInv, LInv, NEW th \in Threads, pop_tail(th) PROVE LInv'
<1> USE CellsAssumption
<1>1. /\ pc[th] = "pop_tail" /\ pc' = [pc EXCEPT ![th] = "pop_unlock"]
      /\ tail' = IF link[HeadCell] = Nil THEN HeadCell ELSE tail
      /\ UNCHANGED <<hand, link, order, taken, heap>>
  BY DEF pop_tail, Goto
<1>2. \A x \in Threads : pc'[x] \in SpinHeld => x = th
  BY <1>1, Alone DEF SpinHeld, TInv, TypeOK
<1>3. OrderOK' /\ PostOK'
  BY <1>1 DEF LInv, OrderOK, PostOK, Linked, HeldByNone, TInv, TypeOK
<1>4. HalfDoneOK' /\ ~Adding' /\ ~Popping'
  BY <1>1, <1>2 DEF HalfDoneOK, Adding, Popping, SpinHeld, TInv, TypeOK
<1>5. Popping /\ ~Adding
  BY <1>1, Alone DEF Adding, Popping, SpinHeld
<1>6. /\ taken \in Nat /\ Len(order) \in Nat /\ taken <= Len(order)
      /\ link[HeadCell] = IF taken = Len(order) THEN Nil ELSE order[taken + 1]
  BY DEF LInv, ListIsQueue, CellBefore, TInv, TypeOK
<1>7. link[HeadCell] = Nil <=> taken = Len(order)
  <2>1. taken < Len(order) => order[taken + 1] \in Tasks
    BY <1>6 DEF TInv, TypeOK
  <2>2. QED
    BY <1>6, <2>1
<1>8. tail' = CellBefore(Len(order))
  BY <1>1, <1>5, <1>6, <1>7 DEF LInv, ListIsQueue, CellBefore
<1>9. ListIsQueue'
  BY <1>1, <1>4, <1>8 DEF LInv, ListIsQueue, CellBefore
<1>10. QED
  BY <1>3, <1>4, <1>9 DEF LInv

(* The head of the list is the first task that was not taken yet.          *)
LEMMA HeadIsFirst ==
  ASSUME TInv, LInv, link[HeadCell] # Nil
  PROVE  /\ taken \in Nat /\ Len(order) \in Nat /\ taken < Len(order)
         /\ link[HeadCell] = order[taken + 1] /\ order[taken + 1] \in Tasks
<1>1. /\ taken \in Nat /\ Len(order) \in Nat /\ taken <= Len(order)
      /\ link[HeadCell] = IF taken = Len(order) THEN Nil ELSE order[taken + 1]
  BY DEF LInv, ListIsQueue, CellBefore, TInv, TypeOK
<1>2. QED
  BY <1>1 DEF TInv, TypeOK

LEMMA PopHeadKeepsList ==
  ASSUME TInv, LInv, NEW th \in Threads, pop_head(th) PROVE LInv'
<1> USE CellsAssumption
<1>0. PICK k \in Nat : k = taken
  BY DEF TInv, TypeOK
<1>1. /\ pc[th] = "pop_head" /\ pc' = [pc EXCEPT ![th] = "pop_tail"]
      /\ hand' = [hand EXCEPT ![th] = order[k + 1]]
      /\ link' = [link EXCEPT ![HeadCell] = link[order[k + 1]]]
      /\ taken' = k + 1 /\ UNCHANGED <<tail, order, heap>>
  BY <1>0, HeadIsFirst DEF pop_head, Goto
<1>2. /\ k < Len(order) /\ Len(order) \in Nat /\ order[k + 1] \in Tasks
  BY <1>0, HeadIsFirst DEF pop_head
<1>3. ~Adding /\ ~Popping
  BY <1>1, Alone DEF Adding, Popping, SpinHeld
<1>4. \A x \in Threads : pc'[x] \in SpinHeld => x = th
  BY <1>1, Alone DEF SpinHeld, TInv, TypeOK
<1>5. pc'[th] = "pop_tail" /\ hand'[th] = order[k + 1] /\ ~Adding' /\ Popping'
  BY <1>1, <1>4 DEF Adding, Popping, SpinHeld, TInv, TypeOK
<1>6. Linked(order[k + 1])
  BY <1>2 DEF Linked
<1>7. OrderOK'
  BY <1>1, <1>6 DEF LInv, OrderOK, Linked, HeldByNone, TInv, TypeOK
<1>8. PostOK'
  <2> SUFFICES ASSUME NEW x \in Threads, pc'[x] \in {"add_lock", "add_link"}
               PROVE  /\ ~Linked(hand[x])' /\ link'[hand'[x]] = Nil
                      /\ \A y \in Threads : hand'[y] = hand'[x] => y = x
    BY DEF PostOK
  <2>1. x # th /\ pc'[x] = pc[x] /\ hand'[x] = hand[x]
    BY <1>1, <1>5 DEF TInv, TypeOK
  <2>2. /\ hand[x] \in Tasks /\ ~Linked(hand[x]) /\ link[hand[x]] = Nil
        /\ \A y \in Threads : hand[y] = hand[x] => y = x
    BY <2>1 DEF LInv, PostOK, TInv, HandOK
  <2>3. ~Linked(hand[x])'
    BY <1>1, <2>1, <2>2 DEF Linked
  <2>4. link'[hand'[x]] = Nil
    BY <1>1, <2>1, <2>2 DEF TInv, TypeOK, Cells
  <2>5. \A y \in Threads : hand'[y] = hand'[x] => y = x
    BY <1>1, <1>6, <2>1, <2>2 DEF TInv, TypeOK
  <2>6. QED
    BY <2>3, <2>4, <2>5
<1>9. HalfDoneOK'
  BY <1>1, <1>2, <1>4, <1>5 DEF HalfDoneOK, SpinHeld
<1>10. ListIsQueue'
  <2>1. \A i \in k .. Len(order) :
          link[IF i = k THEN HeadCell ELSE order[i]]
            = IF i = Len(order) THEN Nil ELSE order[i + 1]
    BY <1>0 DEF LInv, ListIsQueue, CellBefore
  <2>2. tail = order[Len(order)]
    BY <1>0, <1>2, <1>3 DEF LInv, ListIsQueue, CellBefore
  <2>3. ASSUME NEW i \in (k + 1) .. Len(order)
        PROVE  link'[IF i = k + 1 THEN HeadCell ELSE order[i]]
                 = IF i = Len(order) THEN Nil ELSE order[i + 1]
    <3>1. order[i] \in Tasks
      BY <1>2 DEF TInv, TypeOK
    <3>2. link[order[i]] = IF i = Len(order) THEN Nil ELSE order[i + 1]
      BY <1>2, <2>1
    <3>3. QED
      BY <1>1, <3>1, <3>2 DEF TInv, TypeOK, Cells
  <2>4. tail' = IF taken' = Len(order') THEN order'[taken'] ELSE CellBefore(Len(order))'
    BY <1>1, <1>2, <2>2 DEF CellBefore
  <2>5. QED
    BY <1>1, <1>2, <1>5, <2>3, <2>4 DEF ListIsQueue, CellBefore
<1>11. QED
  BY <1>7, <1>8, <1>9, <1>10 DEF LInv

LEMMA LStep == TInv /\ LInv /\ [Next]_vars => LInv'
<1> SUFFICES ASSUME TInv, LInv, [Next]_vars PROVE LInv'
  OBVIOUS
<1>1. ASSUME NEW th \in Threads, NEW t \in Tasks, thrdpool_post(th, t) PROVE LInv'
  BY <1>1, PostKeepsList
<1>2. ASSUME NEW th \in Threads, add_lock(th) PROVE LInv'
  BY <1>2, AddLockKeepsList
<1>3. ASSUME NEW th \in Threads, add_link(th) PROVE LInv'
  BY <1>3, AddLinkKeepsList
<1>4. ASSUME NEW th \in Threads, add_tail(th) PROVE LInv'
  BY <1>4, AddTailKeepsList
<1>5. ASSUME NEW th \in Threads, pop_head(th) PROVE LInv'
  BY <1>5, PopHeadKeepsList
<1>6. ASSUME NEW th \in Threads, pop_tail(th) PROVE LInv'
  BY <1>6, PopTailKeepsList
<1>7. SUFFICES ASSUME ~\E th \in Threads :
                        \/ \E t \in Tasks : thrdpool_post(th, t)
                        \/ add_lock(th) \/ add_link(th) \/ add_tail(th)
                        \/ pop_head(th) \/ pop_tail(th)
               PROVE  LeavesList
  BY <1>1, <1>2, <1>3, <1>4, <1>5, <1>6, ListFrame
<1> USE ThreadsAssumption
    DEF LeavesList, ListLabels, TInv, TypeOK, Goto, lifeVars, flagVars, listVars,
        Threads, Posters
<1>8. ASSUME NEW l \in DOMAIN CreateStep, Acquire(l) PROVE LeavesList
  BY <1>8, CreateTargets DEF Acquire, CreateLabels
<1>9. ASSUME NEW l \in DOMAIN CreateStep, AcquireFails(l) PROVE LeavesList
  <2>1. /\ pc[Owner] = l /\ pc' = [pc EXCEPT ![Owner] = CreateStep[l].fail]
        /\ UNCHANGED <<hand, link, tail, order, taken, heap>>
    BY <1>9 DEF AcquireFails
  <2>2. l \notin ListLabels /\ CreateStep[l].fail \notin ListLabels
    BY CreateTargets DEF CreateLabels
  <2>3. QED
    BY <2>1, <2>2
<1>10. ASSUME NEW l \in DOMAIN UndoStep, Undo(l) PROVE LeavesList
  <2>1. /\ pc[Owner] = l /\ pc' = [pc EXCEPT ![Owner] = UndoStep[l].next]
        /\ UNCHANGED <<hand, link, tail, order, taken, heap>>
    BY <1>10 DEF Undo
  <2>2. l \notin ListLabels /\ UndoStep[l].next \notin ListLabels
    BY CreateTargets DEF CreateLabels
  <2>3. QED
    BY <2>1, <2>2
<1>11. ASSUME NEW w \in Workers, pthread_create(w) PROVE LeavesList
  BY <1>11 DEF pthread_create
<1>12. ASSUME threads_created PROVE LeavesList
  BY <1>12 DEF threads_created
<1>13. ASSUME pthread_create_fails PROVE LeavesList
  BY <1>13 DEF pthread_create_fails
<1>14. ASSUME NEW th \in Threads, add_unlock(th) PROVE LeavesList
  BY <1>14 DEF add_unlock
<1>15. ASSUME NEW th \in Threads, add_signal(th) PROVE LeavesList
  BY <1>15 DEF add_signal, Sleepers, Resume
<1>16. ASSUME NEW th \in Threads, pop_lock(th) PROVE LeavesList
  BY <1>16 DEF pop_lock
<1>17. ASSUME NEW th \in Threads, pop_empty(th) PROVE LeavesList
  BY <1>17 DEF pop_empty
<1>18. ASSUME NEW th \in Threads, pop_unlock(th) PROVE LeavesList
  BY <1>18 DEF pop_unlock, AfterPop
<1>19. ASSUME NEW th \in Threads, thrdpool_terminate(th) PROVE LeavesList
  BY <1>19 DEF thrdpool_terminate, MayCall
<1>20. ASSUME NEW th \in Threads, terminate_quit(th) PROVE LeavesList
  BY <1>20 DEF terminate_quit
<1>21. ASSUME NEW th \in Threads, nonblock_lock(th) PROVE LeavesList
  BY <1>21 DEF nonblock_lock
<1>22. ASSUME NEW th \in Threads, nonblock_store(th) PROVE LeavesList
  BY <1>22 DEF nonblock_store
<1>23. ASSUME NEW th \in Threads, nonblock_broadcast(th) PROVE LeavesList
  BY <1>23 DEF nonblock_broadcast, Sleepers, AfterTerminate, Resume
<1>24. ASSUME NEW w \in Workers, wait_lock(w) PROVE LeavesList
  BY <1>24 DEF wait_lock
<1>25. ASSUME NEW w \in Workers, wait_refused(w) PROVE LeavesList
  BY <1>25 DEF wait_refused
<1>26. ASSUME NEW w \in Workers, wait_check(w) PROVE LeavesList
  BY <1>26 DEF wait_check
<1>27. ASSUME NEW w \in Workers, wait_sleep(w) PROVE LeavesList
  BY <1>27 DEF wait_sleep
<1>28. ASSUME NEW w \in Workers, spurious_wakeup(w) PROVE LeavesList
  BY <1>28 DEF spurious_wakeup
<1>29. ASSUME NEW w \in Workers, wake_lock(w) PROVE LeavesList
  BY <1>29 DEF wake_lock
<1>30. ASSUME NEW w \in Workers, worker_quit(w) PROVE LeavesList
  BY <1>30 DEF worker_quit
<1>31. ASSUME NEW w \in Workers, worker_run(w) PROVE LeavesList
  BY <1>31 DEF worker_run
<1>32. ASSUME NEW w \in Workers, task_returns(w) PROVE LeavesList
  BY <1>32 DEF task_returns
<1>33. ASSUME NEW c \in Clients, client_leaves(c) PROVE LeavesList
  BY <1>33 DEF client_leaves, MayCall
<1>34. ASSUME thrdpool_waitdone PROVE LeavesList
  BY <1>34 DEF thrdpool_waitdone
<1>35. ASSUME join_threads PROVE LeavesList
  BY <1>35 DEF join_threads
<1>36. ASSUME drain_free PROVE LeavesList
  BY <1>36 DEF drain_free
<1>37. ASSUME taskqueue_destroy PROVE LeavesList
  BY <1>37 DEF taskqueue_destroy
<1>38. CASE UNCHANGED vars
  BY <1>38 DEF vars
<1>39. QED
  BY <1>7, <1>8, <1>9, <1>10, <1>11, <1>12, <1>13, <1>14, <1>15, <1>16,
     <1>17, <1>18, <1>19, <1>20, <1>21, <1>22, <1>23, <1>24, <1>25, <1>26,
     <1>27, <1>28, <1>29, <1>30, <1>31, <1>32, <1>33, <1>34, <1>35, <1>36,
     <1>37, <1>38
  DEF Next, CallNext, PoolNext, CreateNext, AddNext, PopNext, TerminateNext,
      WorkerNext, DestroyNext, Finished

-----------------------------------------------------------------------------
(* Type correctness of the model of thrd_pool.c.                           *)
THEOREM TypeCorrect == Spec => []TypeOK
<1>1. Spec => []TInv
  BY TInit, TStep, PTL DEF Spec
<1>2. TInv => TypeOK
  BY DEF TInv
<1>3. QED
  BY <1>1, <1>2, PTL

(* The spinlock and the mutex of thrd_pool.c exclude: whoever is inside a  *)
(* critical section is the holder of its lock.                             *)
THEOREM LocksExclude == Spec => []LocksHeld
<1>1. Spec => []TInv
  BY TInit, TStep, PTL DEF Spec
<1>2. TInv => LocksHeld
  BY DEF TInv
<1>3. QED
  BY <1>1, <1>2, PTL

(* The intrusive list of __add_task and __pop_task is a FIFO queue, for    *)
(* any number of threads and tasks.                                        *)
THEOREM ListCorrect == Spec => []ListIsQueue
<1>1. Init => TInv /\ LInv
  BY TInit, LInit
<1>2. (TInv /\ LInv) /\ [Next]_vars => (TInv /\ LInv)'
  BY TStep, LStep
<1>3. TInv /\ LInv => ListIsQueue
  BY DEF LInv
<1>4. QED
  BY <1>1, <1>2, <1>3, PTL DEF Spec

-----------------------------------------------------------------------------
(* The life of the pool: where the threads of each kind can be in each     *)
(* phase, what is allocated there, and that nothing is posted before       *)
(* thrdpool_create has returned the pool.                                  *)

Core == {"pool", "queue", "mutex", "cond"}
GrowLabels == {"c_pool", "c_queue", "c_mutex", "c_cond", "c_attr", "c_threads"}
UndoLabels == {"u_mutex", "u_queue", "u_pool"}
DrainLabels == PopLabels \cup {"drain_free", "destroy"}

PlaceOK ==
  /\ \A w \in Workers :
       /\ pc[w] \in WorkerLabels \cup PopLabels \cup WaitLabels \cup PostLabels
                      \cup TermLabels
       /\ pc[w] # "unborn" => w \in started
  /\ \A c \in Clients : pc[c] \in {"idle", "left"} \cup PostLabels \cup TermLabels

PhaseOK ==
  /\ phase = "creating" <=> pc[Owner] \in GrowLabels \cup {"spawn"}
  /\ phase = "up" => pc[Owner] \in {"idle"} \cup PostLabels \cup TermLabels
  /\ phase = "rollback" =>
       pc[Owner] \in TermLabels \cup UndoLabels \cup DrainLabels \cup {"join"}
  /\ phase = "waiting" => pc[Owner] \in DrainLabels \cup {"join"}
  /\ phase \in {"done", "failed"} <=> pc[Owner] = "gone"
  /\ phase \in {"creating", "rollback", "failed"} =>
       \A c \in Clients : pc[c] = "idle"
  /\ phase \in {"waiting", "done"} => \A c \in Clients : pc[c] = "left"

JoinedOK ==
  /\ Draining => \A w \in started : pc[w] = "exited"
  /\ pc[Owner] \in GrowLabels \cup UndoLabels => started = {}

LiveOK ==
  /\ pc[Owner] = "c_pool" => live = {}
  /\ pc[Owner] \in {"c_queue", "u_pool"} => live = {"pool"}
  /\ pc[Owner] \in {"c_mutex", "u_queue"} => live = {"pool", "queue"}
  /\ pc[Owner] \in {"c_cond", "u_mutex"} => live = {"pool", "queue", "mutex"}
  /\ pc[Owner] = "c_attr" => live = Core
  /\ pc[Owner] = "c_threads" => live = Core \cup {"attr"}
  /\ pc[Owner] = "spawn" => live = Resources
  /\ \/ phase \in {"up", "waiting"}
     \/ phase = "rollback" /\ pc[Owner] \in TermLabels \cup {"join"}
     => live = Core \cup {"threads"}
  /\ phase = "rollback" /\ pc[Owner] \in DrainLabels => live \ {"attr"} = Core
  /\ pc[Owner] = "gone" => live \subseteq {"attr"}

EarlyOK ==
  phase \in {"creating", "rollback", "failed"} =>
    /\ order = <<>>
    /\ \A t \in Tasks : heap[t] = "unused"
    /\ \A th \in Threads :
         hand[th] = Nil /\ pc[th] \notin PostLabels \cup {"body", "run", "drain_free"}
    /\ \A w \in Workers : pc[w] \notin TermLabels

PInv == PlaceOK /\ PhaseOK /\ JoinedOK /\ LiveOK /\ EarlyOK

-----------------------------------------------------------------------------
(* The tasks.  A thread has a task in hand from thrdpool_post until it is  *)
(* linked in, and from when it is unlinked until it is run or dropped.     *)

TakenLabels == {"pop_tail", "pop_unlock", "run", "drain_free"}
HandLabels  == {"add_lock", "add_link", "add_tail"} \cup TakenLabels

Waiting(t) == \E i \in taken + 1 .. Len(order) : order[i] = t
Taken(t)   == \E i \in 1 .. taken : order[i] = t

(* A task in hand is allocated, has not run and is in no other hand, and   *)
(* unless it is being posted it was taken from the list.                   *)
HoldOK ==
  /\ \A th \in Threads : hand[th] # Nil =>
       /\ pc[th] \in HandLabels
       /\ heap[hand[th]] = "alloc" /\ runs[hand[th]] = 0
       /\ pc[th] \in TakenLabels => Taken(hand[th])
  /\ \A x, y \in Threads : hand[x] = hand[y] /\ hand[x] # Nil => x = y

(* A task waiting in the list is allocated and has not run, one that was   *)
(* taken and is in no hand has run or was dropped by the owner, and what   *)
(* is in neither place is not allocated.                                   *)
DoneOK ==
  \A t \in Tasks :
    /\ Waiting(t) => heap[t] = "alloc" /\ runs[t] = 0
    /\ Taken(t) /\ HeldByNone(t) => runs[t] = 1 \/ (runs[t] = 0 /\ Draining)
    /\ ~Taken(t) => runs[t] = 0
    /\ heap[t] = "alloc" => Waiting(t) \/ ~HeldByNone(t)

(* __taskqueue_destroy goes on only when the list is empty.                *)
DrainedOK ==
  \/ pc[Owner] \in {"destroy", "gone"}
  \/ pc[Owner] = "pop_unlock" /\ hand[Owner] = Nil
  => taken = Len(order)

KInv == HoldOK /\ DoneOK /\ DrainedOK

(* The rows of CreateStep and UndoStep.                                    *)
LEMMA CreateRows ==
  /\ \A l \in DOMAIN CreateStep :
       LET s == CreateStep[l] IN
       \/ l = "c_pool"    /\ s.res = "pool"    /\ s.ok = "c_queue"   /\ s.fail = "gone"
       \/ l = "c_queue"   /\ s.res = "queue"   /\ s.ok = "c_mutex"   /\ s.fail = "u_pool"
       \/ l = "c_mutex"   /\ s.res = "mutex"   /\ s.ok = "c_cond"    /\ s.fail = "u_queue"
       \/ l = "c_cond"    /\ s.res = "cond"    /\ s.ok = "c_attr"    /\ s.fail = "u_mutex"
       \/ l = "c_attr"    /\ s.res = "attr"    /\ s.ok = "c_threads" /\ s.fail = "pop_lock"
       \/ l = "c_threads" /\ s.res = "threads" /\ s.ok = "spawn"     /\ s.fail = "pop_lock"
  /\ \A l \in DOMAIN UndoStep :
       LET s == UndoStep[l] IN
       \/ l = "u_mutex" /\ s.res = "mutex" /\ s.next = "u_queue"
       \/ l = "u_queue" /\ s.res = "queue" /\ s.next = "u_pool"
       \/ l = "u_pool"  /\ s.res = "pool"  /\ s.next = "gone"
BY DEF CreateStep, UndoStep

LEMMA PInit == Init => PInv
<1> SUFFICES ASSUME Init PROVE PInv
  OBVIOUS
<1>1. /\ pc[Owner] = "c_pool" /\ phase = "creating" /\ started = {} /\ live = {}
      /\ order = <<>>
      /\ \A c \in Clients : pc[c] = "idle"
      /\ \A w \in Workers : pc[w] = "unborn"
      /\ \A th \in Threads : hand[th] = Nil /\ pc[th] \in {"unborn", "c_pool", "idle"}
      /\ \A t \in Tasks : heap[t] = "unused"
  BY ThreadsAssumption DEF Init, Threads, Posters
<1>2. QED
  BY <1>1 DEF PInv, PlaceOK, PhaseOK, JoinedOK, LiveOK, EarlyOK, Draining, PostLabels,
              PopLabels, WorkerLabels, TermLabels, GrowLabels, UndoLabels, DrainLabels

LEMMA PhaseStep == TInv /\ PInv /\ [Next]_vars => PlaceOK' /\ PhaseOK'
<1> SUFFICES ASSUME TInv, PInv, [Next]_vars PROVE PlaceOK' /\ PhaseOK'
  OBVIOUS
<1> USE ThreadsAssumption
    DEF TInv, TypeOK, PInv, PlaceOK, PhaseOK, JoinedOK, EarlyOK, Draining, Goto, Threads,
        Posters, lifeVars, flagVars, PostLabels, PopLabels, WaitLabels,
        TermLabels, WorkerLabels, GrowLabels, UndoLabels, DrainLabels
<1>1. ASSUME NEW l \in DOMAIN CreateStep, Acquire(l) PROVE PlaceOK' /\ PhaseOK'
  BY <1>1, CreateRows DEF Acquire
<1>2. ASSUME NEW l \in DOMAIN CreateStep, AcquireFails(l)
      PROVE  PlaceOK' /\ PhaseOK'
  BY <1>2, CreateRows DEF AcquireFails
<1>3. ASSUME NEW l \in DOMAIN UndoStep, Undo(l) PROVE PlaceOK' /\ PhaseOK'
  BY <1>3, CreateRows DEF Undo
<1>4. ASSUME NEW w \in Workers, pthread_create(w) PROVE PlaceOK' /\ PhaseOK'
  BY <1>4 DEF pthread_create
<1>5. ASSUME threads_created PROVE PlaceOK' /\ PhaseOK'
  BY <1>5 DEF threads_created
<1>6. ASSUME pthread_create_fails PROVE PlaceOK' /\ PhaseOK'
  BY <1>6 DEF pthread_create_fails
<1>7. ASSUME NEW th \in Threads, NEW t \in Tasks, thrdpool_post(th, t)
      PROVE  PlaceOK' /\ PhaseOK'
  BY <1>7 DEF thrdpool_post, MayCall
<1>8. ASSUME NEW th \in Threads, add_lock(th) PROVE PlaceOK' /\ PhaseOK'
  BY <1>8 DEF add_lock
<1>9. ASSUME NEW th \in Threads, add_link(th) PROVE PlaceOK' /\ PhaseOK'
  BY <1>9 DEF add_link
<1>10. ASSUME NEW th \in Threads, add_tail(th) PROVE PlaceOK' /\ PhaseOK'
  BY <1>10 DEF add_tail
<1>11. ASSUME NEW th \in Threads, add_unlock(th) PROVE PlaceOK' /\ PhaseOK'
  BY <1>11 DEF add_unlock
<1>12. ASSUME NEW th \in Threads, add_signal(th) PROVE PlaceOK' /\ PhaseOK'
  <2>1. CASE Goto(th, Resume(th))
    BY <1>12, <2>1 DEF add_signal, Resume
  <2>2. ASSUME NEW w \in Sleepers,
               pc' = [pc EXCEPT ![w] = "wake_lock", ![th] = Resume(th)]
        PROVE  PlaceOK' /\ PhaseOK'
    BY <1>12, <2>2 DEF add_signal, Sleepers, Resume
  <2>3. QED
    BY <1>12, <2>1, <2>2 DEF add_signal
<1>13. ASSUME NEW w \in Workers, pop_lock(w) PROVE PlaceOK' /\ PhaseOK'
  BY <1>13 DEF pop_lock
<1>14. ASSUME NEW w \in Workers, pop_empty(w) PROVE PlaceOK' /\ PhaseOK'
  BY <1>14 DEF pop_empty
<1>15. ASSUME NEW w \in Workers, pop_head(w) PROVE PlaceOK' /\ PhaseOK'
  BY <1>15 DEF pop_head
<1>16. ASSUME NEW w \in Workers, pop_tail(w) PROVE PlaceOK' /\ PhaseOK'
  BY <1>16 DEF pop_tail
<1>17. ASSUME NEW w \in Workers, pop_unlock(w) PROVE PlaceOK' /\ PhaseOK'
  BY <1>17 DEF pop_unlock, AfterPop
<1>18. ASSUME pop_lock(Owner) PROVE PlaceOK' /\ PhaseOK'
  BY <1>18 DEF pop_lock
<1>19. ASSUME pop_empty(Owner) PROVE PlaceOK' /\ PhaseOK'
  BY <1>19 DEF pop_empty
<1>20. ASSUME pop_head(Owner) PROVE PlaceOK' /\ PhaseOK'
  BY <1>20 DEF pop_head
<1>21. ASSUME pop_tail(Owner) PROVE PlaceOK' /\ PhaseOK'
  BY <1>21 DEF pop_tail
<1>22. ASSUME pop_unlock(Owner) PROVE PlaceOK' /\ PhaseOK'
  BY <1>22 DEF pop_unlock, AfterPop
<1>23. ASSUME NEW th \in Threads, thrdpool_terminate(th)
      PROVE  PlaceOK' /\ PhaseOK'
  BY <1>23 DEF thrdpool_terminate, MayCall
<1>24. ASSUME NEW th \in Threads, terminate_quit(th) PROVE PlaceOK' /\ PhaseOK'
  BY <1>24 DEF terminate_quit
<1>25. ASSUME NEW th \in Threads, nonblock_lock(th) PROVE PlaceOK' /\ PhaseOK'
  BY <1>25 DEF nonblock_lock
<1>26. ASSUME NEW th \in Threads, nonblock_store(th) PROVE PlaceOK' /\ PhaseOK'
  BY <1>26 DEF nonblock_store
<1>27. ASSUME NEW th \in Threads, nonblock_broadcast(th)
      PROVE  PlaceOK' /\ PhaseOK'
  BY <1>27 DEF nonblock_broadcast, Sleepers, AfterTerminate, Resume
<1>28. ASSUME NEW w \in Workers, wait_lock(w) PROVE PlaceOK' /\ PhaseOK'
  BY <1>28 DEF wait_lock
<1>29. ASSUME NEW w \in Workers, wait_refused(w) PROVE PlaceOK' /\ PhaseOK'
  BY <1>29 DEF wait_refused
<1>30. ASSUME NEW w \in Workers, wait_check(w) PROVE PlaceOK' /\ PhaseOK'
  BY <1>30 DEF wait_check
<1>31. ASSUME NEW w \in Workers, wait_sleep(w) PROVE PlaceOK' /\ PhaseOK'
  BY <1>31 DEF wait_sleep
<1>32. ASSUME NEW w \in Workers, spurious_wakeup(w) PROVE PlaceOK' /\ PhaseOK'
  BY <1>32 DEF spurious_wakeup
<1>33. ASSUME NEW w \in Workers, wake_lock(w) PROVE PlaceOK' /\ PhaseOK'
  BY <1>33 DEF wake_lock
<1>34. ASSUME NEW w \in Workers, worker_quit(w) PROVE PlaceOK' /\ PhaseOK'
  BY <1>34 DEF worker_quit
<1>35. ASSUME NEW w \in Workers, worker_run(w) PROVE PlaceOK' /\ PhaseOK'
  BY <1>35 DEF worker_run
<1>36. ASSUME NEW w \in Workers, task_returns(w) PROVE PlaceOK' /\ PhaseOK'
  BY <1>36 DEF task_returns
<1>37. ASSUME NEW c \in Clients, client_leaves(c) PROVE PlaceOK' /\ PhaseOK'
  BY <1>37 DEF client_leaves, MayCall
<1>38. ASSUME ClientsGone /\ thrdpool_waitdone PROVE PlaceOK' /\ PhaseOK'
  BY <1>38 DEF ClientsGone, thrdpool_waitdone
<1>39. ASSUME join_threads PROVE PlaceOK' /\ PhaseOK'
  BY <1>39 DEF join_threads
<1>40. ASSUME drain_free PROVE PlaceOK' /\ PhaseOK'
  BY <1>40 DEF drain_free
<1>41. ASSUME taskqueue_destroy PROVE PlaceOK' /\ PhaseOK'
  BY <1>41 DEF taskqueue_destroy
<1>42. CASE UNCHANGED vars
  BY <1>42 DEF vars
<1> HIDE DEF TInv, TypeOK, PInv, PlaceOK, PhaseOK, JoinedOK, EarlyOK, Draining, Goto, Threads,
        Posters, lifeVars, flagVars, PostLabels, PopLabels, WaitLabels,
        TermLabels, WorkerLabels, GrowLabels, UndoLabels, DrainLabels
<1>43. QED
  BY <1>1, <1>2, <1>3, <1>4, <1>5, <1>6, <1>7, <1>8, <1>9, <1>10, <1>11, <1>12,
     <1>13, <1>14, <1>15, <1>16, <1>17, <1>18, <1>19, <1>20, <1>21, <1>22, <1>23,
     <1>24, <1>25, <1>26, <1>27, <1>28, <1>29, <1>30, <1>31, <1>32, <1>33, <1>34,
     <1>35, <1>36, <1>37, <1>38, <1>39, <1>40, <1>41, <1>42
  DEF Next, CallNext, PoolNext, CreateNext, AddNext, PopNext, TerminateNext,
      WorkerNext, DestroyNext, Finished

LEMMA JoinedStep == TInv /\ PInv /\ [Next]_vars => JoinedOK'
<1> SUFFICES ASSUME TInv, PInv, [Next]_vars PROVE JoinedOK'
  OBVIOUS
<1> USE ThreadsAssumption
    DEF TInv, TypeOK, PInv, PlaceOK, PhaseOK, JoinedOK, EarlyOK, Draining, Goto, Threads,
        Posters, lifeVars, flagVars, PostLabels, PopLabels, WaitLabels,
        TermLabels, WorkerLabels, GrowLabels, UndoLabels, DrainLabels
<1>1. ASSUME NEW l \in DOMAIN CreateStep, Acquire(l) PROVE JoinedOK'
  BY <1>1, CreateRows DEF Acquire
<1>2. ASSUME NEW l \in DOMAIN CreateStep, AcquireFails(l) PROVE JoinedOK'
  BY <1>2, CreateRows DEF AcquireFails
<1>3. ASSUME NEW l \in DOMAIN UndoStep, Undo(l) PROVE JoinedOK'
  BY <1>3, CreateRows DEF Undo
<1>4. ASSUME NEW w \in Workers, pthread_create(w) PROVE JoinedOK'
  BY <1>4 DEF pthread_create
<1>5. ASSUME threads_created \/ pthread_create_fails PROVE JoinedOK'
  BY <1>5 DEF threads_created, pthread_create_fails
<1>6. ASSUME NEW th \in Threads, NEW t \in Tasks, thrdpool_post(th, t)
      PROVE  JoinedOK'
  BY <1>6 DEF thrdpool_post, MayCall
<1>7. ASSUME NEW th \in Threads, add_lock(th) \/ add_link(th) PROVE JoinedOK'
  BY <1>7 DEF add_lock, add_link
<1>8. ASSUME NEW th \in Threads, add_tail(th) \/ add_unlock(th) PROVE JoinedOK'
  BY <1>8 DEF add_tail, add_unlock
<1>9. ASSUME NEW th \in Threads, add_signal(th) PROVE JoinedOK'
  <2>1. CASE Goto(th, Resume(th))
    BY <1>9, <2>1 DEF add_signal, Resume
  <2>2. ASSUME NEW w \in Sleepers,
               pc' = [pc EXCEPT ![w] = "wake_lock", ![th] = Resume(th)]
        PROVE  JoinedOK'
    BY <1>9, <2>2 DEF add_signal, Sleepers, Resume
  <2>3. QED
    BY <1>9, <2>1, <2>2 DEF add_signal
<1>10. ASSUME NEW w \in Workers, pop_lock(w) \/ pop_empty(w) PROVE JoinedOK'
  BY <1>10 DEF pop_lock, pop_empty
<1>11. ASSUME NEW w \in Workers, pop_head(w) \/ pop_tail(w) PROVE JoinedOK'
  BY <1>11 DEF pop_head, pop_tail
<1>12. ASSUME NEW w \in Workers, pop_unlock(w) PROVE JoinedOK'
  BY <1>12 DEF pop_unlock, AfterPop
<1>13. ASSUME pop_lock(Owner) \/ pop_empty(Owner) PROVE JoinedOK'
  BY <1>13 DEF pop_lock, pop_empty
<1>14. ASSUME pop_head(Owner) \/ pop_tail(Owner) PROVE JoinedOK'
  BY <1>14 DEF pop_head, pop_tail
<1>15. ASSUME pop_unlock(Owner) PROVE JoinedOK'
  BY <1>15 DEF pop_unlock, AfterPop
<1>16. ASSUME NEW th \in Threads, thrdpool_terminate(th) PROVE JoinedOK'
  BY <1>16 DEF thrdpool_terminate, MayCall
<1>17. ASSUME NEW th \in Threads, terminate_quit(th) \/ nonblock_lock(th) \/ nonblock_store(th)
      PROVE  JoinedOK'
  BY <1>17 DEF terminate_quit, nonblock_lock, nonblock_store
<1>18. ASSUME NEW th \in Threads, nonblock_broadcast(th) PROVE JoinedOK'
  BY <1>18 DEF nonblock_broadcast, Sleepers, AfterTerminate, Resume
<1>19. ASSUME NEW w \in Workers, wait_lock(w) \/ wait_refused(w) \/ wait_check(w)
      PROVE  JoinedOK'
  BY <1>19 DEF wait_lock, wait_refused, wait_check
<1>20. ASSUME NEW w \in Workers, wait_sleep(w) \/ spurious_wakeup(w) \/ wake_lock(w)
      PROVE  JoinedOK'
  BY <1>20 DEF wait_sleep, spurious_wakeup, wake_lock
<1>21. ASSUME NEW w \in Workers, worker_quit(w) \/ worker_run(w) \/ task_returns(w)
      PROVE  JoinedOK'
  BY <1>21 DEF worker_quit, worker_run, task_returns
<1>22. ASSUME NEW c \in Clients, client_leaves(c) PROVE JoinedOK'
  BY <1>22 DEF client_leaves, MayCall
<1>23. ASSUME ClientsGone /\ thrdpool_waitdone PROVE JoinedOK'
  BY <1>23 DEF ClientsGone, thrdpool_waitdone
<1>24. ASSUME join_threads PROVE JoinedOK'
  BY <1>24 DEF join_threads
<1>25. ASSUME drain_free PROVE JoinedOK'
  BY <1>25 DEF drain_free
<1>26. ASSUME taskqueue_destroy PROVE JoinedOK'
  BY <1>26 DEF taskqueue_destroy
<1>27. CASE UNCHANGED vars
  BY <1>27 DEF vars
<1> HIDE DEF TInv, TypeOK, PInv, PlaceOK, PhaseOK, JoinedOK, EarlyOK, Draining, Goto, Threads,
        Posters, lifeVars, flagVars, PostLabels, PopLabels, WaitLabels,
        TermLabels, WorkerLabels, GrowLabels, UndoLabels, DrainLabels
<1>28. QED
  BY <1>1, <1>2, <1>3, <1>4, <1>5, <1>6, <1>7, <1>8, <1>9, <1>10, <1>11,
     <1>12, <1>13, <1>14, <1>15, <1>16, <1>17, <1>18, <1>19, <1>20, <1>21,
     <1>22, <1>23, <1>24, <1>25, <1>26, <1>27
  DEF Next, CallNext, PoolNext, CreateNext, AddNext, PopNext, TerminateNext,
      WorkerNext, DestroyNext, Finished

(* A step that leaves the owner where it is, and one of the owner inside a *)
(* call on the pool that is up, change nothing that is allocated.          *)
LEMMA LiveFrame ==
  ASSUME PInv, PhaseOK', UNCHANGED <<phase, live>>, pc'[Owner] = pc[Owner] \/ phase = "up"
  PROVE  LiveOK'
BY DEF PInv, PhaseOK, LiveOK, PostLabels, TermLabels, GrowLabels, UndoLabels, DrainLabels,
       PopLabels

LEMMA LiveStep == TInv /\ PInv /\ [Next]_vars => LiveOK'
<1> SUFFICES ASSUME TInv, PInv, [Next]_vars PROVE LiveOK'
  OBVIOUS
<1>0. PhaseOK' /\ pc \in [Threads -> Labels] /\ Owner \in Threads
  BY PhaseStep DEF TInv, TypeOK, Threads, Posters
<1> USE DEF Goto, lifeVars
<1>1. ASSUME NEW l \in DOMAIN CreateStep, Acquire(l) PROVE LiveOK'
  <2>1. /\ pc[Owner] = l /\ live' = live \cup {CreateStep[l].res} /\ phase' = phase
        /\ pc'[Owner] = CreateStep[l].ok
    BY <1>0, <1>1 DEF Acquire
  <2>2. phase = "creating"
    BY <2>1, CreateRows DEF PInv, PhaseOK, GrowLabels
  <2>3. \/ pc'[Owner] = "c_queue"   /\ live' = {"pool"}
        \/ pc'[Owner] = "c_mutex"   /\ live' = {"pool", "queue"}
        \/ pc'[Owner] = "c_cond"    /\ live' = {"pool", "queue", "mutex"}
        \/ pc'[Owner] = "c_attr"    /\ live' = Core
        \/ pc'[Owner] = "c_threads" /\ live' = Core \cup {"attr"}
        \/ pc'[Owner] = "spawn"     /\ live' = Resources
    BY <2>1, CreateRows DEF PInv, LiveOK, Core, Resources
  <2>4. QED
    BY <2>1, <2>2, <2>3 DEF LiveOK, TermLabels, DrainLabels, PopLabels
<1>2. ASSUME NEW l \in DOMAIN CreateStep, AcquireFails(l) PROVE LiveOK'
  <2>1. /\ pc[Owner] = l /\ live' = live /\ pc'[Owner] = CreateStep[l].fail
        /\ phase' \in {"failed", "rollback"}
    BY <1>0, <1>2 DEF AcquireFails
  <2>2. \/ pc'[Owner] = "gone"     /\ live' = {}
        \/ pc'[Owner] = "u_pool"   /\ live' = {"pool"}
        \/ pc'[Owner] = "u_queue"  /\ live' = {"pool", "queue"}
        \/ pc'[Owner] = "u_mutex"  /\ live' = {"pool", "queue", "mutex"}
        \/ pc'[Owner] = "pop_lock" /\ live' \ {"attr"} = Core
    BY <2>1, CreateRows DEF PInv, LiveOK, Core
  <2>3. QED
    BY <2>1, <2>2 DEF LiveOK, TermLabels, DrainLabels, PopLabels
<1>3. ASSUME NEW l \in DOMAIN UndoStep, Undo(l) PROVE LiveOK'
  <2>1. /\ pc[Owner] = l /\ live' = live \ {UndoStep[l].res}
        /\ pc'[Owner] = UndoStep[l].next /\ phase' \in {phase, "failed"}
    BY <1>0, <1>3 DEF Undo
  <2>2. phase = "rollback"
    BY <1>3, <2>1, CreateRows
    DEF PInv, PhaseOK, TInv, TypeOK, GrowLabels, PostLabels, TermLabels, DrainLabels,
        PopLabels
  <2>3. \/ pc'[Owner] = "u_queue" /\ live' = {"pool", "queue"}
        \/ pc'[Owner] = "u_pool"  /\ live' = {"pool"}
        \/ pc'[Owner] = "gone"    /\ live' = {}
    BY <2>1, CreateRows DEF PInv, LiveOK
  <2>4. QED
    BY <2>1, <2>2, <2>3 DEF LiveOK, TermLabels, DrainLabels, PopLabels
<1>4. ASSUME threads_created \/ pthread_create_fails PROVE LiveOK'
  <2>1. /\ pc[Owner] = "spawn" /\ live' = live \ {"attr"} /\ live = Resources
        /\ \/ phase' = "up" /\ pc'[Owner] = "idle"
           \/ phase' = "rollback" /\ pc'[Owner] = "t_quit"
    BY <1>0, <1>4 DEF threads_created, pthread_create_fails, PInv, LiveOK
  <2>2. live' = Core \cup {"threads"}
    BY <2>1 DEF Core, Resources
  <2>3. QED
    BY <2>1, <2>2 DEF LiveOK, TermLabels, DrainLabels, PopLabels
<1>5. ASSUME ClientsGone /\ thrdpool_waitdone PROVE LiveOK'
  <2>1. /\ phase = "up" /\ phase' = "waiting" /\ pc'[Owner] = "join" /\ live' = live
    BY <1>0, <1>5 DEF thrdpool_waitdone
  <2>2. QED
    BY <2>1 DEF PInv, LiveOK, TermLabels, DrainLabels, PopLabels
<1>6. ASSUME join_threads PROVE LiveOK'
  <2>1. /\ pc[Owner] = "join" /\ pc'[Owner] = "pop_lock" /\ phase' = phase
        /\ live' = IF phase = "rollback" THEN live \ {"threads"} ELSE live
    BY <1>0, <1>6 DEF join_threads
  <2>2. phase \in {"rollback", "waiting"}
    BY <2>1 DEF PInv, PhaseOK, TInv, TypeOK, PostLabels, TermLabels, GrowLabels
  <2>3. live = Core \cup {"threads"}
    BY <2>1, <2>2 DEF PInv, LiveOK
  <2>4. live' \ {"attr"} = IF phase = "rollback" THEN Core ELSE Core \cup {"threads"}
    BY <2>1, <2>3 DEF Core
  <2>5. QED
    BY <2>1, <2>2, <2>3, <2>4 DEF LiveOK, TermLabels
<1>7. ASSUME drain_free \/ PopNext(Owner) PROVE LiveOK'
  <2>1. /\ pc[Owner] \in PopLabels \cup {"drain_free"} /\ UNCHANGED <<phase, live>>
        /\ pc'[Owner] \in DrainLabels
    BY <1>0, <1>7, ThreadsAssumption
    DEF drain_free, PopNext, pop_lock, pop_empty, pop_head, pop_tail, pop_unlock, AfterPop,
        PopLabels, DrainLabels
  <2>2. phase \in {"rollback", "waiting"}
    BY <2>1 DEF PInv, PhaseOK, TInv, TypeOK, PostLabels, TermLabels, GrowLabels, PopLabels
  <2>3. QED
    BY <2>1, <2>2 DEF PInv, LiveOK, TermLabels, DrainLabels, PopLabels
<1>8. ASSUME taskqueue_destroy PROVE LiveOK'
  <2>1. /\ pc[Owner] = "destroy" /\ pc'[Owner] = "gone" /\ phase' \in {"done", "failed"}
        /\ live' = live \ {"queue", "mutex", "cond", "pool",
                           IF phase = "waiting" THEN "threads" ELSE "pool"}
    BY <1>0, <1>8 DEF taskqueue_destroy
  <2>2. phase \in {"rollback", "waiting"}
    BY <2>1 DEF PInv, PhaseOK, TInv, TypeOK, PostLabels, TermLabels, GrowLabels
  <2>3. live \ {"attr"} = IF phase = "waiting" THEN Core \cup {"threads"} ELSE Core
    BY <2>1, <2>2 DEF PInv, LiveOK, DrainLabels, Core
  <2>4. live' \subseteq {"attr"}
    BY <2>1, <2>2, <2>3 DEF Core
  <2>5. QED
    BY <2>1, <2>4 DEF LiveOK, TermLabels, DrainLabels, PopLabels
<1>9. ASSUME NEW th \in Threads, TerminateNext(th) PROVE LiveOK'
  <2>1. /\ UNCHANGED <<phase, live>> /\ pc[th] \in TermLabels
        /\ th # Owner => pc'[Owner] = pc[Owner]
    <3>1. CASE nonblock_broadcast(th)
      BY <1>0, <3>1, ThreadsAssumption DEF nonblock_broadcast, TermLabels, Sleepers
    <3>2. CASE terminate_quit(th) \/ nonblock_lock(th) \/ nonblock_store(th)
      BY <1>0, <3>2 DEF terminate_quit, nonblock_lock, nonblock_store, TermLabels
    <3>3. QED
      BY <1>9, <3>1, <3>2 DEF TerminateNext
  <2>2. CASE th # Owner \/ phase = "up"
    BY <1>0, <2>1, <2>2, LiveFrame
  <2>3. CASE th = Owner /\ phase # "up"
    <3>1. phase = "rollback"
      BY <2>1, <2>3 DEF PInv, PhaseOK, TInv, TypeOK, TermLabels, GrowLabels, DrainLabels,
                        PopLabels
    <3>2. pc'[Owner] \in TermLabels \cup {"join"}
      BY <1>0, <1>9, <2>3, <3>1
      DEF TerminateNext, terminate_quit, nonblock_lock, nonblock_store, nonblock_broadcast,
          AfterTerminate, TermLabels
    <3>3. QED
      BY <2>1, <2>3, <3>1, <3>2 DEF PInv, LiveOK, TermLabels, DrainLabels, PopLabels
  <2>4. QED
    BY <2>2, <2>3
<1>10. ASSUME NEW th \in Threads, AddNext(th) PROVE LiveOK'
  <2>1. UNCHANGED <<phase, live>> /\ pc[th] \in PostLabels
    BY <1>10 DEF AddNext, add_lock, add_link, add_tail, add_unlock, add_signal, PostLabels
  <2>2. th # Owner => pc'[Owner] = pc[Owner]
    <3>1. CASE add_signal(th)
      BY <1>0, <3>1, ThreadsAssumption DEF add_signal, Sleepers
    <3>2. CASE add_lock(th) \/ add_link(th) \/ add_tail(th) \/ add_unlock(th)
      BY <1>0, <3>2 DEF add_lock, add_link, add_tail, add_unlock
    <3>3. QED
      BY <1>10, <3>1, <3>2 DEF AddNext
  <2>3. th = Owner => phase = "up"
    BY <2>1 DEF PInv, PhaseOK, TInv, TypeOK, PostLabels, TermLabels, GrowLabels, UndoLabels,
                DrainLabels, PopLabels
  <2>4. QED
    BY <1>0, <2>1, <2>2, <2>3, LiveFrame
<1>11. ASSUME NEW th \in Threads,
              (\E t \in Tasks : thrdpool_post(th, t)) \/ thrdpool_terminate(th)
       PROVE  LiveOK'
  <2>1. /\ UNCHANGED <<phase, live>> /\ MayCall(th)
        /\ th # Owner => pc'[Owner] = pc[Owner]
    BY <1>0, <1>11 DEF thrdpool_post, thrdpool_terminate
  <2>2. th = Owner => phase = "up"
    BY <2>1, ThreadsAssumption DEF MayCall, PInv, PhaseOK, DrainLabels, PopLabels
  <2>3. QED
    BY <1>0, <2>1, <2>2, LiveFrame
<1>12. ASSUME NEW w \in Workers,
              WorkerNext(w) \/ spurious_wakeup(w) \/ pthread_create(w)
       PROVE  LiveOK'
  <2>1. UNCHANGED <<phase, live>> /\ pc'[Owner] = pc[Owner]
    BY <1>0, <1>12, ThreadsAssumption
    DEF WorkerNext, PopNext, pop_lock, pop_empty, pop_head, pop_tail, pop_unlock, wait_lock,
        wait_refused, wait_check, wait_sleep, wake_lock, worker_quit, worker_run,
        task_returns, spurious_wakeup, pthread_create
  <2>2. QED
    BY <1>0, <2>1, LiveFrame
<1>13. ASSUME NEW c \in Clients, client_leaves(c) PROVE LiveOK'
  <2>1. UNCHANGED <<phase, live>> /\ pc'[Owner] = pc[Owner]
    BY <1>0, <1>13, ThreadsAssumption DEF client_leaves
  <2>2. QED
    BY <1>0, <2>1, LiveFrame
<1>14. CASE UNCHANGED vars
  BY <1>0, <1>14, LiveFrame DEF vars
<1>15. QED
  BY <1>1, <1>2, <1>3, <1>4, <1>5, <1>6, <1>7, <1>8, <1>9, <1>10, <1>11, <1>12, <1>13,
     <1>14
  DEF Next, CallNext, PoolNext, CreateNext, DestroyNext, Finished

(* Before the pool is up nobody can be about to take a task.               *)
LEMMA NoTaskEarly ==
  ASSUME TInv, LInv, PInv, NEW th \in Threads, pop_head(th) \/ pop_tail(th)
  PROVE  phase \notin {"creating", "rollback", "failed"}
<1>1. CASE pop_head(th)
  <2>1. taken < Len(order) /\ taken \in Nat
    BY <1>1, HeadIsFirst DEF pop_head
  <2>2. order # <<>>
    BY <2>1
  <2>3. QED
    BY <2>2 DEF PInv, EarlyOK
<1>2. CASE pop_tail(th)
  BY <1>2, CellsAssumption DEF pop_tail, TInv, HandOK, PInv, EarlyOK
<1>3. QED
  BY <1>1, <1>2

LEMMA EarlyStep == TInv /\ LInv /\ PInv /\ [Next]_vars => EarlyOK'
<1> SUFFICES ASSUME TInv, LInv, PInv, [Next]_vars PROVE EarlyOK'
  OBVIOUS
<1> USE ThreadsAssumption
    DEF TInv, TypeOK, PInv, PlaceOK, PhaseOK, EarlyOK, Goto, Threads, Posters,
        lifeVars, flagVars, listVars, PostLabels, PopLabels, WaitLabels,
        TermLabels, WorkerLabels, GrowLabels, UndoLabels, DrainLabels
<1>1. ASSUME NEW l \in DOMAIN CreateStep, Acquire(l) PROVE EarlyOK'
  BY <1>1, CreateRows DEF Acquire
<1>2. ASSUME NEW l \in DOMAIN CreateStep, AcquireFails(l) PROVE EarlyOK'
  BY <1>2, CreateRows DEF AcquireFails
<1>3. ASSUME NEW l \in DOMAIN UndoStep, Undo(l) PROVE EarlyOK'
  BY <1>3, CreateRows DEF Undo
<1>4. ASSUME NEW w \in Workers, pthread_create(w) PROVE EarlyOK'
  BY <1>4 DEF pthread_create
<1>5. ASSUME threads_created \/ pthread_create_fails PROVE EarlyOK'
  BY <1>5 DEF threads_created, pthread_create_fails
<1>6. ASSUME NEW th \in Threads, NEW t \in Tasks, thrdpool_post(th, t)
      PROVE  EarlyOK'
  BY <1>6 DEF thrdpool_post, MayCall
<1>7. ASSUME NEW th \in Threads, add_lock(th) \/ add_link(th) PROVE EarlyOK'
  BY <1>7 DEF add_lock, add_link
<1>8. ASSUME NEW th \in Threads, add_tail(th) \/ add_unlock(th) PROVE EarlyOK'
  BY <1>8 DEF add_tail, add_unlock
<1>9. ASSUME NEW th \in Threads, add_signal(th) PROVE EarlyOK'
  BY <1>9 DEF add_signal, Sleepers, Resume
<1>10. ASSUME NEW w \in Workers, pop_lock(w) \/ pop_empty(w) PROVE EarlyOK'
  BY <1>10 DEF pop_lock, pop_empty
<1>11. ASSUME NEW w \in Workers, pop_head(w) \/ pop_tail(w) PROVE EarlyOK'
  BY <1>11, NoTaskEarly DEF pop_head, pop_tail, EarlyOK, lifeVars
<1>12. ASSUME NEW w \in Workers, pop_unlock(w) PROVE EarlyOK'
  BY <1>12 DEF pop_unlock, AfterPop
<1>13. ASSUME pop_lock(Owner) \/ pop_empty(Owner) PROVE EarlyOK'
  BY <1>13 DEF pop_lock, pop_empty
<1>14. ASSUME pop_head(Owner) \/ pop_tail(Owner) PROVE EarlyOK'
  BY <1>14, NoTaskEarly DEF pop_head, pop_tail, EarlyOK, lifeVars
<1>15. ASSUME pop_unlock(Owner) PROVE EarlyOK'
  BY <1>15 DEF pop_unlock, AfterPop
<1>16. ASSUME NEW th \in Threads, thrdpool_terminate(th) PROVE EarlyOK'
  BY <1>16 DEF thrdpool_terminate, MayCall
<1>17. ASSUME NEW th \in Threads, terminate_quit(th) \/ nonblock_lock(th) \/ nonblock_store(th)
      PROVE  EarlyOK'
  BY <1>17 DEF terminate_quit, nonblock_lock, nonblock_store
<1>18. ASSUME NEW th \in Threads, nonblock_broadcast(th) PROVE EarlyOK'
  BY <1>18 DEF nonblock_broadcast, Sleepers, AfterTerminate, Resume
<1>19. ASSUME NEW w \in Workers, wait_lock(w) \/ wait_refused(w) \/ wait_check(w)
      PROVE  EarlyOK'
  BY <1>19 DEF wait_lock, wait_refused, wait_check
<1>20. ASSUME NEW w \in Workers, wait_sleep(w) \/ spurious_wakeup(w) \/ wake_lock(w)
      PROVE  EarlyOK'
  BY <1>20 DEF wait_sleep, spurious_wakeup, wake_lock
<1>21. ASSUME NEW w \in Workers, worker_quit(w) \/ worker_run(w) \/ task_returns(w)
      PROVE  EarlyOK'
  BY <1>21 DEF worker_quit, worker_run, task_returns
<1>22. ASSUME NEW c \in Clients, client_leaves(c) PROVE EarlyOK'
  BY <1>22 DEF client_leaves, MayCall
<1>23. ASSUME ClientsGone /\ thrdpool_waitdone PROVE EarlyOK'
  BY <1>23 DEF ClientsGone, thrdpool_waitdone
<1>24. ASSUME join_threads PROVE EarlyOK'
  BY <1>24 DEF join_threads
<1>25. ASSUME drain_free PROVE EarlyOK'
  BY <1>25 DEF drain_free
<1>26. ASSUME taskqueue_destroy PROVE EarlyOK'
  BY <1>26 DEF taskqueue_destroy
<1>27. CASE UNCHANGED vars
  BY <1>27 DEF vars
<1> HIDE DEF TInv, TypeOK, PInv, PlaceOK, PhaseOK, EarlyOK, Goto, Threads, Posters,
        lifeVars, flagVars, listVars, PostLabels, PopLabels, WaitLabels,
        TermLabels, WorkerLabels, GrowLabels, UndoLabels, DrainLabels
<1>28. QED
  BY <1>1, <1>2, <1>3, <1>4, <1>5, <1>6, <1>7, <1>8, <1>9, <1>10, <1>11,
     <1>12, <1>13, <1>14, <1>15, <1>16, <1>17, <1>18, <1>19, <1>20, <1>21,
     <1>22, <1>23, <1>24, <1>25, <1>26, <1>27
  DEF Next, CallNext, PoolNext, CreateNext, AddNext, PopNext, TerminateNext,
      WorkerNext, DestroyNext, Finished

LEMMA PStep == TInv /\ LInv /\ PInv /\ [Next]_vars => PInv'
BY PhaseStep, JoinedStep, LiveStep, EarlyStep DEF PInv

-----------------------------------------------------------------------------
(* Steps on the tasks.                                                     *)

LEMMA TakenOrWaiting ==
  ASSUME TInv, LInv
  PROVE  /\ taken \in Nat /\ Len(order) \in Nat /\ taken <= Len(order)
         /\ \A t : Taken(t) => ~Waiting(t)
         /\ \A t : Linked(t) <=> Taken(t) \/ Waiting(t)
<1>1. taken \in Nat /\ Len(order) \in Nat /\ taken <= Len(order)
  BY DEF TInv, TypeOK, LInv, ListIsQueue
<1>2. \A t : Taken(t) => ~Waiting(t)
  BY <1>1 DEF LInv, OrderOK, Taken, Waiting
<1>3. \A t : Linked(t) <=> Taken(t) \/ Waiting(t)
  BY <1>1 DEF Linked, Taken, Waiting
<1>4. QED
  BY <1>1, <1>2, <1>3

(* A step that moves no task.                                              *)
KeepsTasks ==
  /\ UNCHANGED <<hand, heap, runs, order, taken>>
  /\ \A th \in Threads : hand[th] # Nil =>
       pc'[th] \in HandLabels /\ (pc'[th] \in TakenLabels => pc[th] \in TakenLabels)
  /\ Draining => Draining'

LEMMA TasksFrame == HoldOK /\ DoneOK /\ KeepsTasks => HoldOK' /\ DoneOK'
<1> SUFFICES ASSUME HoldOK, DoneOK, KeepsTasks PROVE HoldOK' /\ DoneOK'
  OBVIOUS
<1>1. \A t : /\ Taken(t)' <=> Taken(t)
             /\ Waiting(t)' <=> Waiting(t)
             /\ HeldByNone(t)' <=> HeldByNone(t)
  BY DEF KeepsTasks, Taken, Waiting, HeldByNone
<1>2. HoldOK'
  BY <1>1 DEF KeepsTasks, HoldOK, TakenLabels, Taken
<1>3. DoneOK'
  BY <1>1 DEF KeepsTasks, DoneOK
<1>4. QED
  BY <1>2, <1>3

LEMMA PostMoves ==
  ASSUME TInv, LInv, HoldOK, DoneOK, NEW th \in Threads, NEW t \in Tasks,
         thrdpool_post(th, t)
  PROVE  HoldOK' /\ DoneOK'
<1>1. /\ pc[th] \in {"idle", "body"} /\ pc' = [pc EXCEPT ![th] = "add_lock"]
      /\ heap[t] = "unused" /\ heap' = [heap EXCEPT ![t] = "alloc"]
      /\ hand' = [hand EXCEPT ![th] = t] /\ UNCHANGED <<order, taken, runs>>
  BY DEF thrdpool_post, MayCall, Goto
<1>2. ~Linked(t) /\ HeldByNone(t) /\ t # Nil
  BY <1>1, CellsAssumption DEF LInv, OrderOK
<1>3. ~Taken(t) /\ ~Waiting(t) /\ runs[t] = 0
  BY <1>2, TakenOrWaiting DEF DoneOK
<1>4. hand[th] = Nil
  BY <1>1 DEF HoldOK, HandLabels, TakenLabels
<1>5. /\ \A x \in Threads : hand'[x] = IF x = th THEN t ELSE hand[x]
      /\ \A x \in Threads : pc'[x] = IF x = th THEN "add_lock" ELSE pc[x]
      /\ \A u \in Tasks : heap'[u] = IF u = t THEN "alloc" ELSE heap[u]
  BY <1>1 DEF TInv, TypeOK
<1>6. \A u : (Taken(u)' <=> Taken(u)) /\ (Waiting(u)' <=> Waiting(u))
  BY <1>1 DEF Taken, Waiting
<1>7. \A u \in Tasks : HeldByNone(u)' <=> HeldByNone(u) /\ u # t
  BY <1>2, <1>4, <1>5, CellsAssumption DEF HeldByNone
<1>8. HoldOK'
  <2>1. \A x \in Threads : hand[x] # t /\ hand[x] \in Tasks \cup {Nil}
    BY <1>2 DEF HeldByNone, TInv, TypeOK
  <2>2. ASSUME NEW x \in Threads, hand'[x] # Nil
        PROVE  /\ pc'[x] \in HandLabels
               /\ heap'[hand'[x]] = "alloc" /\ runs'[hand'[x]] = 0
               /\ pc'[x] \in TakenLabels => Taken(hand[x])'
    <3>1. CASE x = th
      BY <1>1, <1>3, <1>5, <3>1 DEF HandLabels, TakenLabels
    <3>2. CASE x # th
      <4>1. hand'[x] = hand[x] /\ pc'[x] = pc[x] /\ hand[x] # Nil
        BY <1>5, <2>2, <3>2
      <4>2. hand[x] \in Tasks /\ hand[x] # t /\ heap'[hand[x]] = heap[hand[x]]
        BY <1>5, <2>1, <4>1
      <4>3. Taken(hand[x])' <=> Taken(hand[x])
        BY <1>1, <4>1 DEF Taken
      <4>4. QED
        BY <1>1, <4>1, <4>2, <4>3 DEF HoldOK, TakenLabels
    <3>3. QED
      BY <3>1, <3>2
  <2>3. \A x, y \in Threads : hand'[x] = hand'[y] /\ hand'[x] # Nil => x = y
    BY <1>5, <2>1 DEF HoldOK
  <2>4. QED
    BY <2>2, <2>3 DEF HoldOK, TakenLabels
<1>9. Draining => Draining'
  BY <1>1 DEF Draining, PopLabels, TInv, TypeOK
<1>10. DoneOK'
  BY <1>1, <1>3, <1>5, <1>6, <1>7, <1>9 DEF DoneOK
<1>11. QED
  BY <1>8, <1>10

LEMMA LinkMoves ==
  ASSUME TInv, LInv, HoldOK, DoneOK, NEW th \in Threads, add_link(th)
  PROVE  HoldOK' /\ DoneOK'
<1>0. PICK t \in Tasks : t = hand[th]
  BY DEF add_link, TInv, HandOK
<1>1. /\ pc[th] = "add_link" /\ pc' = [pc EXCEPT ![th] = "add_tail"]
      /\ order' = Append(order, t) /\ UNCHANGED <<hand, taken, heap, runs>>
  BY <1>0 DEF add_link, Goto
<1>2. heap[t] = "alloc" /\ runs[t] = 0
  BY <1>0, CellsAssumption DEF HoldOK
<1>3. /\ taken \in Nat /\ Len(order) \in Nat /\ taken <= Len(order)
      /\ Len(order') = Len(order) + 1 /\ order'[Len(order) + 1] = t
      /\ \A i \in 1 .. Len(order) : order'[i] = order[i]
  BY <1>1, TakenOrWaiting DEF TInv, TypeOK
<1>4. \A u : /\ Taken(u)' <=> Taken(u)
             /\ Waiting(u)' <=> Waiting(u) \/ u = t
             /\ HeldByNone(u)' <=> HeldByNone(u)
  BY <1>1, <1>3 DEF Taken, Waiting, HeldByNone
<1>5. \A x \in Threads : pc'[x] = IF x = th THEN "add_tail" ELSE pc[x]
  BY <1>1 DEF TInv, TypeOK
<1>6. HoldOK'
  <2>1. \A x \in Threads : Taken(hand[x])' <=> Taken(hand[x])
    BY <1>1, <1>3 DEF Taken
  <2>2. QED
    BY <1>1, <1>5, <2>1 DEF HoldOK, HandLabels, TakenLabels
<1>7. Draining => Draining'
  BY <1>1 DEF Draining, PopLabels, TInv, TypeOK
<1>8. DoneOK'
  BY <1>1, <1>2, <1>4, <1>7 DEF DoneOK
<1>9. QED
  BY <1>6, <1>8

LEMMA TailMoves ==
  ASSUME TInv, LInv, HoldOK, DoneOK, NEW th \in Threads, add_tail(th)
  PROVE  HoldOK' /\ DoneOK'
<1>0. PICK t \in Tasks : t = hand[th]
  BY DEF add_tail, TInv, HandOK
<1>1. /\ pc[th] = "add_tail" /\ pc' = [pc EXCEPT ![th] = "add_unlock"]
      /\ hand' = [hand EXCEPT ![th] = Nil] /\ UNCHANGED <<order, taken, heap, runs>>
  BY <1>0 DEF add_tail, Goto
<1>2. Waiting(t) /\ ~Taken(t)
  <2>1. t = order[Len(order)] /\ taken < Len(order)
    BY <1>0, <1>1 DEF LInv, HalfDoneOK
  <2>2. Waiting(t)
    BY <2>1, TakenOrWaiting DEF Waiting
  <2>3. QED
    BY <2>2, TakenOrWaiting
<1>3. \A u : (Taken(u)' <=> Taken(u)) /\ (Waiting(u)' <=> Waiting(u))
  BY <1>1 DEF Taken, Waiting
<1>4. /\ \A x \in Threads : pc'[x] = IF x = th THEN "add_unlock" ELSE pc[x]
      /\ \A x \in Threads : hand'[x] = IF x = th THEN Nil ELSE hand[x]
  BY <1>1 DEF TInv, TypeOK
<1>5. \A u \in Tasks \ {t} : HeldByNone(u)' <=> HeldByNone(u)
  BY <1>0, <1>4, CellsAssumption DEF HeldByNone
<1>6. HoldOK'
  <2>1. \A x \in Threads : hand'[x] # Nil => (Taken(hand[x])' <=> Taken(hand[x]))
    BY <1>1, <1>4 DEF Taken
  <2>2. QED
    BY <1>1, <1>4, <2>1 DEF HoldOK
<1>7. Draining => Draining'
  BY <1>1 DEF Draining, PopLabels, TInv, TypeOK
<1>8. DoneOK'
  BY <1>1, <1>2, <1>3, <1>5, <1>7 DEF DoneOK
<1>9. QED
  BY <1>6, <1>8

LEMMA HeadMoves ==
  ASSUME TInv, LInv, HoldOK, DoneOK, NEW th \in Threads, pop_head(th)
  PROVE  HoldOK' /\ DoneOK'
<1>0. PICK k \in Nat, t \in Tasks : k = taken /\ t = order[taken + 1]
  BY HeadIsFirst DEF pop_head
<1>1. /\ pc[th] = "pop_head" /\ pc' = [pc EXCEPT ![th] = "pop_tail"]
      /\ hand' = [hand EXCEPT ![th] = t] /\ taken' = k + 1
      /\ k < Len(order) /\ Len(order) \in Nat
      /\ UNCHANGED <<order, heap, runs>>
  BY <1>0, HeadIsFirst DEF pop_head, Goto
<1>2. hand[th] = Nil /\ t # Nil
  BY <1>1, CellsAssumption DEF HoldOK, HandLabels, TakenLabels
<1>3. Waiting(t) /\ ~Taken(t) /\ Linked(t)
  BY <1>0, <1>1, TakenOrWaiting DEF Waiting
<1>4. HeldByNone(t)
  <2> SUFFICES ASSUME NEW x \in Threads, hand[x] = t PROVE FALSE
    BY DEF HeldByNone
  <2>1. pc[x] \in HandLabels /\ pc[x] \notin TakenLabels
    BY <1>2, <1>3 DEF HoldOK
  <2>2. pc[x] \notin {"add_lock", "add_link"}
    BY <1>3 DEF LInv, PostOK
  <2>3. pc[x] # "add_tail"
    BY <1>1, Alone DEF SpinHeld
  <2>4. QED
    BY <2>1, <2>2, <2>3 DEF HandLabels
<1>5. /\ \A x \in Threads : pc'[x] = IF x = th THEN "pop_tail" ELSE pc[x]
      /\ \A x \in Threads : hand'[x] = IF x = th THEN t ELSE hand[x]
  BY <1>1 DEF TInv, TypeOK
<1>6. \A u : /\ Taken(u)' <=> Taken(u) \/ u = t
             /\ Waiting(u)' <=> Waiting(u) /\ u # t
  <2>1. \A i \in 1 .. Len(order) : order[i] = t => i = k + 1
    BY <1>0, <1>1 DEF LInv, OrderOK
  <2>2. \A u : Taken(u)' <=> Taken(u) \/ u = t
    BY <1>0, <1>1 DEF Taken
  <2>3. \A u : Waiting(u)' <=> Waiting(u) /\ u # t
    BY <1>0, <1>1, <2>1 DEF Waiting
  <2>4. QED
    BY <2>2, <2>3
<1>7. \A u \in Tasks : HeldByNone(u)' <=> HeldByNone(u) /\ u # t
  BY <1>2, <1>5, CellsAssumption DEF HeldByNone
<1>8. HoldOK'
  <2>1. \A x \in Threads : Taken(hand[x])' <=> hand'[x] = t \/ \E i \in 1 .. k : order[i] = hand'[x]
    BY <1>0, <1>1 DEF Taken
  <2>2. \A x \in Threads : hand[x] # t
    BY <1>4 DEF HeldByNone
  <2>3. ASSUME NEW x \in Threads, hand'[x] # Nil
        PROVE  /\ pc'[x] \in HandLabels
               /\ heap'[hand'[x]] = "alloc" /\ runs'[hand'[x]] = 0
               /\ pc'[x] \in TakenLabels => Taken(hand[x])'
    <3>1. CASE x = th
      BY <1>1, <1>3, <1>5, <2>1, <3>1 DEF DoneOK, HandLabels, TakenLabels
    <3>2. CASE x # th
      BY <1>0, <1>1, <1>5, <2>1, <2>3, <3>2 DEF HoldOK, Taken
    <3>3. QED
      BY <3>1, <3>2
  <2>4. \A x, y \in Threads : hand'[x] = hand'[y] /\ hand'[x] # Nil => x = y
    BY <1>5, <2>2 DEF HoldOK
  <2>5. QED
    BY <2>3, <2>4 DEF HoldOK
<1>9. Draining => Draining'
  BY <1>1 DEF Draining, PopLabels, TInv, TypeOK
<1>10. DoneOK'
  BY <1>1, <1>3, <1>6, <1>7, <1>9 DEF DoneOK
<1>11. QED
  BY <1>8, <1>10

(* A task leaves its thread for good: it has run (n = 1), or it is dropped *)
(* by the owner (n = 0).                                                   *)
LEMMA ReleaseMoves ==
  ASSUME TInv, LInv, HoldOK, DoneOK, NEW th \in Threads, NEW t \in Tasks, NEW n \in {0, 1},
         hand[th] = t, pc[th] \in {"run", "drain_free"},
         heap' = [heap EXCEPT ![t] = "freed"], hand' = [hand EXCEPT ![th] = Nil],
         runs' = [runs EXCEPT ![t] = @ + n], UNCHANGED <<order, taken>>,
         \A x \in Threads \ {th} : pc'[x] = pc[x],
         Draining => Draining', n = 0 => Draining'
  PROVE  HoldOK' /\ DoneOK'
<1>1. t # Nil /\ Taken(t) /\ ~Waiting(t) /\ runs[t] = 0
  BY CellsAssumption, TakenOrWaiting DEF HoldOK, TakenLabels
<1>2. /\ \A x \in Threads : hand'[x] = IF x = th THEN Nil ELSE hand[x]
      /\ \A u \in Tasks : heap'[u] = IF u = t THEN "freed" ELSE heap[u]
      /\ \A u \in Tasks : runs'[u] = IF u = t THEN n ELSE runs[u]
  BY <1>1 DEF TInv, TypeOK
<1>3. \A x \in Threads \ {th} : hand[x] # t
  BY <1>1 DEF HoldOK
<1>4. \A u : (Taken(u)' <=> Taken(u)) /\ (Waiting(u)' <=> Waiting(u))
  BY DEF Taken, Waiting
<1>5. \A u \in Tasks \ {t} : HeldByNone(u)' <=> HeldByNone(u)
  BY <1>2, CellsAssumption DEF HeldByNone
<1>6. HoldOK'
  <2>1. ASSUME NEW x \in Threads, hand'[x] # Nil
        PROVE  /\ pc'[x] \in HandLabels
               /\ heap'[hand'[x]] = "alloc" /\ runs'[hand'[x]] = 0
               /\ pc'[x] \in TakenLabels => Taken(hand[x])'
    <3>1. x # th /\ hand'[x] = hand[x] /\ hand[x] \in Tasks \ {t} /\ pc'[x] = pc[x]
      BY <1>2, <1>3, <2>1 DEF TInv, TypeOK
    <3>2. Taken(hand[x])' <=> Taken(hand[x])
      BY <3>1 DEF Taken
    <3>3. QED
      BY <1>2, <3>1, <3>2, CellsAssumption DEF HoldOK
  <2>2. \A x, y \in Threads : hand'[x] = hand'[y] /\ hand'[x] # Nil => x = y
    BY <1>2 DEF HoldOK
  <2>3. QED
    BY <2>1, <2>2 DEF HoldOK
<1>7. DoneOK'
  BY <1>1, <1>2, <1>4, <1>5 DEF DoneOK
<1>8. QED
  BY <1>6, <1>7

LEMMA KInit == Init => KInv
<1> SUFFICES ASSUME Init PROVE KInv
  OBVIOUS
<1>1. /\ Len(order) = 0 /\ taken = 0 /\ pc[Owner] = "c_pool"
      /\ \A th \in Threads : hand[th] = Nil
      /\ \A t \in Tasks : heap[t] = "unused" /\ runs[t] = 0
  BY ThreadsAssumption DEF Init, Threads, Posters
<1>2. \A t : ~Taken(t) /\ ~Waiting(t)
  BY <1>1 DEF Taken, Waiting
<1>3. QED
  BY <1>1, <1>2 DEF KInv, HoldOK, DoneOK, DrainedOK

LEMMA HoldStep == TInv /\ LInv /\ PInv /\ KInv /\ [Next]_vars => HoldOK' /\ DoneOK'
<1> SUFFICES ASSUME TInv, LInv, PInv, KInv, [Next]_vars PROVE HoldOK' /\ DoneOK'
  OBVIOUS
<1>0. KeepsTasks => HoldOK' /\ DoneOK'
  BY TasksFrame DEF KInv
<1>1. ASSUME NEW th \in Threads, NEW t \in Tasks, thrdpool_post(th, t)
      PROVE  HoldOK' /\ DoneOK'
  BY <1>1, PostMoves DEF KInv
<1>2. ASSUME NEW th \in Threads, add_link(th) PROVE HoldOK' /\ DoneOK'
  BY <1>2, LinkMoves DEF KInv
<1>3. ASSUME NEW th \in Threads, add_tail(th) PROVE HoldOK' /\ DoneOK'
  BY <1>3, TailMoves DEF KInv
<1>4. ASSUME NEW th \in Threads, pop_head(th) PROVE HoldOK' /\ DoneOK'
  BY <1>4, HeadMoves DEF KInv
<1>5. ASSUME NEW w \in Workers, worker_run(w) PROVE HoldOK' /\ DoneOK'
  <2>0. w \in Threads
    BY DEF Threads
  <2>1. PICK t \in Tasks : t = hand[w]
    BY <1>5, <2>0 DEF worker_run, TInv, HandOK
  <2>2. /\ pc[w] = "run" /\ heap' = [heap EXCEPT ![t] = "freed"]
        /\ hand' = [hand EXCEPT ![w] = Nil] /\ runs' = [runs EXCEPT ![t] = @ + 1]
        /\ UNCHANGED <<order, taken>> /\ pc' = [pc EXCEPT ![w] = "body"]
    BY <1>5, <2>1 DEF worker_run, Goto, listVars
  <2>3. /\ \A x \in Threads \ {w} : pc'[x] = pc[x]
        /\ Draining => Draining'
    BY <2>2, ThreadsAssumption DEF Draining, TInv, TypeOK, Threads, Posters
  <2>4. 1 \in {0, 1} /\ (1 = 0 => Draining')
    OBVIOUS
  <2>5. QED
    BY <2>0, <2>1, <2>2, <2>3, <2>4, ReleaseMoves DEF KInv
<1>6. ASSUME drain_free PROVE HoldOK' /\ DoneOK'
  <2>0. Owner \in Threads
    BY DEF Threads, Posters
  <2>1. PICK t \in Tasks : t = hand[Owner]
    BY <1>6, <2>0 DEF drain_free, TInv, HandOK
  <2>2. /\ pc[Owner] = "drain_free" /\ heap' = [heap EXCEPT ![t] = "freed"]
        /\ hand' = [hand EXCEPT ![Owner] = Nil] /\ runs' = runs
        /\ UNCHANGED <<order, taken>> /\ pc' = [pc EXCEPT ![Owner] = "pop_lock"]
    BY <1>6, <2>1 DEF drain_free, Goto, listVars
  <2>3. (\A x \in Threads \ {Owner} : pc'[x] = pc[x]) /\ Draining'
    BY <2>0, <2>2 DEF Draining, PopLabels, TInv, TypeOK
  <2>4. runs' = [runs EXCEPT ![t] = @ + 0]
    BY <2>2 DEF TInv, TypeOK
  <2>5. QED
    BY <2>0, <2>1, <2>2, <2>3, <2>4, ReleaseMoves DEF KInv
<1>7. ASSUME NEW th \in Threads, pop_empty(th) PROVE KeepsTasks
  <2>1. hand[th] = Nil
    BY <1>7 DEF pop_empty, KInv, HoldOK, HandLabels, TakenLabels
  <2>2. /\ UNCHANGED <<hand, heap, runs, order, taken>> /\ pc[th] = "pop_head"
        /\ pc' = [pc EXCEPT ![th] = "pop_unlock"]
    BY <1>7, <2>1 DEF pop_empty, Goto, listVars, TInv, TypeOK
  <2>3. QED
    BY <2>1, <2>2
    DEF KeepsTasks, KInv, HoldOK, Draining, PopLabels, TInv, TypeOK
<1> USE ThreadsAssumption
    DEF KInv, HoldOK, KeepsTasks, HandLabels, TakenLabels, TInv, TypeOK, PInv, PlaceOK, Goto,
        Draining, PopLabels, Threads, Posters, lifeVars, flagVars, listVars
<1>8. ASSUME NEW l \in DOMAIN CreateStep, Acquire(l) PROVE KeepsTasks
  BY <1>8, CreateRows DEF Acquire
<1>9. ASSUME NEW l \in DOMAIN CreateStep, AcquireFails(l) PROVE KeepsTasks
  BY <1>9, CreateRows DEF AcquireFails
<1>10. ASSUME NEW l \in DOMAIN UndoStep, Undo(l) PROVE KeepsTasks
  BY <1>10, CreateRows DEF Undo
<1>11. ASSUME NEW w \in Workers, pthread_create(w) PROVE KeepsTasks
  BY <1>11 DEF pthread_create
<1>12. ASSUME threads_created PROVE KeepsTasks
  BY <1>12 DEF threads_created
<1>13. ASSUME pthread_create_fails PROVE KeepsTasks
  BY <1>13 DEF pthread_create_fails
<1>14. ASSUME NEW th \in Threads, add_lock(th) PROVE KeepsTasks
  BY <1>14 DEF add_lock
<1>15. ASSUME NEW th \in Threads, add_unlock(th) PROVE KeepsTasks
  BY <1>15 DEF add_unlock
<1>16. ASSUME NEW th \in Threads, add_signal(th) PROVE KeepsTasks
  <2>1. CASE Goto(th, Resume(th))
    BY <1>16, <2>1 DEF add_signal, Resume
  <2>2. ASSUME NEW w \in Sleepers,
               pc' = [pc EXCEPT ![w] = "wake_lock", ![th] = Resume(th)]
        PROVE  KeepsTasks
    BY <1>16, <2>2 DEF add_signal, Sleepers, Resume
  <2>3. QED
    BY <1>16, <2>1, <2>2 DEF add_signal
<1>17. ASSUME NEW th \in Threads, pop_lock(th) PROVE KeepsTasks
  BY <1>17 DEF pop_lock
<1>18. ASSUME NEW th \in Threads, pop_tail(th) PROVE KeepsTasks
  BY <1>18 DEF pop_tail
<1>19. ASSUME NEW th \in Threads, pop_unlock(th) PROVE KeepsTasks
  BY <1>19 DEF pop_unlock, AfterPop
<1>20. ASSUME NEW th \in Threads, thrdpool_terminate(th) PROVE KeepsTasks
  BY <1>20 DEF thrdpool_terminate, MayCall
<1>21. ASSUME NEW th \in Threads, terminate_quit(th) PROVE KeepsTasks
  BY <1>21 DEF terminate_quit
<1>22. ASSUME NEW th \in Threads, nonblock_lock(th) PROVE KeepsTasks
  BY <1>22 DEF nonblock_lock
<1>23. ASSUME NEW th \in Threads, nonblock_store(th) PROVE KeepsTasks
  BY <1>23 DEF nonblock_store
<1>24. ASSUME NEW th \in Threads, nonblock_broadcast(th) PROVE KeepsTasks
  BY <1>24 DEF nonblock_broadcast, Sleepers, AfterTerminate, Resume
<1>25. ASSUME NEW w \in Workers, wait_lock(w) PROVE KeepsTasks
  BY <1>25 DEF wait_lock
<1>26. ASSUME NEW w \in Workers, wait_refused(w) PROVE KeepsTasks
  BY <1>26 DEF wait_refused
<1>27. ASSUME NEW w \in Workers, wait_check(w) PROVE KeepsTasks
  BY <1>27 DEF wait_check
<1>28. ASSUME NEW w \in Workers, wait_sleep(w) PROVE KeepsTasks
  BY <1>28 DEF wait_sleep
<1>29. ASSUME NEW w \in Workers, spurious_wakeup(w) PROVE KeepsTasks
  BY <1>29 DEF spurious_wakeup
<1>30. ASSUME NEW w \in Workers, wake_lock(w) PROVE KeepsTasks
  BY <1>30 DEF wake_lock
<1>31. ASSUME NEW w \in Workers, worker_quit(w) PROVE KeepsTasks
  BY <1>31 DEF worker_quit
<1>32. ASSUME NEW w \in Workers, task_returns(w) PROVE KeepsTasks
  BY <1>32 DEF task_returns
<1>33. ASSUME NEW c \in Clients, client_leaves(c) PROVE KeepsTasks
  BY <1>33 DEF client_leaves, MayCall
<1>34. ASSUME thrdpool_waitdone PROVE KeepsTasks
  BY <1>34 DEF thrdpool_waitdone
<1>35. ASSUME join_threads PROVE KeepsTasks
  BY <1>35 DEF join_threads
<1>36. ASSUME taskqueue_destroy PROVE KeepsTasks
  BY <1>36 DEF taskqueue_destroy
<1>37. ASSUME UNCHANGED vars PROVE KeepsTasks
  BY <1>37 DEF vars
<1> HIDE DEF KInv, HoldOK, KeepsTasks, HandLabels, TakenLabels, TInv, TypeOK, PInv, PlaceOK,
        Goto, Draining, PopLabels, Threads, Posters, lifeVars, flagVars, listVars
<1>38. Workers \subseteq Threads /\ Owner \in Threads
  BY DEF Threads, Posters
<1>39. QED
  BY <1>0, <1>1, <1>2, <1>3, <1>4, <1>5, <1>6, <1>7, <1>8, <1>9, <1>10, <1>11,
     <1>12, <1>13, <1>14, <1>15, <1>16, <1>17, <1>18, <1>19, <1>20, <1>21, <1>22,
     <1>23, <1>24, <1>25, <1>26, <1>27, <1>28, <1>29, <1>30, <1>31, <1>32, <1>33,
     <1>34, <1>35, <1>36, <1>37, <1>38
  DEF Next, CallNext, PoolNext, CreateNext, AddNext, PopNext, TerminateNext,
      WorkerNext, DestroyNext, Finished

(* While the owner drains the queue nobody else is inside the library.     *)
LEMMA OnlyOwner ==
  ASSUME TInv, PInv, Draining, NEW th \in Threads, th # Owner
  PROVE  pc[th] \in {"unborn", "exited", "idle", "left"}
<1>1. CASE th \in Workers
  BY <1>1 DEF PInv, PlaceOK, JoinedOK
<1>2. CASE th \in Clients
  <2>1. phase \in {"rollback", "failed", "waiting", "done"}
    BY DEF Draining, PInv, PhaseOK, TInv, TypeOK, GrowLabels, PostLabels, TermLabels,
           PopLabels
  <2>2. QED
    BY <1>2, <2>1 DEF PInv, PhaseOK
<1>3. QED
  BY <1>1, <1>2 DEF Threads, Posters

(* A step that leaves the owner at its place with what it has in hand.     *)
LEMMA DrainedFrame ==
  ASSUME TInv, LInv, PInv, KInv, Owner \in Threads,
         pc'[Owner] = pc[Owner], hand'[Owner] = hand[Owner],
         UNCHANGED <<order, taken>> \/ ~Draining
  PROVE  DrainedOK'
BY DEF KInv, DrainedOK, Draining, PopLabels

LEMMA DrainedStep == TInv /\ LInv /\ PInv /\ KInv /\ [Next]_vars => DrainedOK'
<1> SUFFICES ASSUME TInv, LInv, PInv, KInv, [Next]_vars PROVE DrainedOK'
  OBVIOUS
<1>0. /\ pc \in [Threads -> Labels] /\ hand \in [Threads -> Tasks \cup {Nil}]
      /\ Owner \in Threads /\ Workers \subseteq Threads /\ Owner \notin Workers
  BY ThreadsAssumption DEF TInv, TypeOK, Threads, Posters
<1> USE DEF Goto, listVars
<1>1. ASSUME NEW l \in DOMAIN CreateStep, Acquire(l) \/ AcquireFails(l) PROVE DrainedOK'
  <2>1. phase = "creating"
    BY <1>1, CreateRows DEF Acquire, AcquireFails, PInv, PhaseOK, GrowLabels
  <2>2. UNCHANGED <<order, taken>> /\ taken = Len(order)
    BY <1>1, <2>1, TakenOrWaiting DEF Acquire, AcquireFails, PInv, EarlyOK
  <2>3. QED
    BY <2>2 DEF DrainedOK
<1>2. ASSUME NEW l \in DOMAIN UndoStep, Undo(l) PROVE DrainedOK'
  <2>1. phase = "rollback"
    BY <1>2, CreateRows
    DEF Undo, PInv, PhaseOK, TInv, TypeOK, GrowLabels, PostLabels, TermLabels, DrainLabels,
        PopLabels
  <2>2. UNCHANGED <<order, taken>> /\ taken = Len(order)
    BY <1>2, <2>1, TakenOrWaiting DEF Undo, PInv, EarlyOK
  <2>3. QED
    BY <2>2 DEF DrainedOK
<1>3. ASSUME pop_empty(Owner) PROVE DrainedOK'
  <2>1. link[HeadCell] = Nil /\ UNCHANGED <<order, taken>>
    BY <1>3 DEF pop_empty
  <2>2. taken = Len(order)
    <3>1. /\ taken \in Nat /\ Len(order) \in Nat /\ taken <= Len(order)
          /\ link[HeadCell] = IF taken = Len(order) THEN Nil ELSE order[taken + 1]
      BY DEF LInv, ListIsQueue, CellBefore, TInv, TypeOK
    <3>2. taken < Len(order) => order[taken + 1] \in Tasks
      BY <3>1 DEF TInv, TypeOK
    <3>3. QED
      BY <2>1, <3>1, <3>2, CellsAssumption
  <2>3. QED
    BY <2>1, <2>2 DEF DrainedOK
<1>4. ASSUME pop_unlock(Owner) PROVE DrainedOK'
  BY <1>0, <1>4 DEF pop_unlock, AfterPop, KInv, DrainedOK
<1>5. ASSUME taskqueue_destroy PROVE DrainedOK'
  BY <1>0, <1>5 DEF taskqueue_destroy, KInv, DrainedOK
<1>6. ASSUME pop_tail(Owner) PROVE DrainedOK'
  <2>1. hand'[Owner] \in Tasks /\ pc'[Owner] = "pop_unlock"
    BY <1>0, <1>6 DEF pop_tail, TInv, HandOK
  <2>2. QED
    BY <2>1, CellsAssumption DEF DrainedOK
<1>7. ASSUME pop_lock(Owner) \/ pop_head(Owner) \/ drain_free \/ join_threads
      PROVE  DrainedOK'
  BY <1>0, <1>7 DEF pop_lock, pop_head, drain_free, join_threads, DrainedOK
<1>8. ASSUME threads_created \/ pthread_create_fails \/ thrdpool_waitdone PROVE DrainedOK'
  BY <1>0, <1>8 DEF threads_created, pthread_create_fails, thrdpool_waitdone, DrainedOK
<1>9. ASSUME NEW th \in Threads, NEW t \in Tasks, thrdpool_post(th, t) PROVE DrainedOK'
  <2>1. CASE th = Owner
    BY <1>0, <1>9, <2>1 DEF thrdpool_post, DrainedOK
  <2>2. CASE th # Owner
    BY <1>0, <1>9, <2>2, DrainedFrame DEF thrdpool_post
  <2>3. QED
    BY <2>1, <2>2
<1>10. ASSUME NEW th \in Threads, AddNext(th) PROVE DrainedOK'
  <2>1. CASE th = Owner
    BY <1>0, <1>10, <2>1, ThreadsAssumption
    DEF AddNext, add_lock, add_link, add_tail, add_unlock, add_signal, Sleepers, Resume,
        DrainedOK
  <2>2. CASE th # Owner
    <3>1. pc'[Owner] = pc[Owner] /\ hand'[Owner] = hand[Owner]
      BY <1>0, <1>10, <2>2
      DEF AddNext, add_lock, add_link, add_tail, add_unlock, add_signal, Sleepers
    <3>2. UNCHANGED <<order, taken>> \/ pc[th] = "add_link"
      BY <1>10 DEF AddNext, add_lock, add_link, add_tail, add_unlock, add_signal
    <3>3. UNCHANGED <<order, taken>> \/ ~Draining
      BY <2>2, <3>2, OnlyOwner
    <3>4. QED
      BY <1>0, <3>1, <3>3, DrainedFrame
  <2>3. QED
    BY <2>1, <2>2
<1>11. ASSUME NEW th \in Threads, TerminateNext(th) \/ thrdpool_terminate(th)
       PROVE  DrainedOK'
  <2>1. CASE th = Owner
    BY <1>0, <1>11, <2>1, ThreadsAssumption
    DEF TerminateNext, terminate_quit, nonblock_lock, nonblock_store, nonblock_broadcast,
        thrdpool_terminate, AfterTerminate, Resume, DrainedOK
  <2>2. CASE th # Owner
    <3>1. pc'[Owner] = pc[Owner] /\ UNCHANGED <<hand, order, taken>>
      BY <1>0, <1>11, <2>2
      DEF TerminateNext, terminate_quit, nonblock_lock, nonblock_store, nonblock_broadcast,
          thrdpool_terminate, Sleepers
    <3>2. QED
      BY <1>0, <3>1, DrainedFrame
  <2>3. QED
    BY <2>1, <2>2
<1>12. ASSUME NEW w \in Workers,
              WorkerNext(w) \/ spurious_wakeup(w) \/ pthread_create(w)
       PROVE  DrainedOK'
  <2>1. pc'[Owner] = pc[Owner] /\ hand'[Owner] = hand[Owner]
    BY <1>0, <1>12
    DEF WorkerNext, PopNext, pop_lock, pop_empty, pop_head, pop_tail, pop_unlock, wait_lock,
        wait_refused, wait_check, wait_sleep, wake_lock, worker_quit, worker_run,
        task_returns, spurious_wakeup, pthread_create
  <2>2. UNCHANGED <<order, taken>> \/ pc[w] = "pop_head"
    BY <1>12
    DEF WorkerNext, PopNext, pop_lock, pop_empty, pop_head, pop_tail, pop_unlock, wait_lock,
        wait_refused, wait_check, wait_sleep, wake_lock, worker_quit, worker_run,
        task_returns, spurious_wakeup, pthread_create
  <2>3. UNCHANGED <<order, taken>> \/ ~Draining
    BY <1>0, <2>2, OnlyOwner
  <2>4. QED
    BY <1>0, <2>1, <2>3, DrainedFrame
<1>13. ASSUME NEW c \in Clients, client_leaves(c) PROVE DrainedOK'
  <2>1. pc'[Owner] = pc[Owner] /\ UNCHANGED <<hand, order, taken>>
    BY <1>0, <1>13, ThreadsAssumption DEF client_leaves
  <2>2. QED
    BY <1>0, <2>1, DrainedFrame
<1>14. CASE UNCHANGED vars
  BY <1>0, <1>14, DrainedFrame DEF vars
<1>15. QED
  BY <1>1, <1>2, <1>3, <1>4, <1>5, <1>6, <1>7, <1>8, <1>9, <1>10, <1>11, <1>12, <1>13,
     <1>14
  DEF Next, CallNext, PoolNext, CreateNext, DestroyNext, PopNext, Finished

LEMMA TaskInvariant == Spec => [](TInv /\ LInv /\ PInv /\ KInv)
<1>1. Init => TInv /\ LInv /\ PInv /\ KInv
  BY TInit, LInit, PInit, KInit
<1>2. (TInv /\ LInv /\ PInv /\ KInv) /\ [Next]_vars => (TInv /\ LInv /\ PInv /\ KInv)'
  BY TStep, LStep, PStep, HoldStep, DrainedStep DEF KInv
<1>3. QED
  BY <1>1, <1>2, PTL DEF Spec

(* Every task __pop_task hands out is run exactly once, unless the owner   *)
(* drops it after the workers were joined, for any number of threads and   *)
(* tasks.                                                                  *)
THEOREM RunsExactlyOnce == Spec => []ExactlyOnce
<1>1. TInv /\ LInv /\ KInv => ExactlyOnce
  <2> SUFFICES ASSUME TInv, LInv, KInv PROVE ExactlyOnce
    OBVIOUS
  <2>0. taken \in Nat /\ Len(order) \in Nat /\ taken <= Len(order)
    BY TakenOrWaiting
  <2>1. ASSUME NEW i \in 1 .. taken
        PROVE  LET t == order[i] IN
               \/ runs[t] = 1 /\ HeldByNone(t)
               \/ runs[t] = 0 /\ HeldOnce(t)
               \/ runs[t] = 0 /\ HeldByNone(t) /\ Draining
    <3>1. order[i] \in Tasks /\ Taken(order[i]) /\ order[i] # Nil
      BY <2>0, CellsAssumption DEF Taken, TInv, TypeOK
    <3>2. CASE HeldByNone(order[i])
      BY <3>1, <3>2 DEF KInv, DoneOK
    <3>3. CASE ~HeldByNone(order[i])
      <4>1. PICK th \in Threads : hand[th] = order[i]
        BY <3>3 DEF HeldByNone
      <4>2. runs[order[i]] = 0 /\ \A x \in Threads : hand[x] = order[i] <=> x = th
        BY <3>1, <4>1 DEF KInv, HoldOK
      <4>3. QED
        BY <4>2 DEF HeldOnce
    <3>4. QED
      BY <3>2, <3>3
  <2>2. ASSUME NEW i \in taken + 1 .. Len(order) PROVE runs[order[i]] = 0
    <3>1. order[i] \in Tasks /\ Waiting(order[i])
      BY <2>0 DEF Waiting, TInv, TypeOK
    <3>2. QED
      BY <3>1 DEF KInv, DoneOK
  <2>3. QED
    BY <2>1, <2>2 DEF ExactlyOnce
<1>2. QED
  BY <1>1, TaskInvariant, PTL

(* Nobody is about to use the pool, its queue, its locks or a task node    *)
(* that was freed: the joins of thrdpool_waitdone and of the rollback of   *)
(* thrdpool_create come before what they free.                             *)
THEOREM NothingUsedAfterFree == Spec => []NoUseAfterFree
<1>1. TInv /\ LInv /\ PInv /\ KInv => NoUseAfterFree
  <2> SUFFICES ASSUME TInv, LInv, PInv, KInv PROVE NoUseAfterFree
    OBVIOUS
  <2>1. ASSUME NEW th \in Threads, pc[th] \in UsesQueue PROVE Core \subseteq live
    <3>1. CASE th \in Workers
      <4>1. th \in started /\ pc[th] # "exited"
        BY <2>1, <3>1 DEF PInv, PlaceOK, UsesQueue, PostLabels, PopLabels, WaitLabels,
                          TermLabels
      <4>2. ~Draining /\ pc[Owner] \notin GrowLabels \cup UndoLabels
        BY <4>1 DEF PInv, JoinedOK
      <4>3. \/ pc[Owner] = "spawn" \/ phase \in {"up", "waiting"}
            \/ phase = "rollback" /\ pc[Owner] \in TermLabels \cup {"join"}
        BY <4>2 DEF PInv, PhaseOK, TInv, TypeOK, Draining, DrainLabels
      <4>4. QED
        BY <4>3 DEF PInv, LiveOK, Core, Resources
    <3>2. CASE th \in Clients
      <4>1. pc[th] \in PostLabels \cup TermLabels
        BY <2>1, <3>2 DEF PInv, PlaceOK, UsesQueue, PopLabels, WaitLabels
      <4>2. phase = "up"
        BY <3>2, <4>1 DEF PInv, PhaseOK, TInv, TypeOK, PostLabels, TermLabels
      <4>3. QED
        BY <4>2 DEF PInv, LiveOK
    <3>3. CASE th = Owner
      <4>1. \/ phase \in {"up", "waiting"}
            \/ phase = "rollback" /\ pc[Owner] \in TermLabels \cup {"join"}
            \/ phase = "rollback" /\ pc[Owner] \in DrainLabels
        BY <2>1, <3>3
        DEF PInv, PhaseOK, TInv, TypeOK, UsesQueue, PostLabels, PopLabels, WaitLabels,
            TermLabels, GrowLabels, UndoLabels, DrainLabels
      <4>2. QED
        BY <4>1 DEF PInv, LiveOK, Core
    <3>4. QED
      BY <3>1, <3>2, <3>3 DEF Threads, Posters
  <2>2. ASSUME NEW i \in taken + 1 .. Len(order) PROVE heap[order[i]] = "alloc"
    <3>1. order[i] \in Tasks /\ Waiting(order[i])
      BY TakenOrWaiting DEF Waiting, TInv, TypeOK
    <3>2. QED
      BY <3>1 DEF KInv, DoneOK
  <2>3. pc[Owner] \in {"join", "spawn"} => {"pool", "threads"} \subseteq live
    BY DEF PInv, PhaseOK, LiveOK, TInv, TypeOK, Core, Resources, PostLabels, TermLabels,
           GrowLabels
  <2>4. QED
    BY <2>1, <2>2, <2>3 DEF NoUseAfterFree, KInv, HoldOK, Core
<1>2. QED
  BY <1>1, TaskInvariant, PTL

(* When thrdpool_waitdone has returned, or thrdpool_create has returned    *)
(* NULL, no worker runs, no task node is allocated and every resource but  *)
(* the thread attributes was released.                                     *)
THEOREM ReleasesEverything == Spec => []EverythingReleased
<1>1. TInv /\ LInv /\ PInv /\ KInv => EverythingReleased
  <2> SUFFICES ASSUME TInv, LInv, PInv, KInv, phase \in {"done", "failed"}
               PROVE  /\ live \subseteq {"attr"}
                      /\ \A t \in Tasks : heap[t] # "alloc"
                      /\ \A w \in Workers : pc[w] \in {"unborn", "exited"}
    BY DEF EverythingReleased
  <2>1. pc[Owner] = "gone" /\ Draining /\ Owner \in Threads /\ Workers \subseteq Threads
    BY DEF PInv, PhaseOK, Draining, Threads, Posters
  <2>2. \A w \in Workers : pc[w] \in {"unborn", "exited"}
    BY <2>1 DEF PInv, PlaceOK, JoinedOK
  <2>3. \A th \in Threads : hand[th] = Nil
    BY <2>1, OnlyOwner DEF KInv, HoldOK, HandLabels, TakenLabels
  <2>4. taken = Len(order)
    BY <2>1 DEF KInv, DrainedOK
  <2>5. \A t \in Tasks : ~Waiting(t) /\ HeldByNone(t)
    BY <2>3, <2>4, CellsAssumption, TakenOrWaiting DEF Waiting, HeldByNone
  <2>6. QED
    BY <2>1, <2>2, <2>5 DEF KInv, DoneOK, PInv, LiveOK
<1>2. QED
  BY <1>1, TaskInvariant, PTL

-----------------------------------------------------------------------------
(* The refinement of JobPool.                                              *)

InHand(t) == \E w \in Workers : hand[w] = t
Closed    == quit = 1 \/ phase \in {"waiting", "done"}

JobOf(t) ==
  IF runs[t] > 0 THEN "finished"
  ELSE IF Waiting(t) THEN "queued"
  ELSE IF ~Taken(t) THEN "new"
  ELSE IF InHand(t) THEN "started" ELSE "discarded"

LEMMA JobStateOf ==
  /\ JobState = [t \in Tasks |-> JobOf(t)]
  /\ JobState' = [t \in Tasks |-> JobOf(t)']
BY DEF JobState, JobOf, Waiting, Taken, InHand

(* A step that moves no task between the places JobPool tells apart.       *)
LEMMA JobsFrame ==
  ASSUME UNCHANGED <<runs, order, taken>>,
         \A t \in Tasks : Taken(t) => (InHand(t)' <=> InHand(t))
  PROVE  JobState' = JobState
<1>1. \A t : (Taken(t)' <=> Taken(t)) /\ (Waiting(t)' <=> Waiting(t))
  BY DEF Taken, Waiting
<1>2. \A t \in Tasks : JobOf(t)' = JobOf(t)
  BY <1>1 DEF JobOf
<1>3. QED
  BY <1>2, JobStateOf

(* One task moves and the others stay where they are.                      *)
LEMMA JobMoves ==
  ASSUME NEW t \in Tasks, NEW to, JobOf(t)' = to,
         \A u \in Tasks \ {t} : JobOf(u)' = JobOf(u)
  PROVE  JobState' = [JobState EXCEPT ![t] = to] /\ JobState[t] = JobOf(t)
BY JobStateOf

(* The tasks that are started are in the hands of workers, one each.       *)
LEMMA RoomToStart ==
  ASSUME NEW w \in Workers, hand[w] = Nil
  PROVE  Cardinality({t \in Tasks : JobState[t] = "started"}) < Cardinality(Workers)
<1> DEFINE Started == {t \in Tasks : JobState[t] = "started"}
           Holder  == [t \in Started |-> CHOOSE x \in Workers : hand[x] = t]
           Others  == Workers \ {w}
<1>1. \A t \in Started : t \in Tasks /\ InHand(t)
  BY JobStateOf DEF JobOf
<1>2. \A t \in Started : Holder[t] \in Others /\ hand[Holder[t]] = t
  BY <1>1, CellsAssumption DEF InHand
<1>3. Holder \in Injection(Started, Others)
  <2>1. Holder \in [Started -> Others]
    BY <1>2
  <2>2. \A s, t \in Started : Holder[s] = Holder[t] => s = t
    BY <1>2
  <2>3. QED
    BY <2>1, <2>2 DEF Injection, IsInjective
<1>4. /\ IsFiniteSet(Others) /\ Cardinality(Others) = Cardinality(Workers) - 1
      /\ Cardinality(Workers) \in Nat
  BY ThreadsAssumption, FS_RemoveElement, FS_CardinalityType
<1>5. IsFiniteSet(Started) /\ Cardinality(Started) <= Cardinality(Others)
  BY <1>3, <1>4, FS_Injection
<1>6. Cardinality(Started) \in Nat
  BY <1>5, FS_CardinalityType
<1>7. QED
  BY <1>4, <1>5, <1>6

LEMMA AcceptJob ==
  ASSUME TInv, LInv, KInv, NEW th \in Threads, add_link(th) PROVE Pool!Next
<1>0. PICK t \in Tasks : t = hand[th]
  BY DEF add_link, TInv, HandOK
<1>1. /\ order' = Append(order, t) /\ ~Linked(t)
      /\ UNCHANGED <<hand, taken, runs, quit, phase>>
  BY <1>0 DEF add_link, lifeVars, flagVars, LInv, PostOK
<1>2. /\ taken \in Nat /\ Len(order) \in Nat /\ taken <= Len(order)
      /\ Len(order') = Len(order) + 1 /\ order'[Len(order) + 1] = t
      /\ \A i \in 1 .. Len(order) : order'[i] = order[i]
  BY <1>1, TakenOrWaiting DEF TInv, TypeOK
<1>3. \A u : /\ Taken(u)' <=> Taken(u)
             /\ Waiting(u)' <=> Waiting(u) \/ u = t
             /\ InHand(u)' <=> InHand(u)
  BY <1>1, <1>2 DEF Taken, Waiting, InHand
<1>4. ~Taken(t) /\ ~Waiting(t) /\ runs[t] = 0
  BY <1>1, TakenOrWaiting DEF KInv, DoneOK
<1>5. JobOf(t) = "new" /\ JobOf(t)' = "queued"
  BY <1>1, <1>3, <1>4 DEF JobOf
<1>6. \A u \in Tasks \ {t} : JobOf(u)' = JobOf(u)
  BY <1>1, <1>3 DEF JobOf
<1>7. JobState' = [JobState EXCEPT ![t] = "queued"] /\ JobState[t] = "new"
  BY <1>5, <1>6, JobMoves
<1>8. QED
  BY <1>1, <1>7 DEF Pool!Next, Pool!Accept, Pool!Move

(* A worker starts the task it takes, the owner discards it.               *)
LEMMA TakeJob ==
  ASSUME TInv, LInv, PInv, KInv, NEW th \in Workers \cup {Owner}, pop_head(th)
  PROVE  Pool!Next
<1>0. PICK k \in Nat, t \in Tasks : k = taken /\ t = order[taken + 1]
  BY HeadIsFirst DEF pop_head
<1>1. /\ pc[th] = "pop_head" /\ hand' = [hand EXCEPT ![th] = t] /\ taken' = k + 1
      /\ k < Len(order) /\ Len(order) \in Nat /\ th \in Threads
      /\ UNCHANGED <<order, runs, quit, phase>>
  BY <1>0, HeadIsFirst DEF pop_head, lifeVars, flagVars, Threads, Posters
<1>2. hand[th] = Nil /\ t # Nil
  BY <1>1, CellsAssumption DEF KInv, HoldOK, HandLabels, TakenLabels
<1>3. Waiting(t) /\ ~Taken(t)
  BY <1>0, <1>1, TakenOrWaiting DEF Waiting
<1>4. runs[t] = 0
  BY <1>3 DEF KInv, DoneOK
<1>5. \A u : /\ Taken(u)' <=> Taken(u) \/ u = t
             /\ Waiting(u)' <=> Waiting(u) /\ u # t
  <2>1. \A i \in 1 .. Len(order) : order[i] = t => i = k + 1
    BY <1>0, <1>1 DEF LInv, OrderOK
  <2>2. \A u : Taken(u)' <=> Taken(u) \/ u = t
    BY <1>0, <1>1 DEF Taken
  <2>3. \A u : Waiting(u)' <=> Waiting(u) /\ u # t
    BY <1>0, <1>1, <2>1 DEF Waiting
  <2>4. QED
    BY <2>2, <2>3
<1>6. \A x \in Threads : hand'[x] = IF x = th THEN t ELSE hand[x]
  BY <1>1 DEF TInv, TypeOK
<1>7. Workers \subseteq Threads
  BY DEF Threads
<1>8. \A u \in Tasks \ {t} : InHand(u)' <=> InHand(u)
  BY <1>2, <1>6, <1>7, CellsAssumption DEF InHand
<1>9. \A u \in Tasks \ {t} : JobOf(u)' = JobOf(u)
  BY <1>1, <1>5, <1>8 DEF JobOf
<1>10. JobOf(t) = "queued"
  BY <1>3, <1>4 DEF JobOf
<1>11. CASE th \in Workers
  <2>1. InHand(t)'
    BY <1>1, <1>6, <1>11 DEF InHand
  <2>2. JobOf(t)' = "started"
    BY <1>1, <1>4, <1>5, <2>1 DEF JobOf
  <2>3. JobState' = [JobState EXCEPT ![t] = "started"] /\ JobState[t] = "queued"
    BY <1>9, <1>10, <2>2, JobMoves
  <2>4. Cardinality({u \in Tasks : JobState[u] = "started"}) < Cardinality(Workers)
    BY <1>2, <1>11, RoomToStart
  <2>5. ASSUME NEW S PROVE Pool!Cardinality(S) = Cardinality(S)
    BY DEF Pool!Cardinality, Cardinality
  <2>6. QED
    BY <1>1, <2>3, <2>4, <2>5 DEF Pool!Next, Pool!Start, Pool!Move
<1>12. CASE th = Owner
  <2>1. \A x \in Workers : hand[x] # t
    <3> SUFFICES ASSUME NEW x \in Workers, hand[x] = t PROVE FALSE
      OBVIOUS
    <3>1. Draining /\ x # Owner /\ x \in Threads
      BY <1>1, <1>7, <1>12, ThreadsAssumption DEF Draining, PopLabels
    <3>2. QED
      BY <1>2, <3>1, OnlyOwner DEF KInv, HoldOK, HandLabels, TakenLabels
  <2>2. ~InHand(t)'
    BY <1>6, <1>7, <1>12, <2>1, ThreadsAssumption DEF InHand
  <2>3. JobOf(t)' = "discarded"
    BY <1>1, <1>4, <1>5, <2>2 DEF JobOf
  <2>4. JobState' = [JobState EXCEPT ![t] = "discarded"] /\ JobState[t] = "queued"
    BY <1>9, <1>10, <2>3, JobMoves
  <2>5. JobState' = [j \in Tasks |-> IF j \in {t} THEN "discarded" ELSE JobState[j]]
    BY <2>4, JobStateOf
  <2>6. phase = "waiting"
    <3>1. phase \notin {"creating", "rollback", "failed"}
      BY <1>1, NoTaskEarly
    <3>2. QED
      BY <1>1, <1>12, <3>1 DEF PInv, PhaseOK, TInv, TypeOK, PostLabels, TermLabels
  <2>7. Pool!Discard({t})
    BY <1>1, <2>4, <2>5, <2>6 DEF Pool!Discard
  <2>8. QED
    BY <2>7 DEF Pool!Next
<1>13. QED
  BY <1>11, <1>12

LEMMA FinishJob ==
  ASSUME TInv, LInv, KInv, NEW w \in Workers, worker_run(w) PROVE Pool!Next
<1>0. w \in Threads /\ Workers \subseteq Threads
  BY DEF Threads
<1>1. PICK t \in Tasks : t = hand[w]
  BY <1>0 DEF worker_run, TInv, HandOK
<1>2. /\ pc[w] = "run" /\ runs' = [runs EXCEPT ![t] = @ + 1]
      /\ hand' = [hand EXCEPT ![w] = Nil]
      /\ UNCHANGED <<order, taken, quit, phase>>
  BY <1>1 DEF worker_run, listVars, lifeVars, flagVars
<1>3. t # Nil /\ Taken(t) /\ ~Waiting(t) /\ runs[t] = 0 /\ InHand(t)
  BY <1>0, <1>1, <1>2, CellsAssumption, TakenOrWaiting DEF KInv, HoldOK, TakenLabels, InHand
<1>4. /\ \A x \in Threads : hand'[x] = IF x = w THEN Nil ELSE hand[x]
      /\ \A u \in Tasks : runs'[u] = IF u = t THEN 1 ELSE runs[u]
  BY <1>0, <1>2, <1>3 DEF TInv, TypeOK
<1>5. \A u : (Taken(u)' <=> Taken(u)) /\ (Waiting(u)' <=> Waiting(u))
  BY <1>2 DEF Taken, Waiting
<1>6. \A u \in Tasks \ {t} : InHand(u)' <=> InHand(u)
  BY <1>0, <1>1, <1>4, CellsAssumption DEF InHand
<1>7. JobOf(t) = "started" /\ JobOf(t)' = "finished"
  BY <1>3, <1>4 DEF JobOf
<1>8. \A u \in Tasks \ {t} : JobOf(u)' = JobOf(u)
  BY <1>4, <1>5, <1>6 DEF JobOf
<1>9. JobState' = [JobState EXCEPT ![t] = "finished"] /\ JobState[t] = "started"
  BY <1>7, <1>8, JobMoves
<1>10. QED
  BY <1>2, <1>9 DEF Pool!Next, Pool!Finish, Pool!Move

(* A step that moves no task keeps the pool open, closes it or leaves it   *)
(* closed.                                                                 *)
LEMMA CloseOrStutter ==
  ASSUME JobState' = JobState, Closed => Closed'
  PROVE  Pool!Next \/ UNCHANGED <<JobState, quit = 1 \/ phase \in {"waiting", "done"}>>
BY DEF Closed, Pool!Next, Pool!Close

LEMMA ClosedStays == TInv /\ PInv /\ [Next]_vars => (Closed => Closed')
<1> SUFFICES ASSUME TInv, PInv, [Next]_vars, Closed PROVE Closed'
  OBVIOUS
<1> USE DEF lifeVars, flagVars
<1>1. ASSUME NEW l \in DOMAIN CreateStep, Acquire(l) \/ AcquireFails(l) PROVE Closed'
  BY <1>1, CreateRows DEF Acquire, AcquireFails, PInv, PhaseOK, GrowLabels, Closed
<1>2. ASSUME NEW l \in DOMAIN UndoStep, Undo(l) PROVE Closed'
  BY <1>2, CreateRows DEF Undo, PInv, PhaseOK, DrainLabels, PopLabels, Closed
<1>3. ASSUME threads_created \/ pthread_create_fails PROVE Closed'
  BY <1>3 DEF threads_created, pthread_create_fails, PInv, PhaseOK, Closed
<1>4. ASSUME thrdpool_waitdone PROVE Closed'
  BY <1>4 DEF thrdpool_waitdone, Closed
<1>5. ASSUME taskqueue_destroy PROVE Closed'
  BY <1>5 DEF taskqueue_destroy, PInv, PhaseOK, Closed
<1>6. ASSUME join_threads \/ drain_free \/ PopNext(Owner) PROVE Closed'
  BY <1>6 DEF join_threads, drain_free, PopNext, pop_lock, pop_empty, pop_head, pop_tail,
              pop_unlock, Closed
<1>7. ASSUME NEW th \in Threads,
             AddNext(th) \/ TerminateNext(th) \/ thrdpool_terminate(th)
      PROVE  Closed'
  BY <1>7 DEF AddNext, add_lock, add_link, add_tail, add_unlock, add_signal, TerminateNext,
              terminate_quit, nonblock_lock, nonblock_store, nonblock_broadcast,
              thrdpool_terminate, Closed
<1>8. ASSUME NEW th \in Threads, NEW t \in Tasks, thrdpool_post(th, t) PROVE Closed'
  BY <1>8 DEF thrdpool_post, Closed
<1>9. ASSUME NEW w \in Workers, WorkerNext(w) \/ spurious_wakeup(w) \/ pthread_create(w)
      PROVE  Closed'
  BY <1>9 DEF WorkerNext, PopNext, pop_lock, pop_empty, pop_head, pop_tail, pop_unlock,
              wait_lock, wait_refused, wait_check, wait_sleep, wake_lock, worker_quit,
              worker_run, task_returns, spurious_wakeup, pthread_create, Closed
<1>10. ASSUME NEW c \in Clients, client_leaves(c) PROVE Closed'
  BY <1>10 DEF client_leaves, Closed
<1>11. CASE UNCHANGED vars
  BY <1>11 DEF vars, Closed
<1>12. QED
  BY <1>1, <1>2, <1>3, <1>4, <1>5, <1>6, <1>7, <1>8, <1>9, <1>10, <1>11
  DEF Next, CallNext, PoolNext, CreateNext, DestroyNext, Finished

LEMMA PoolStep ==
  TInv /\ LInv /\ PInv /\ KInv /\ [Next]_vars =>
    [Pool!Next]_<<JobState, quit = 1 \/ phase \in {"waiting", "done"}>>
<1> SUFFICES ASSUME TInv, LInv, PInv, KInv, [Next]_vars,
                    ~\E th \in Threads : add_link(th),
                    ~\E th \in Workers \cup {Owner} : pop_head(th),
                    ~\E w \in Workers : worker_run(w)
             PROVE  JobState' = JobState
  BY AcceptJob, TakeJob, FinishJob, ClosedStays, CloseOrStutter
<1>0. /\ hand \in [Threads -> Tasks \cup {Nil}] /\ Workers \subseteq Threads
      /\ Owner \in Threads \ Workers
  BY ThreadsAssumption DEF TInv, TypeOK, Threads, Posters
<1>1. ASSUME UNCHANGED <<hand, runs, order, taken>> PROVE JobState' = JobState
  BY <1>1, JobsFrame DEF InHand
<1> USE DEF listVars
<1>2. ASSUME NEW th \in Threads, NEW t \in Tasks, thrdpool_post(th, t)
      PROVE  JobState' = JobState
  <2>1. ~Taken(t)
    BY <1>2, TakenOrWaiting DEF thrdpool_post, LInv, OrderOK
  <2>2. hand[th] = Nil
    BY <1>2 DEF thrdpool_post, MayCall, KInv, HoldOK, HandLabels, TakenLabels
  <2>3. \A x \in Threads : hand'[x] = IF x = th THEN t ELSE hand[x]
    BY <1>0, <1>2 DEF thrdpool_post
  <2>4. \A u \in Tasks \ {t} : InHand(u)' <=> InHand(u)
    BY <1>0, <2>2, <2>3, CellsAssumption DEF InHand
  <2>5. QED
    BY <1>2, <2>1, <2>4, JobsFrame DEF thrdpool_post
<1>3. ASSUME NEW th \in Threads, add_tail(th) PROVE JobState' = JobState
  <2>0. PICK t \in Tasks : t = hand[th]
    BY <1>3 DEF add_tail, TInv, HandOK
  <2>1. t = order[Len(order)] /\ taken < Len(order)
    BY <1>3, <2>0 DEF add_tail, LInv, HalfDoneOK
  <2>2. ~Taken(t)
    BY <2>1, TakenOrWaiting DEF Waiting
  <2>3. \A x \in Threads : hand'[x] = IF x = th THEN Nil ELSE hand[x]
    BY <1>0, <1>3 DEF add_tail
  <2>4. \A u \in Tasks \ {t} : InHand(u)' <=> InHand(u)
    BY <1>0, <2>0, <2>3, CellsAssumption DEF InHand
  <2>5. QED
    BY <1>3, <2>2, <2>4, JobsFrame DEF add_tail
<1>4. ASSUME NEW th \in Threads, pop_empty(th) PROVE JobState' = JobState
  <2>1. hand[th] = Nil
    BY <1>4 DEF pop_empty, KInv, HoldOK, HandLabels, TakenLabels
  <2>2. QED
    BY <1>0, <1>1, <1>4, <2>1 DEF pop_empty
<1>5. ASSUME drain_free PROVE JobState' = JobState
  <2>1. \A x \in Workers : hand'[x] = hand[x]
    BY <1>0, <1>5 DEF drain_free
  <2>2. \A u : InHand(u)' <=> InHand(u)
    BY <2>1 DEF InHand
  <2>3. QED
    BY <1>5, <2>2, JobsFrame DEF drain_free
<1>6. ASSUME NEW l \in DOMAIN CreateStep, Acquire(l) \/ AcquireFails(l)
      PROVE  JobState' = JobState
  BY <1>1, <1>6 DEF Acquire, AcquireFails
<1>7. ASSUME NEW l \in DOMAIN UndoStep, Undo(l) PROVE JobState' = JobState
  BY <1>1, <1>7 DEF Undo
<1>8. ASSUME \/ threads_created \/ pthread_create_fails \/ thrdpool_waitdone
             \/ join_threads \/ taskqueue_destroy
      PROVE  JobState' = JobState
  BY <1>1, <1>8 DEF threads_created, pthread_create_fails, thrdpool_waitdone, join_threads,
                    taskqueue_destroy
<1>9. ASSUME NEW th \in Threads,
             \/ add_lock(th) \/ add_unlock(th) \/ add_signal(th) \/ TerminateNext(th)
             \/ thrdpool_terminate(th)
      PROVE  JobState' = JobState
  BY <1>1, <1>9 DEF add_lock, add_unlock, add_signal, TerminateNext, terminate_quit,
                    nonblock_lock, nonblock_store, nonblock_broadcast, thrdpool_terminate
<1>10. ASSUME NEW th \in Threads, pop_lock(th) \/ pop_tail(th) \/ pop_unlock(th)
       PROVE  JobState' = JobState
  BY <1>1, <1>10 DEF pop_lock, pop_tail, pop_unlock
<1>11. ASSUME NEW w \in Workers,
              \/ wait_lock(w) \/ wait_refused(w) \/ wait_check(w) \/ wait_sleep(w)
              \/ wake_lock(w) \/ worker_quit(w) \/ task_returns(w)
              \/ spurious_wakeup(w) \/ pthread_create(w)
       PROVE  JobState' = JobState
  BY <1>1, <1>11 DEF wait_lock, wait_refused, wait_check, wait_sleep, wake_lock,
                     worker_quit, task_returns, spurious_wakeup, pthread_create
<1>12. ASSUME NEW c \in Clients, client_leaves(c) PROVE JobState' = JobState
  BY <1>1, <1>12 DEF client_leaves
<1>13. CASE UNCHANGED vars
  BY <1>1, <1>13 DEF vars
<1>14. QED
  BY <1>0, <1>2, <1>3, <1>4, <1>5, <1>6, <1>7, <1>8, <1>9, <1>10, <1>11, <1>12, <1>13
  DEF Next, CallNext, PoolNext, CreateNext, AddNext, PopNext, WorkerNext, DestroyNext,
      Finished

LEMMA PoolInit == Init => Pool!Init
<1> SUFFICES ASSUME Init PROVE Pool!Init
  OBVIOUS
<1>1. Len(order) = 0 /\ taken = 0
  BY DEF Init
<1>2. \A t : ~Taken(t) /\ ~Waiting(t)
  BY <1>1 DEF Taken, Waiting
<1>3. \A t \in Tasks : JobOf(t) = "new"
  BY <1>2 DEF Init, JobOf
<1>4. QED
  BY <1>3, JobStateOf DEF Init, Pool!Init

(* The C pool implements JobPool for any number of workers, clients and    *)
(* tasks: linking a node in is acceptance, __pop_task starts the task when *)
(* a worker calls it and discards it when __taskqueue_destroy does, which  *)
(* happens only in a pool that is waited for.                              *)
THEOREM ImplementsPool == Spec => ImplementsJobPool
<1>1. Init => Pool!Init
  BY PoolInit
<1>2. TInv /\ LInv /\ PInv /\ KInv /\ [Next]_vars =>
        [Pool!Next]_<<JobState, quit = 1 \/ phase \in {"waiting", "done"}>>
  BY PoolStep
<1>3. QED
  BY <1>1, <1>2, TaskInvariant, PTL DEF Spec, ImplementsJobPool, Pool!Spec

=============================================================================
