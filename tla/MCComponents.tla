----------------------------- MODULE MCComponents -----------------------------
(***************************************************************************)
(* The synchronisation exercises of chapters 4 and 5 and the queues,       *)
(* caches, clients and pointers that programs of this repository build for *)
(* themselves, for TLC.  They do not interact, so a behaviour runs one of  *)
(* them, chosen initially, while the others rest in their initial state.   *)
(***************************************************************************)
EXTENDS RWLock, Ring, LockFreeQueue, HashTable, SafeCache, BoundedBuffer, ConnPool,
        DnsClient, WorkQueue, ExclusionHandle, SmartPtr

VARIABLE component

chapter5vars == <<rwvars, ringvars, lfqvars, htvars>>
servicevars  == <<cachevars, bufvars, poolvars, dnsvars, wqvars, exclvars, ptrvars>>
allvars      == <<chapter5vars, servicevars, component>>

Init == /\ RWInit /\ RingInit /\ LfqInit /\ HtInit
        /\ CacheInit /\ BufInit /\ PoolInit /\ DnsInit /\ WqInit /\ ExclInit /\ PtrInit
        /\ component \in {"rwlock", "ring", "queue", "table", "cache", "buffer", "pool",
                          "dns", "work", "exclusion", "pointer"}
        /\ component # "queue" => /\ team = CHOOSE t \in Teams : TRUE
                                  /\ head = CHOOSE n \in QueueNodes : TRUE

NextExercise ==
  \/ component = "rwlock" /\ RWNext /\ UNCHANGED <<ringvars, lfqvars, htvars>>
  \/ component = "ring" /\ RingNext /\ UNCHANGED <<rwvars, lfqvars, htvars>>
  \/ component = "queue" /\ LfqNext /\ UNCHANGED <<rwvars, ringvars, htvars>>
  \/ component = "table" /\ HtNext /\ UNCHANGED <<rwvars, ringvars, lfqvars>>

NextService ==
  \/ /\ component = "cache" /\ CacheNext
     /\ UNCHANGED <<bufvars, poolvars, dnsvars, wqvars, exclvars, ptrvars>>
  \/ /\ component = "buffer" /\ BufNext
     /\ UNCHANGED <<cachevars, poolvars, dnsvars, wqvars, exclvars, ptrvars>>
  \/ /\ component = "pool" /\ PoolNext
     /\ UNCHANGED <<cachevars, bufvars, dnsvars, wqvars, exclvars, ptrvars>>
  \/ /\ component = "dns" /\ DnsNext
     /\ UNCHANGED <<cachevars, bufvars, poolvars, wqvars, exclvars, ptrvars>>
  \/ /\ component = "work" /\ WqNext
     /\ UNCHANGED <<cachevars, bufvars, poolvars, dnsvars, exclvars, ptrvars>>
  \/ /\ component = "exclusion" /\ ExclNext
     /\ UNCHANGED <<cachevars, bufvars, poolvars, dnsvars, wqvars, ptrvars>>
  \/ /\ component = "pointer" /\ PtrNext
     /\ UNCHANGED <<cachevars, bufvars, poolvars, dnsvars, wqvars, exclvars>>

Next == /\ \/ NextExercise /\ UNCHANGED servicevars
           \/ NextService /\ UNCHANGED chapter5vars
        /\ UNCHANGED component

(* Every thread is scheduled.                                              *)
Spec == /\ Init /\ [][Next]_allvars
        /\ \A u \in LockUsers : WF_rwvars(component = "rwlock" /\ RWStep(u))
        /\ \A w \in Writers : WF_ringvars(component = "ring" /\ WriterStep(w))
        /\ \A r \in Readers : WF_ringvars(component = "ring" /\ ReaderStep(r))
        /\ \A p \in Producers : WF_lfqvars(component = "queue" /\ LfqProducer(p))
        /\ \A c \in Consumers : WF_lfqvars(component = "queue" /\ LfqConsumer(c))
        /\ \A t \in Getters : WF_cachevars(component = "cache" /\ CacheStep(t))
        /\ \A p \in BufProducers : WF_bufvars(component = "buffer" /\ BufProducer(p))
        /\ \A c \in BufConsumers : WF_bufvars(component = "buffer" /\ BufConsumer(c))
        /\ WF_dnsvars(component = "dns" /\ ~Exited /\ Committer)
        /\ WF_dnsvars(component = "dns" /\ ~Exited /\ Poller)
        /\ \A w \in QueueWorkers : WF_wqvars(component = "work" /\ WqWorker(w))

(* One writer and one reader of the ring, or one producer and one consumer *)
(* of the lock-free queue, all finish: nobody waits forever for room or    *)
(* for an item.                                                            *)
OneEachTerminates == /\ component = "ring" => RingTerminates
                     /\ component = "queue" => LfqTerminates

(* main of ch4/design_3.cpp finishes when it is run.                       *)
BufferTerminates == component = "buffer" => BufTerminates

=============================================================================
