------------------------------- MODULE RWLock -------------------------------
(***************************************************************************)
(* AtomicReadWriteLock of src/Books/CPPCurrencyProgramming2th/xxx/ch5/     *)
(* design_4.cpp: a readers-writer lock made of an atomic reader count and  *)
(* an atomic writer flag.  A reader counts itself in and then looks at the *)
(* flag again; a writer raises the flag and then waits for the count to    *)
(* reach zero.  Each step is one access to an atomic, and the accesses are *)
(* sequentially consistent, as the read-modify-writes of the x86 builds    *)
(* make them.                                                              *)
(***************************************************************************)
EXTENDS Naturals, FiniteSets

CONSTANT LockUsers  \* the threads of main: each may read and write

ASSUME LockAssumption == IsFiniteSet(LockUsers)

VARIABLES
  readers,    \* the atomic count
  writer,     \* the atomic flag
  lockpc,     \* the next step of each thread
  oldReaders  \* the count a thread in readLock has loaded

rwvars == <<readers, writer, lockpc, oldReaders>>

ReadEntry  == {"r_spin", "r_load", "r_cas", "r_recheck", "r_undo"}
WriteEntry == {"w_exchange", "w_drain"}
LockLabels == ReadEntry \cup WriteEntry \cup {"out", "reading", "writing"}

RWInit ==
  /\ readers = 0
  /\ writer = FALSE
  /\ lockpc = [u \in LockUsers |-> "out"]
  /\ oldReaders = [u \in LockUsers |-> 0]

Step(u, from, to) == lockpc[u] = from /\ lockpc' = [lockpc EXCEPT ![u] = to]

-----------------------------------------------------------------------------
(* readLock.                                                               *)

readLock(u) ==
  /\ Step(u, "out", "r_spin")
  /\ UNCHANGED <<readers, writer, oldReaders>>

(* Mutant: the flag is not waited for before counting in.                  *)
read_no_writer_impatient(u) ==
  /\ Step(u, "r_spin", "r_load")
  /\ UNCHANGED <<readers, writer, oldReaders>>

(* The inner loop yields for as long as the flag is up.                    *)
read_no_writer(u) ==
  /\ ~writer
  /\ Step(u, "r_spin", "r_load")
  /\ UNCHANGED <<readers, writer, oldReaders>>

read_load(u) ==
  /\ Step(u, "r_load", "r_cas")
  /\ oldReaders' = [oldReaders EXCEPT ![u] = readers]
  /\ UNCHANGED <<readers, writer>>

read_count(u) ==
  /\ readers = oldReaders[u]
  /\ readers' = oldReaders[u] + 1
  /\ Step(u, "r_cas", "r_recheck")
  /\ UNCHANGED <<writer, oldReaders>>

(* Mutant: the exchange is tried again with the count it was given.        *)
read_cas_fails_stale(u) ==
  /\ readers # oldReaders[u]
  /\ Step(u, "r_cas", "r_cas")
  /\ UNCHANGED <<readers, writer, oldReaders>>

read_cas_fails(u) ==
  /\ readers # oldReaders[u]
  /\ Step(u, "r_cas", "r_spin")
  /\ UNCHANGED <<readers, writer, oldReaders>>

(* Mutant: the flag is not looked at again.                                *)
read_enter_unchecked(u) ==
  /\ Step(u, "r_recheck", "reading")
  /\ UNCHANGED <<readers, writer, oldReaders>>

read_enter(u) ==
  /\ ~writer
  /\ Step(u, "r_recheck", "reading")
  /\ UNCHANGED <<readers, writer, oldReaders>>

read_yields(u) ==
  /\ writer
  /\ Step(u, "r_recheck", "r_undo")
  /\ UNCHANGED <<readers, writer, oldReaders>>

read_undo(u) ==
  /\ Step(u, "r_undo", "r_spin")
  /\ readers' = readers - 1
  /\ UNCHANGED <<writer, oldReaders>>

readUnlock(u) ==
  /\ Step(u, "reading", "out")
  /\ readers' = readers - 1
  /\ UNCHANGED <<writer, oldReaders>>

-----------------------------------------------------------------------------
(* writeLock.                                                              *)

writeLock(u) ==
  /\ Step(u, "out", "w_exchange")
  /\ UNCHANGED <<readers, writer, oldReaders>>

(* The exchange that finds the flag up writes TRUE over TRUE and yields.   *)
write_claim(u) ==
  /\ ~writer
  /\ writer' = TRUE
  /\ Step(u, "w_exchange", "w_drain")
  /\ UNCHANGED <<readers, oldReaders>>

write_enter(u) ==
  /\ ~(readers > 0)
  /\ Step(u, "w_drain", "writing")
  /\ UNCHANGED <<readers, writer, oldReaders>>

writeUnlock(u) ==
  /\ Step(u, "writing", "out")
  /\ writer' = FALSE
  /\ UNCHANGED <<readers, oldReaders>>

-----------------------------------------------------------------------------
RWCall(u) == readLock(u) \/ writeLock(u)

RWStep(u) ==
  \/ read_no_writer(u) \/ read_load(u) \/ read_count(u) \/ read_cas_fails(u)
  \/ read_enter(u) \/ read_yields(u) \/ read_undo(u) \/ readUnlock(u)
  \/ write_claim(u) \/ write_enter(u) \/ writeUnlock(u)

RWNext == \E u \in LockUsers : RWCall(u) \/ RWStep(u)

RWSpec == RWInit /\ [][RWNext]_rwvars

-----------------------------------------------------------------------------
RWTypeOK ==
  /\ readers \in Nat
  /\ writer \in BOOLEAN
  /\ lockpc \in [LockUsers -> LockLabels]
  /\ oldReaders \in [LockUsers -> Nat]

At(labels) == {u \in LockUsers : lockpc[u] \in labels}

(* One thread writes at a time, and never while another one reads: the     *)
(* flag read a second time in readLock and the count read in writeLock     *)
(* cannot both miss the other side.                                        *)
Exclusion ==
  \A u, v \in LockUsers :
    lockpc[u] = "writing" /\ lockpc[v] \in {"reading", "writing"} => u = v

(* A writer that has raised the flag gets in: readers that arrive later    *)
(* count themselves in and out again but cannot hold it up forever.        *)
WriterEnters ==
  \A u \in LockUsers : lockpc[u] = "w_drain" ~> lockpc[u] = "writing"

(* Readers do not block one another: when some thread is in readLock and   *)
(* no writer comes, some thread gets to read.                              *)
ReaderProgress ==
  At(ReadEntry) # {} ~> (writer \/ At({"reading"}) # {})

-----------------------------------------------------------------------------
(* The count is the number of threads between their increment and their    *)
(* decrement; the flag is up exactly while one writer is draining or       *)
(* writing.                                                                *)
Counted == At({"r_recheck", "r_undo", "reading"})

CountExact == readers = Cardinality(Counted)

FlagOwned ==
  /\ writer <=> At({"w_drain", "writing"}) # {}
  /\ \A u, v \in At({"w_drain", "writing"}) : u = v

(* The inductive invariant behind Exclusion.                               *)
RWInv == RWTypeOK /\ CountExact /\ FlagOwned /\ Exclusion

=============================================================================
