-------------------------------- MODULE Ring --------------------------------
(***************************************************************************)
(* ThreadSafeCircularBuffer of src/Books/CPPCurrencyProgramming2th/xxx/    *)
(* ch5/design_3.cpp and the writer and reader threads of its main: every   *)
(* writer writes its items one after the other, every reader reads as many *)
(* as there are for it, and both retry when the buffer is full or empty.   *)
(* A step is one access to an index or to a slot.                          *)
(***************************************************************************)
EXTENDS Naturals, Sequences, FiniteSets

CONSTANTS
  Writers, Readers,  \* the threads
  Capacity,          \* slots; one of them stays empty
  Items,             \* how many items each thread writes or reads (5 in main)
  Blank              \* the value-initialised contents of a slot

ASSUME RingAssumption ==
  /\ Capacity \in Nat \ {0}
  /\ Items \in Nat
  /\ Writers \cap Readers = {}

RingThreads == Writers \cup Readers
Values      == Writers \X (1 .. Items)

VARIABLES
  buffer, readIndex, writeIndex,  \* the members of the class
  ringpc,                         \* the next step of each thread
  current,                        \* the index a call has loaded
  result,                         \* what a call of read has copied
  wrote,                          \* items each writer has written
  got                             \* items each reader has read, in order

ringvars == <<buffer, readIndex, writeIndex, ringpc, current, result, wrote, got>>

RingInit ==
  /\ buffer = [i \in 0 .. Capacity - 1 |-> Blank]
  /\ readIndex = 0 /\ writeIndex = 0
  /\ ringpc = [th \in RingThreads |-> "call"]
  /\ current = [th \in RingThreads |-> 0]
  /\ result = [r \in Readers |-> Blank]
  /\ wrote = [w \in Writers |-> 0]
  /\ got = [r \in Readers |-> <<>>]

nextIndex(i) == (i + 1) % Capacity

Goes(th, from, to) == ringpc[th] = from /\ ringpc' = [ringpc EXCEPT ![th] = to]

-----------------------------------------------------------------------------
(* write(value), in the loop of writer.                                    *)

write_index(w) ==
  /\ wrote[w] < Items
  /\ Goes(w, "call", "check")
  /\ current' = [current EXCEPT ![w] = writeIndex]
  /\ UNCHANGED <<buffer, readIndex, writeIndex, result, wrote, got>>

write_full(w) ==
  /\ nextIndex(current[w]) = readIndex
  /\ Goes(w, "check", "call")
  /\ UNCHANGED <<buffer, readIndex, writeIndex, current, result, wrote, got>>

write_room(w) ==
  /\ nextIndex(current[w]) # readIndex
  /\ Goes(w, "check", "put")
  /\ UNCHANGED <<buffer, readIndex, writeIndex, current, result, wrote, got>>

write_put(w) ==
  /\ Goes(w, "put", "store")
  /\ buffer' = [buffer EXCEPT ![current[w]] = <<w, wrote[w] + 1>>]
  /\ UNCHANGED <<readIndex, writeIndex, current, result, wrote, got>>

write_store(w) ==
  /\ Goes(w, "store", "call")
  /\ writeIndex' = nextIndex(current[w])
  /\ wrote' = [wrote EXCEPT ![w] = @ + 1]
  /\ UNCHANGED <<buffer, readIndex, current, result, got>>

-----------------------------------------------------------------------------
(* read(result), in the loop of reader.                                    *)

read_index(r) ==
  /\ Len(got[r]) < Items
  /\ Goes(r, "call", "check")
  /\ current' = [current EXCEPT ![r] = readIndex]
  /\ UNCHANGED <<buffer, readIndex, writeIndex, result, wrote, got>>

read_empty(r) ==
  /\ current[r] = writeIndex
  /\ Goes(r, "check", "call")
  /\ UNCHANGED <<buffer, readIndex, writeIndex, current, result, wrote, got>>

read_some(r) ==
  /\ current[r] # writeIndex
  /\ Goes(r, "check", "get")
  /\ UNCHANGED <<buffer, readIndex, writeIndex, current, result, wrote, got>>

(* Mutant: the slot after the oldest item is copied.                       *)
read_get_ahead(r) ==
  /\ Goes(r, "get", "store")
  /\ result' = [result EXCEPT ![r] = buffer[nextIndex(current[r])]]
  /\ UNCHANGED <<buffer, readIndex, writeIndex, current, wrote, got>>

read_get(r) ==
  /\ Goes(r, "get", "store")
  /\ result' = [result EXCEPT ![r] = buffer[current[r]]]
  /\ UNCHANGED <<buffer, readIndex, writeIndex, current, wrote, got>>

(* Mutant: the slot is not given back.                                     *)
read_store_lost(r) ==
  /\ Goes(r, "store", "call")
  /\ got' = [got EXCEPT ![r] = Append(@, result[r])]
  /\ UNCHANGED <<buffer, readIndex, writeIndex, current, result, wrote>>

read_store(r) ==
  /\ Goes(r, "store", "call")
  /\ readIndex' = nextIndex(current[r])
  /\ got' = [got EXCEPT ![r] = Append(@, result[r])]
  /\ UNCHANGED <<buffer, writeIndex, current, result, wrote>>

-----------------------------------------------------------------------------
WriterStep(w) == \/ write_index(w) \/ write_full(w) \/ write_room(w)
                 \/ write_put(w) \/ write_store(w)
ReaderStep(r) == \/ read_index(r) \/ read_empty(r) \/ read_some(r)
                 \/ read_get(r) \/ read_store(r)

(* main joins all threads.                                                 *)
AllDone == (\A w \in Writers : wrote[w] = Items)
             /\ (\A r \in Readers : Len(got[r]) = Items)

main_returns == AllDone /\ UNCHANGED ringvars

RingNext == \/ \E w \in Writers : WriterStep(w)
            \/ \E r \in Readers : ReaderStep(r)
            \/ main_returns

RingSpec == RingInit /\ [][RingNext]_ringvars

-----------------------------------------------------------------------------

(* What the buffer holds, oldest first.                                    *)
Contents ==
  [i \in 1 .. (writeIndex + Capacity - readIndex) % Capacity |->
     buffer[(readIndex + i - 1) % Capacity]]

Occurrences(v) ==
  Cardinality({i \in DOMAIN Contents : Contents[i] = v})
    + Cardinality({ri \in Readers \X (1 .. Items) :
                     ri[2] <= Len(got[ri[1]]) /\ got[ri[1]][ri[2]] = v})

(* No item is lost and none is read twice: an item is in the buffer or     *)
(* with a reader, once, exactly when its write has returned true.          *)
EachOnce ==
  \A w \in Writers : \A i \in 1 .. Items :
    Occurrences(<<w, i>>) = IF i <= wrote[w] THEN 1 ELSE 0

(* One writer and one reader share a FIFO queue of capacity - 1 items: an  *)
(* item joins it when write stores the index and leaves it when read does. *)
RingFifo == INSTANCE Fifo WITH
  Putters <- Writers, Takers <- Readers, Quota <- Items, Bound <- Capacity - 1,
  queue <- Contents, put <- wrote, taken <- got
RingIsFifo == RingFifo!Spec

(* All writers and readers finish: a full buffer is emptied and an empty   *)
(* one filled.  With one of each; two writers, as in main, lose items, and *)
(* a reader then waits for them forever.                                   *)
RingTerminates == <>AllDone

=============================================================================
