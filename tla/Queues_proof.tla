---------------------------- MODULE Queues_proof ----------------------------
(***************************************************************************)
(* The bounded queues of chapters 4 and 5 for any capacity and number of   *)
(* messages.  ThreadSafeCircularBuffer implements the FIFO queue without a *)
(* lock when one thread writes and one reads: a call may use the index it  *)
(* has loaded because only its own thread moves that index, and its look   *)
(* at the other index only errs on the safe side, as that index moves away *)
(* from it (RingInv).  BoundedBuffer implements the same queue under its   *)
(* mutex, and loses no wakeup although notify_one wakes one thread only.   *)
(***************************************************************************)
EXTENDS Ring, BoundedBuffer, FiniteSetTheorems, TLAPS

Slots == 0 .. Capacity - 1

(* Members, locals and program counters hold what the code can put there.  *)
RingTypeOK ==
  /\ DOMAIN buffer = Slots /\ readIndex \in Slots /\ writeIndex \in Slots
  /\ ringpc \in [RingThreads -> {"call", "check", "put", "get", "store"}]
  /\ current \in [RingThreads -> Slots]
  /\ DOMAIN result = Readers
  /\ wrote \in [Writers -> 0 .. Items]
  /\ DOMAIN got = Readers

(* What a call of write has seen and done so far: writeIndex is still the  *)
(* index it loaded, the slot after it is still not the reader's, and the   *)
(* item lies in the slot before the index is stored.                       *)
WriteOK ==
  \A w \in Writers :
    /\ ringpc[w] # "get"
    /\ ringpc[w] # "call" => wrote[w] < Items /\ current[w] = writeIndex
    /\ ringpc[w] \in {"put", "store"} => nextIndex(writeIndex) # readIndex
    /\ ringpc[w] = "store" => buffer[writeIndex] = <<w, wrote[w] + 1>>

(* The same of a call of read.                                             *)
ReadOK ==
  \A r \in Readers :
    /\ ringpc[r] # "put"
    /\ ringpc[r] # "call" => current[r] = readIndex
    /\ ringpc[r] \in {"get", "store"} => readIndex # writeIndex
    /\ ringpc[r] = "store" => result[r] = buffer[readIndex]

RingInv == RingTypeOK /\ WriteOK /\ ReadOK

OneEach == \E w, r : Writers = {w} /\ Readers = {r}

-----------------------------------------------------------------------------
(* Arithmetic of the indices.                                              *)

LEMMA NextIndexIs ==
  ASSUME NEW i \in Slots
  PROVE  nextIndex(i) = IF i + 1 = Capacity THEN 0 ELSE i + 1
<1>1. Capacity \in Nat \ {0}
  BY RingAssumption
<1>2. PICK a \in 0 .. 2 * Capacity - 1 : a = i + 1
  BY <1>1 DEF Slots
<1>3. a % Capacity = IF a < Capacity THEN a ELSE a - Capacity
  BY <1>1
<1> QED
  BY <1>1, <1>2, <1>3 DEF nextIndex, Slots

(* How many items lie between two indices, and in which slot the i-th is.  *)
Between(r, w) == IF r <= w THEN w - r ELSE w + Capacity - r
SlotAt(r, i) == IF r + i - 1 < Capacity THEN r + i - 1 ELSE r + i - 1 - Capacity

Laid(b, r, w) == [i \in 1 .. Between(r, w) |-> b[SlotAt(r, i)]]

LEMMA ContentsIs == RingTypeOK => Contents = Laid(buffer, readIndex, writeIndex)
<1> SUFFICES ASSUME RingTypeOK PROVE Contents = Laid(buffer, readIndex, writeIndex)
  OBVIOUS
<1>1. Capacity \in Nat \ {0} /\ readIndex \in Slots /\ writeIndex \in Slots
  BY RingAssumption DEF RingTypeOK
<1>2. (writeIndex + Capacity - readIndex) % Capacity = Between(readIndex, writeIndex)
  <2>1. writeIndex + Capacity - readIndex \in 0 .. 2 * Capacity - 1
    BY <1>1 DEF Slots
  <2> QED BY <1>1, <2>1 DEF Between, Slots
<1>3. ASSUME NEW i \in 1 .. Between(readIndex, writeIndex)
      PROVE  (readIndex + i - 1) % Capacity = SlotAt(readIndex, i)
  <2>1. readIndex + i - 1 \in 0 .. 2 * Capacity - 1
    BY <1>1, <1>3 DEF Slots, Between
  <2> QED BY <1>1, <1>3, <2>1 DEF SlotAt, Slots, Between
<1> QED
  BY <1>2, <1>3, Zenon DEF Contents, Laid

LEMMA ContentsWillBe ==
  (RingTypeOK => Contents = Laid(buffer, readIndex, writeIndex))'
  BY ContentsIs, PTL

-----------------------------------------------------------------------------
(* The circular buffer of one writer and one reader.                       *)

LEMMA RingInitInv == RingInit => RingInv
  BY RingAssumption
     DEF RingInit, RingInv, RingTypeOK, WriteOK, ReadOK, Slots, RingThreads

LEMMA WriterInv ==
  ASSUME OneEach, RingInv, NEW w \in Writers, WriterStep(w)
  PROVE  RingInv'
<1>1. PICK r : Writers = {w} /\ Readers = {r}
  BY DEF OneEach
<1>2. w # r /\ Capacity \in Nat \ {0} /\ Items \in Nat
  BY <1>1, RingAssumption
<1>3. \A i \in Slots : nextIndex(i) \in Slots
  BY <1>2, NextIndexIs DEF Slots
<1> USE <1>1, <1>2 DEF RingInv, RingTypeOK, WriteOK, ReadOK, RingThreads, Goes
<1>4. CASE write_index(w)
  BY <1>4 DEF write_index
<1>5. CASE write_full(w)
  BY <1>5 DEF write_full
<1>6. CASE write_room(w)
  BY <1>6 DEF write_room
<1>7. CASE write_put(w)
  BY <1>7 DEF write_put
<1>8. CASE write_store(w)
  <2>1. writeIndex' = nextIndex(writeIndex) /\ nextIndex(writeIndex) # readIndex
    BY <1>8 DEF write_store
  <2> QED BY <1>3, <1>8, <2>1 DEF write_store
<1> QED
  BY <1>4, <1>5, <1>6, <1>7, <1>8 DEF WriterStep

LEMMA ReaderInv ==
  ASSUME OneEach, RingInv, NEW r \in Readers, ReaderStep(r)
  PROVE  RingInv'
<1>1. PICK w : Writers = {w} /\ Readers = {r}
  BY DEF OneEach
<1>2. w # r /\ Capacity \in Nat \ {0} /\ Items \in Nat
  BY <1>1, RingAssumption
<1>3. \A i \in Slots : nextIndex(i) \in Slots
  BY <1>2, NextIndexIs DEF Slots
<1> USE <1>1, <1>2 DEF RingInv, RingTypeOK, WriteOK, ReadOK, RingThreads, Goes
<1>4. CASE read_index(r)
  BY <1>4 DEF read_index
<1>5. CASE read_empty(r)
  BY <1>5 DEF read_empty
<1>6. CASE read_some(r)
  BY <1>6 DEF read_some
<1>7. CASE read_get(r)
  BY <1>7 DEF read_get
<1>8. CASE read_store(r)
  <2>1. readIndex' = nextIndex(readIndex) /\ readIndex # writeIndex
    BY <1>8 DEF read_store
  <2>2. nextIndex(readIndex) # nextIndex(writeIndex)
    BY <2>1, NextIndexIs DEF Slots
  <2> QED BY <1>3, <1>8, <2>1, <2>2 DEF read_store
<1> QED
  BY <1>4, <1>5, <1>6, <1>7, <1>8 DEF ReaderStep

LEMMA RingNextInv ==
  ASSUME OneEach, RingInv, [RingNext]_ringvars
  PROVE  RingInv'
<1>1. CASE UNCHANGED ringvars
  BY <1>1 DEF ringvars, RingInv, RingTypeOK, WriteOK, ReadOK
<1> QED
  BY <1>1, WriterInv, ReaderInv DEF RingNext, main_returns

(* While an item is put, its slot is not yet among the contents.           *)
LEMMA PutHidden ==
  ASSUME OneEach, RingInv, NEW w \in Writers, write_put(w)
  PROVE  UNCHANGED <<Contents, wrote, got>>
<1>1. /\ Capacity \in Nat \ {0} /\ readIndex \in Slots /\ writeIndex \in Slots
      /\ current[w] = writeIndex
      /\ readIndex' = readIndex /\ writeIndex' = writeIndex
      /\ buffer' = [buffer EXCEPT ![writeIndex] = <<w, wrote[w] + 1>>]
  BY RingAssumption DEF RingInv, RingTypeOK, WriteOK, write_put, Goes
<1>2. RingInv'
  BY WriterInv DEF WriterStep
<1>3. ASSUME NEW i \in 1 .. Between(readIndex, writeIndex)
      PROVE  SlotAt(readIndex, i) \in Slots /\ SlotAt(readIndex, i) # writeIndex
  BY <1>1, <1>3 DEF Between, SlotAt, Slots
<1>4. ASSUME NEW i \in 1 .. Between(readIndex, writeIndex)
      PROVE  buffer'[SlotAt(readIndex, i)] = buffer[SlotAt(readIndex, i)]
  BY <1>1, <1>3, <1>4 DEF RingInv, RingTypeOK
<1>5. Contents = [i \in 1 .. Between(readIndex, writeIndex) |-> buffer[SlotAt(readIndex, i)]]
  BY ContentsIs DEF RingInv, Laid
<1>6. Contents' = [i \in 1 .. Between(readIndex, writeIndex) |-> buffer'[SlotAt(readIndex, i)]]
  BY <1>1, <1>2, ContentsWillBe DEF RingInv, Laid
<1> QED
  BY <1>4, <1>5, <1>6 DEF write_put

(* Storing writeIndex appends the item, and there was room for it.         *)
LEMMA StorePuts ==
  ASSUME OneEach, RingInv, NEW w \in Writers, write_store(w)
  PROVE  RingFifo!Put(w)
<1>1. /\ Capacity \in Nat \ {0} /\ readIndex \in Slots /\ writeIndex \in Slots
      /\ current[w] = writeIndex /\ nextIndex(writeIndex) # readIndex
      /\ buffer[writeIndex] = <<w, wrote[w] + 1>> /\ wrote[w] < Items
      /\ buffer' = buffer /\ readIndex' = readIndex
      /\ writeIndex' = nextIndex(writeIndex)
  BY RingAssumption DEF RingInv, RingTypeOK, WriteOK, write_store, Goes
<1>2. RingInv'
  BY WriterInv DEF WriterStep
<1> DEFINE n == Between(readIndex, writeIndex)
<1>3. /\ n \in Nat /\ n < Capacity - 1
      /\ Between(readIndex, nextIndex(writeIndex)) = n + 1
      /\ SlotAt(readIndex, n + 1) = writeIndex
  BY <1>1, NextIndexIs DEF Between, SlotAt, Slots
<1>4. Contents = [i \in 1 .. n |-> buffer[SlotAt(readIndex, i)]]
  BY ContentsIs DEF RingInv, Laid
<1>5. Contents' = [i \in 1 .. n + 1 |-> buffer[SlotAt(readIndex, i)]]
  <2>1. Contents' = [i \in 1 .. Between(readIndex, nextIndex(writeIndex)) |->
                       buffer[SlotAt(readIndex, i)]]
    BY <1>1, <1>2, ContentsWillBe DEF RingInv, Laid
  <2> QED BY <1>3, <2>1
<1> HIDE DEF n
<1>6. Len(Contents) = n /\ Contents' = Append(Contents, <<w, wrote[w] + 1>>)
  BY <1>1, <1>3, <1>4, <1>5
<1> QED
  BY <1>1, <1>3, <1>6 DEF RingFifo!Put, write_store

(* Storing readIndex takes the oldest item away, which is what was read.   *)
LEMMA StoreTakes ==
  ASSUME OneEach, RingInv, NEW r \in Readers, read_store(r)
  PROVE  RingFifo!Take(r)
<1>1. /\ Capacity \in Nat \ {0} /\ readIndex \in Slots /\ writeIndex \in Slots
      /\ current[r] = readIndex /\ readIndex # writeIndex
      /\ result[r] = buffer[readIndex]
      /\ buffer' = buffer /\ writeIndex' = writeIndex
      /\ readIndex' = nextIndex(readIndex)
  BY RingAssumption DEF RingInv, RingTypeOK, ReadOK, read_store, Goes
<1>2. RingInv'
  BY ReaderInv DEF ReaderStep
<1> DEFINE n == Between(readIndex, writeIndex)
<1>3. /\ n \in Nat \ {0}
      /\ Between(nextIndex(readIndex), writeIndex) = n - 1
      /\ SlotAt(readIndex, 1) = readIndex
      /\ \A i \in 1 .. n - 1 : SlotAt(nextIndex(readIndex), i) = SlotAt(readIndex, i + 1)
  BY <1>1, NextIndexIs DEF Between, SlotAt, Slots
<1>4. Contents = [i \in 1 .. n |-> buffer[SlotAt(readIndex, i)]]
  BY ContentsIs DEF RingInv, Laid
<1>5. Contents' = [i \in 1 .. n - 1 |-> buffer[SlotAt(readIndex, i + 1)]]
  <2>1. Contents' = [i \in 1 .. Between(nextIndex(readIndex), writeIndex) |->
                       buffer[SlotAt(nextIndex(readIndex), i)]]
    BY <1>1, <1>2, ContentsWillBe DEF RingInv, Laid
  <2> QED BY <1>3, <2>1
<1> HIDE DEF n
<1>6. Contents # <<>> /\ Head(Contents) = result[r]
  BY <1>1, <1>3, <1>4
<1>7. Contents' = Tail(Contents)
  <2>1. Tail(Contents) = [i \in 1 .. n - 1 |-> Contents[i + 1]]
    BY <1>3, <1>4
  <2> QED BY <1>3, <1>4, <1>5, <2>1
<1> QED
  BY <1>6, <1>7 DEF RingFifo!Take, read_store

LEMMA RingStep ==
  ASSUME OneEach, RingInv, [RingNext]_ringvars
  PROVE  [RingFifo!Next]_(RingFifo!fifovars)
<1>1. ASSUME buffer' = buffer, readIndex' = readIndex, writeIndex' = writeIndex,
             wrote' = wrote, got' = got
      PROVE  UNCHANGED <<Contents, wrote, got>>
  BY <1>1 DEF Contents
<1>2. ASSUME NEW w \in Writers, WriterStep(w)
      PROVE  UNCHANGED <<Contents, wrote, got>> \/ RingFifo!Put(w)
  BY <1>1, <1>2, PutHidden, StorePuts
     DEF WriterStep, write_index, write_full, write_room
<1>3. ASSUME NEW r \in Readers, ReaderStep(r)
      PROVE  UNCHANGED <<Contents, wrote, got>> \/ RingFifo!Take(r)
  BY <1>1, <1>3, StoreTakes DEF ReaderStep, read_index, read_empty, read_some, read_get
<1>4. ASSUME UNCHANGED ringvars PROVE UNCHANGED <<Contents, wrote, got>>
  BY <1>1, <1>4 DEF ringvars
<1> QED
  BY <1>2, <1>3, <1>4 DEF RingNext, main_returns, RingFifo!Next, RingFifo!fifovars

LEMMA RingFifoInit ==
  ASSUME RingInit
  PROVE  RingFifo!Init
<1>1. RingTypeOK /\ Between(readIndex, writeIndex) = 0
  BY RingInitInv DEF RingInv, RingInit, Between
<1>2. Contents = <<>>
  BY <1>1, ContentsIs DEF Laid
<1> QED
  BY <1>2 DEF RingInit, RingFifo!Init

(* ThreadSafeCircularBuffer with one writer and one reader, of any         *)
(* capacity: the calls of write and read that succeed put and take the     *)
(* items of one FIFO queue of capacity - 1 places, none lost, none twice,  *)
(* none overwritten, though neither call takes a lock.                     *)
THEOREM RingImplementsFifo ==
  ASSUME OneEach
  PROVE  RingSpec => RingIsFifo
<1>1. RingInit => RingInv
  BY RingInitInv
<1>2. RingInv /\ [RingNext]_ringvars => RingInv'
  BY RingNextInv
<1>3. RingInit => RingFifo!Init
  BY RingFifoInit
<1>4. RingInv /\ [RingNext]_ringvars => [RingFifo!Next]_(RingFifo!fifovars)
  BY RingStep
<1> QED
  BY <1>1, <1>2, <1>3, <1>4, PTL DEF RingSpec, RingIsFifo, RingFifo!Spec

-----------------------------------------------------------------------------
(* BoundedBuffer.                                                          *)

BufMessages == BufProducers \X Nat

BufTypeOK ==
  /\ buf \in Seq(BufMessages) /\ Len(buf) <= BufCapacity
  /\ produced \in [BufProducers -> Nat]
  /\ consumed \in [BufConsumers -> Seq(BufMessages)]
  /\ asleep \subseteq BufProducers \cup BufConsumers

(* Threads that still have something to do and do not wait.                *)
BusyProducers == {p \in BufProducers \ asleep : produced[p] < BufQuota}
BusyConsumers == {c \in BufConsumers \ asleep : Len(consumed[c]) < BufQuota}

(* A thread only waits while it has something to do.                       *)
AsleepUnfinished ==
  /\ \A p \in BufProducers \cap asleep : produced[p] < BufQuota
  /\ \A c \in BufConsumers \cap asleep : Len(consumed[c]) < BufQuota

(* While a consumer waits, every message in the buffer has a busy consumer *)
(* to take it; while a producer waits, every free place has a busy         *)
(* producer to fill it.                                                    *)
NoLostNotify ==
  /\ BufConsumers \cap asleep # {} => Len(buf) <= Cardinality(BusyConsumers)
  /\ BufProducers \cap asleep # {} => BufCapacity - Len(buf) <= Cardinality(BusyProducers)

(* Producers and consumers never all wait for each other.                  *)
SomebodyBusy ==
  BufProducers \cap asleep # {} /\ BufConsumers \cap asleep # {} =>
    BusyProducers \cup BusyConsumers # {}

BufInv == BufTypeOK /\ AsleepUnfinished /\ NoLostNotify

(* The busy threads are finitely many.                                     *)
LEMMA BusyFinite ==
  /\ IsFiniteSet(BusyProducers) /\ Cardinality(BusyProducers) \in Nat
  /\ IsFiniteSet(BusyConsumers) /\ Cardinality(BusyConsumers) \in Nat
<1>1. BusyProducers \subseteq BufProducers /\ BusyConsumers \subseteq BufConsumers
  BY DEF BusyProducers, BusyConsumers
<1> QED
  BY <1>1, BufAssumption, FS_Subset, FS_CardinalityType

LEMMA CardMoves ==
  ASSUME NEW S, IsFiniteSet(S), NEW x
  PROVE  /\ Cardinality(S) \in Nat
         /\ IsFiniteSet(S \cup {x}) /\ IsFiniteSet(S \ {x})
         /\ x \notin S => Cardinality(S \cup {x}) = Cardinality(S) + 1
         /\ x \in S => Cardinality(S \ {x}) = Cardinality(S) - 1
         /\ x \notin S => S \ {x} = S
  BY FS_CardinalityType, FS_AddElement, FS_RemoveElement, Zenon

LEMMA BufInitInv == BufInit => BufInv
<1> SUFFICES ASSUME BufInit PROVE BufInv
  OBVIOUS
<1>1. BufTypeOK
  BY BufAssumption DEF BufInit, BufTypeOK
<1> QED
  BY <1>1 DEF BufInit, BufInv, AsleepUnfinished, NoLostNotify

(* notify_one takes one waiting thread of S, if there is one, off asleep.  *)
LEMMA Notified ==
  ASSUME NEW S, NotifyOne(S)
  PROVE  \/ asleep' = asleep /\ asleep \cap S = {}
         \/ \E t \in asleep \cap S : asleep' = asleep \ {t}
  BY DEF NotifyOne

LEMMA ProducerWaits ==
  ASSUME BufInv, NEW p \in BufProducers, enqueue_waits(p)
  PROVE  BufInv'
<1>1. /\ p \notin BufConsumers /\ p \notin asleep /\ produced[p] < BufQuota
      /\ asleep' = asleep \cup {p} /\ Len(buf) >= BufCapacity
      /\ buf' = buf /\ produced' = produced /\ consumed' = consumed
  BY BufAssumption DEF enqueue_waits
<1>2. BufTypeOK' /\ AsleepUnfinished'
  BY <1>1 DEF BufInv, BufTypeOK, AsleepUnfinished
<1>3. BusyConsumers' = BusyConsumers /\ BufConsumers \cap asleep' = BufConsumers \cap asleep
  BY <1>1 DEF BusyConsumers
<1>4. (Cardinality(BusyProducers) \in Nat)'
  BY BusyFinite, PTL
<1>5. BufCapacity - Len(buf) <= 0
  BY <1>1, BufAssumption DEF BufInv, BufTypeOK
<1>6. NoLostNotify'
  BY <1>1, <1>3, <1>4, <1>5, BufAssumption DEF BufInv, BufTypeOK, NoLostNotify
<1> QED
  BY <1>2, <1>6 DEF BufInv

LEMMA ConsumerWaits ==
  ASSUME BufInv, NEW c \in BufConsumers, dequeue_waits(c)
  PROVE  BufInv'
<1>1. /\ c \notin BufProducers /\ c \notin asleep /\ Len(consumed[c]) < BufQuota
      /\ asleep' = asleep \cup {c} /\ Len(buf) = 0
      /\ buf' = buf /\ produced' = produced /\ consumed' = consumed
  BY BufAssumption DEF dequeue_waits
<1>2. BufTypeOK' /\ AsleepUnfinished'
  BY <1>1 DEF BufInv, BufTypeOK, AsleepUnfinished
<1>3. BusyProducers' = BusyProducers /\ BufProducers \cap asleep' = BufProducers \cap asleep
  BY <1>1 DEF BusyProducers
<1>4. (Cardinality(BusyConsumers) \in Nat)'
  BY BusyFinite, PTL
<1>5. NoLostNotify'
  BY <1>1, <1>3, <1>4, BufAssumption DEF BufInv, BufTypeOK, NoLostNotify
<1> QED
  BY <1>2, <1>5 DEF BufInv

LEMMA Enqueues ==
  ASSUME BufInv, NEW p \in BufProducers, enqueue(p)
  PROVE  BufInv'
<1>1. /\ p \notin BufConsumers /\ p \notin asleep /\ produced[p] < BufQuota
      /\ Len(buf) < BufCapacity /\ consumed' = consumed
      /\ buf' = Append(buf, <<p, produced[p] + 1>>)
      /\ produced' = [produced EXCEPT ![p] = @ + 1]
  BY BufAssumption DEF enqueue, puts
<1>2. /\ <<p, produced[p] + 1>> \in BufMessages /\ Len(buf) \in Nat
      /\ Len(buf') = Len(buf) + 1 /\ buf' \in Seq(BufMessages)
  BY <1>1 DEF BufInv, BufTypeOK, BufMessages
<1>3. asleep' \subseteq asleep /\ BufProducers \cap asleep' = BufProducers \cap asleep
  BY Notified, BufAssumption DEF enqueue, puts
<1>4. BufTypeOK'
  BY <1>1, <1>2, <1>3, BufAssumption DEF BufInv, BufTypeOK
<1>5. AsleepUnfinished'
  BY <1>1, <1>3 DEF BufInv, BufTypeOK, AsleepUnfinished
<1>6. ASSUME BufConsumers \cap asleep' # {}
      PROVE  Len(buf') <= Cardinality(BusyConsumers')
  <2>1. PICK t \in asleep \cap BufConsumers : asleep' = asleep \ {t}
    BY <1>6, Notified DEF enqueue, puts
  <2>2. BusyConsumers' = BusyConsumers \cup {t} /\ t \notin BusyConsumers
    BY <1>1, <2>1 DEF BufInv, AsleepUnfinished, BusyConsumers
  <2>3. Cardinality(BusyConsumers') = Cardinality(BusyConsumers) + 1
    BY <2>2, BusyFinite, CardMoves
  <2> QED BY <1>2, <2>1, <2>3, BusyFinite DEF BufInv, NoLostNotify
<1>7. ASSUME BufProducers \cap asleep' # {}
      PROVE  BufCapacity - Len(buf') <= Cardinality(BusyProducers')
  <2>1. p \in BusyProducers /\ BusyProducers \ {p} \subseteq BusyProducers'
    BY <1>1, <1>3 DEF BusyProducers, BufInv, BufTypeOK
  <2>2. (IsFiniteSet(BusyProducers))'
    BY BusyFinite, PTL
  <2>3. Cardinality(BusyProducers \ {p}) <= Cardinality(BusyProducers')
    BY <2>1, <2>2, FS_Subset
  <2>4. Cardinality(BusyProducers \ {p}) = Cardinality(BusyProducers) - 1
    BY <2>1, BusyFinite, CardMoves
  <2>5. BufCapacity - Len(buf) <= Cardinality(BusyProducers)
    BY <1>3, <1>7 DEF BufInv, NoLostNotify
  <2>6. (Cardinality(BusyProducers) \in Nat)'
    BY BusyFinite, PTL
  <2> QED BY <1>2, <2>3, <2>4, <2>5, <2>6, BusyFinite, BufAssumption
<1> QED
  BY <1>4, <1>5, <1>6, <1>7 DEF BufInv, NoLostNotify

LEMMA Dequeues ==
  ASSUME BufInv, NEW c \in BufConsumers, dequeue(c)
  PROVE  BufInv'
<1>1. /\ c \notin BufProducers /\ c \notin asleep /\ Len(consumed[c]) < BufQuota
      /\ buf # <<>> /\ produced' = produced /\ buf' = Tail(buf)
      /\ consumed' = [consumed EXCEPT ![c] = Append(@, Head(buf))]
  BY BufAssumption DEF dequeue, takes
<1>2. /\ Head(buf) \in BufMessages /\ Len(buf) \in Nat \ {0}
      /\ Len(buf') = Len(buf) - 1 /\ buf' \in Seq(BufMessages)
  BY <1>1 DEF BufInv, BufTypeOK
<1>3. asleep' \subseteq asleep /\ BufConsumers \cap asleep' = BufConsumers \cap asleep
  BY Notified, BufAssumption DEF dequeue
<1>4. BufTypeOK'
  <2>1. Append(consumed[c], Head(buf)) \in Seq(BufMessages)
    BY <1>2 DEF BufInv, BufTypeOK
  <2> QED BY <1>1, <1>2, <1>3, <2>1, BufAssumption DEF BufInv, BufTypeOK
<1>5. AsleepUnfinished'
  BY <1>1, <1>3 DEF BufInv, BufTypeOK, AsleepUnfinished
<1>6. ASSUME BufProducers \cap asleep' # {}
      PROVE  BufCapacity - Len(buf') <= Cardinality(BusyProducers')
  <2>1. PICK t \in asleep \cap BufProducers : asleep' = asleep \ {t}
    BY <1>6, Notified DEF dequeue
  <2>2. BusyProducers' = BusyProducers \cup {t} /\ t \notin BusyProducers
    BY <1>1, <2>1 DEF BufInv, AsleepUnfinished, BusyProducers
  <2>3. Cardinality(BusyProducers') = Cardinality(BusyProducers) + 1
    BY <2>2, BusyFinite, CardMoves
  <2> QED BY <1>2, <2>1, <2>3, BusyFinite, BufAssumption DEF BufInv, NoLostNotify
<1>7. ASSUME BufConsumers \cap asleep' # {}
      PROVE  Len(buf') <= Cardinality(BusyConsumers')
  <2>1. c \in BusyConsumers /\ BusyConsumers \ {c} \subseteq BusyConsumers'
    BY <1>1, <1>3 DEF BusyConsumers, BufInv, BufTypeOK
  <2>2. (IsFiniteSet(BusyConsumers))'
    BY BusyFinite, PTL
  <2>3. Cardinality(BusyConsumers \ {c}) <= Cardinality(BusyConsumers')
    BY <2>1, <2>2, FS_Subset
  <2>4. Cardinality(BusyConsumers \ {c}) = Cardinality(BusyConsumers) - 1
    BY <2>1, BusyFinite, CardMoves
  <2>5. Len(buf) <= Cardinality(BusyConsumers)
    BY <1>3, <1>7 DEF BufInv, NoLostNotify
  <2>6. (Cardinality(BusyConsumers) \in Nat)'
    BY BusyFinite, PTL
  <2> QED BY <1>2, <2>3, <2>4, <2>5, <2>6, BusyFinite
<1> QED
  BY <1>4, <1>5, <1>6, <1>7 DEF BufInv, NoLostNotify

(* A wakeup only adds a busy thread.                                       *)
LEMMA Wakes ==
  ASSUME BufInv, NEW t \in BufProducers \cup BufConsumers, wakes_up(t)
  PROVE  BufInv'
<1>1. /\ t \in asleep /\ asleep' = asleep \ {t}
      /\ buf' = buf /\ produced' = produced /\ consumed' = consumed
  BY DEF wakes_up
<1>2. BufTypeOK' /\ AsleepUnfinished'
  BY <1>1 DEF BufInv, BufTypeOK, AsleepUnfinished
<1>3. BusyProducers \subseteq BusyProducers' /\ BusyConsumers \subseteq BusyConsumers'
  BY <1>1 DEF BusyProducers, BusyConsumers
<1>4. (/\ IsFiniteSet(BusyProducers) /\ Cardinality(BusyProducers) \in Nat
       /\ IsFiniteSet(BusyConsumers) /\ Cardinality(BusyConsumers) \in Nat)'
  BY BusyFinite, PTL
<1>5. /\ Cardinality(BusyProducers) <= Cardinality(BusyProducers')
      /\ Cardinality(BusyConsumers) <= Cardinality(BusyConsumers')
  BY <1>3, <1>4, FS_Subset
<1>6. Len(buf) \in Nat /\ BufCapacity \in Nat
  BY BufAssumption DEF BufInv, BufTypeOK
<1>7. NoLostNotify'
  <2>1. /\ BufConsumers \cap asleep' # {} => BufConsumers \cap asleep # {}
        /\ BufProducers \cap asleep' # {} => BufProducers \cap asleep # {}
    BY <1>1
  <2> QED BY <1>1, <1>4, <1>5, <1>6, <2>1, BusyFinite DEF BufInv, NoLostNotify
<1> QED
  BY <1>2, <1>7 DEF BufInv

LEMMA BufNextInv ==
  ASSUME BufInv, [BufNext]_bufvars
  PROVE  BufInv'
<1>1. CASE UNCHANGED bufvars
  BY <1>1 DEF bufvars, BufInv, BufTypeOK, AsleepUnfinished, NoLostNotify,
              BusyProducers, BusyConsumers
<1> QED
  BY <1>1, ProducerWaits, ConsumerWaits, Enqueues, Dequeues, Wakes
     DEF BufNext, BufProducer, BufConsumer

(* enqueue and dequeue are the steps of the queue; the rest it cannot see. *)
LEMMA BufStep ==
  ASSUME [BufNext]_bufvars
  PROVE  [BufFifo!Next]_(BufFifo!fifovars)
<1> USE DEF BufFifo!fifovars, bufvars
<1>1. ASSUME NEW p \in BufProducers, BufProducer(p)
      PROVE  BufFifo!Put(p) \/ UNCHANGED <<buf, produced, consumed>>
  BY <1>1 DEF BufProducer, enqueue, enqueue_waits, puts, BufFifo!Put
<1>2. ASSUME NEW c \in BufConsumers, BufConsumer(c)
      PROVE  BufFifo!Take(c) \/ UNCHANGED <<buf, produced, consumed>>
  BY <1>2 DEF BufConsumer, dequeue, dequeue_waits, takes, BufFifo!Take
<1>3. ASSUME NEW t, wakes_up(t) PROVE UNCHANGED <<buf, produced, consumed>>
  BY <1>3 DEF wakes_up
<1> QED
  BY <1>1, <1>2, <1>3 DEF BufNext, BufFifo!Next

(* BoundedBuffer with any number of producers and consumers is a FIFO      *)
(* queue that never holds more than capacity messages.                     *)
THEOREM BufferImplementsFifo == BufSpec => BufIsFifo
<1>1. BufInit => BufFifo!Init
  BY DEF BufInit, BufFifo!Init
<1>2. [BufNext]_bufvars => [BufFifo!Next]_(BufFifo!fifovars)
  BY BufStep
<1> QED
  BY <1>1, <1>2, PTL DEF BufSpec, BufIsFifo, BufFifo!Spec

(* notify_one after each enqueue and dequeue is enough: while consumers    *)
(* wait, each message has a busy consumer, and while producers wait, each  *)
(* free place has a busy producer.  So they never all wait for each other. *)
THEOREM NoNotifyLost == BufSpec => [](NoLostNotify /\ SomebodyBusy)
<1>1. BufInit => BufInv
  BY BufInitInv
<1>2. BufInv /\ [BufNext]_bufvars => BufInv'
  BY BufNextInv
<1>3. BufInv => NoLostNotify /\ SomebodyBusy
  <2> SUFFICES ASSUME BufInv, BufProducers \cap asleep # {}, BufConsumers \cap asleep # {}
               PROVE  BusyProducers \cup BusyConsumers # {}
    BY DEF BufInv, SomebodyBusy
  <2>1. Len(buf) <= Cardinality(BusyConsumers) /\ BufCapacity - Len(buf) <= Cardinality(BusyProducers)
    BY DEF BufInv, NoLostNotify
  <2>2. Len(buf) \in Nat /\ BufCapacity \in Nat \ {0}
    BY BufAssumption DEF BufInv, BufTypeOK
  <2>3. Cardinality(BusyConsumers) # 0 \/ Cardinality(BusyProducers) # 0
    BY <2>1, <2>2, BusyFinite
  <2> QED BY <2>3, FS_EmptySet
<1> QED
  BY <1>1, <1>2, <1>3, PTL DEF BufSpec

=============================================================================
