--------------------------- MODULE LockFree_proof ---------------------------
(***************************************************************************)
(* The structures of chapter 5 that use atomics and no mutex, for any      *)
(* number of threads, nodes and keys: AtomicReadWriteLock excludes, the    *)
(* chain of ThreadSafeHashTable holds with one thread that removes, and    *)
(* LockFreeQueue is a queue for one producer with one consumer, or for     *)
(* producers only.                                                         *)
(***************************************************************************)
EXTENDS RWLock, LockFreeQueue, HashTable, FiniteSetTheorems, SequenceTheorems,
        WellFoundedInduction, TLAPS

-----------------------------------------------------------------------------
(* AtomicReadWriteLock.  Exclusion is not inductive: the step into reading *)
(* needs that the flag is down only when nobody writes (FlagOwned), the    *)
(* step into writing that a count of zero means nobody reads (CountExact). *)

(* Initially nobody is counted and the flag is down.                       *)
LEMMA RWInitInv == RWInit => RWInv
<1> SUFFICES ASSUME RWInit PROVE RWInv
  OBVIOUS
<1>1. Counted = {} /\ At({"w_drain", "writing"}) = {}
  BY DEF RWInit, Counted, At
<1>2. CountExact
  BY <1>1, FS_EmptySet DEF RWInit, CountExact
<1>3. RWTypeOK /\ FlagOwned /\ Exclusion
  BY <1>1 DEF RWInit, RWTypeOK, FlagOwned, Exclusion, LockLabels, ReadEntry,
              WriteEntry
<1> QED
  BY <1>2, <1>3 DEF RWInv

(* The counted threads form a finite set, so the count is zero exactly     *)
(* when there are none.                                                    *)
LEMMA CountedFinite ==
  ASSUME RWInv
  PROVE  /\ IsFiniteSet(Counted)
         /\ readers = 0 <=> Counted = {}
<1>1. Counted \subseteq LockUsers
  BY DEF Counted, At
<1>2. IsFiniteSet(Counted)
  BY <1>1, LockAssumption, FS_Subset
<1> QED
  BY <1>2, FS_EmptySet DEF RWInv, CountExact

(* Moving one thread between labels that are not counted leaves the set of *)
(* counted threads as it was; crossing the border adds or removes it.      *)
LEMMA CountedStep ==
  ASSUME RWTypeOK, NEW u \in LockUsers, NEW from, NEW to, Step(u, from, to)
  PROVE  LET C == {"r_recheck", "r_undo", "reading"} IN
         /\ (from \in C) = (to \in C) => Counted' = Counted
         /\ from \notin C /\ to \in C => /\ u \notin Counted
                                         /\ Counted' = Counted \cup {u}
         /\ from \in C /\ to \notin C => /\ u \in Counted
                                         /\ Counted' = Counted \ {u}
  BY DEF RWTypeOK, Step, Counted, At

(* A step that neither changes the count nor crosses the border.           *)
LEMMA CountKept ==
  ASSUME RWInv, readers' = readers, Counted' = Counted
  PROVE  CountExact'
  BY DEF RWInv, CountExact

(* A step that counts a thread in.                                         *)
LEMMA CountUp ==
  ASSUME RWInv, NEW u \in LockUsers, u \notin Counted,
         Counted' = Counted \cup {u}, readers' = readers + 1
  PROVE  CountExact'
<1>1. Cardinality(Counted \cup {u}) = Cardinality(Counted) + 1
  BY CountedFinite, FS_AddElement
<1> QED
  BY <1>1 DEF RWInv, CountExact

(* A step that counts a thread out; the count was positive.                *)
LEMMA CountDown ==
  ASSUME RWInv, NEW u \in LockUsers, u \in Counted,
         Counted' = Counted \ {u}, readers' = readers - 1
  PROVE  CountExact' /\ readers' \in Nat
<1>1. Cardinality(Counted \ {u}) = Cardinality(Counted) - 1
  BY CountedFinite, FS_RemoveElement
<1>2. readers # 0 /\ readers \in Nat
  BY CountedFinite DEF RWInv, RWTypeOK
<1> QED
  BY <1>1, <1>2 DEF RWInv, CountExact

(* Every step keeps the invariant.                                         *)
LEMMA RWStepInv == RWInv /\ [RWNext]_rwvars => RWInv'
<1> SUFFICES ASSUME RWInv, [RWNext]_rwvars PROVE RWInv'
  OBVIOUS
<1> USE DEF RWInv
<1>1. CASE UNCHANGED rwvars
  BY <1>1 DEF rwvars, RWTypeOK, CountExact, Counted, FlagOwned, Exclusion, At
<1>2. ASSUME NEW u \in LockUsers, RWCall(u) \/ RWStep(u)
      PROVE  RWInv'
  <2> USE DEF RWTypeOK, LockLabels, ReadEntry, WriteEntry
  <2>1. CASE \/ readLock(u) \/ writeLock(u) \/ read_no_writer(u) \/ read_load(u)
             \/ read_cas_fails(u)
    <3>1. Counted' = Counted /\ readers' = readers
      BY <2>1, CountedStep DEF readLock, writeLock, read_no_writer, read_load,
                               read_cas_fails
    <3>2. RWTypeOK' /\ FlagOwned' /\ Exclusion'
      BY <2>1 DEF readLock, writeLock, read_no_writer, read_load, read_cas_fails,
                  Step, FlagOwned, Exclusion, At
    <3> QED
      BY <3>1, <3>2, CountKept
  <2>2. CASE read_count(u)
    <3>1. CountExact'
      BY <2>2, CountedStep, CountUp DEF read_count
    <3>2. RWTypeOK' /\ FlagOwned' /\ Exclusion'
      BY <2>2 DEF read_count, Step, FlagOwned, Exclusion, At
    <3> QED
      BY <3>1, <3>2
  <2>3. CASE read_enter(u)
    <3>1. CountExact'
      BY <2>3, CountedStep, CountKept DEF read_enter
    <3>2. \A v \in LockUsers : lockpc[v] # "writing"
      BY <2>3 DEF read_enter, FlagOwned, At
    <3>3. RWTypeOK' /\ FlagOwned' /\ Exclusion'
      BY <2>3, <3>2 DEF read_enter, Step, FlagOwned, Exclusion, At
    <3> QED
      BY <3>1, <3>3
  <2>4. CASE read_yields(u)
    <3>1. CountExact'
      BY <2>4, CountedStep, CountKept DEF read_yields
    <3>2. RWTypeOK' /\ FlagOwned' /\ Exclusion'
      BY <2>4 DEF read_yields, Step, FlagOwned, Exclusion, At
    <3> QED
      BY <3>1, <3>2
  <2>5. CASE read_undo(u) \/ readUnlock(u)
    <3>1. CountExact' /\ readers' \in Nat
      BY <2>5, CountedStep, CountDown DEF read_undo, readUnlock
    <3>2. RWTypeOK' /\ FlagOwned' /\ Exclusion'
      BY <2>5, <3>1 DEF read_undo, readUnlock, Step, FlagOwned, Exclusion, At
    <3> QED
      BY <3>1, <3>2
  <2>6. CASE write_claim(u)
    <3>1. CountExact'
      BY <2>6, CountedStep, CountKept DEF write_claim
    <3>2. RWTypeOK' /\ FlagOwned' /\ Exclusion'
      BY <2>6 DEF write_claim, Step, FlagOwned, Exclusion, At
    <3> QED
      BY <3>1, <3>2
  <2>7. CASE write_enter(u)
    <3>1. CountExact'
      BY <2>7, CountedStep, CountKept DEF write_enter
    <3>2. \A v \in LockUsers : lockpc[v] # "reading"
      BY <2>7, CountedFinite DEF write_enter, Counted, At
    <3>3. \A v \in LockUsers : lockpc[v] = "writing" => v = u
      BY <2>7 DEF write_enter, Step, FlagOwned, At
    <3>4. RWTypeOK' /\ FlagOwned' /\ Exclusion'
      BY <2>7, <3>2, <3>3 DEF write_enter, Step, FlagOwned, Exclusion, At
    <3> QED
      BY <3>1, <3>4
  <2>8. CASE writeUnlock(u)
    <3>1. CountExact'
      BY <2>8, CountedStep, CountKept DEF writeUnlock
    <3>2. RWTypeOK' /\ FlagOwned' /\ Exclusion'
      BY <2>8 DEF writeUnlock, Step, FlagOwned, Exclusion, At
    <3> QED
      BY <3>1, <3>2
  <2> QED
    BY <1>2, <2>1, <2>2, <2>3, <2>4, <2>5, <2>6, <2>7, <2>8 DEF RWCall, RWStep
<1> QED
  BY <1>1, <1>2 DEF RWNext

(* The inductive invariant holds throughout.                               *)
LEMMA RWInvariance == RWSpec => []RWInv
  BY RWInitInv, RWStepInv, PTL DEF RWSpec

(* Type correctness: in particular the reader count never goes below zero. *)
THEOREM RWTypeCorrect == RWSpec => []RWTypeOK
<1>1. RWInv => RWTypeOK
  BY DEF RWInv
<1> QED
  BY <1>1, RWInvariance, PTL

(* readLock and writeLock exclude each other, and writers one another, for *)
(* any number of threads.                                                  *)
THEOREM RWExcludes == RWSpec => []Exclusion
<1>1. RWInv => Exclusion
  BY DEF RWInv
<1> QED
  BY <1>1, RWInvariance, PTL

-----------------------------------------------------------------------------
(* A nonempty set of natural numbers has a smallest one: what stands in    *)
(* for induction along a chain of nodes.                                   *)
LEMMA Smallest ==
  ASSUME NEW T, T \subseteq Nat, T # {}
  PROVE  \E m \in T : \A k \in T : m <= k
<1>1. PICK R : R = OpToRel(<, Nat)
  OBVIOUS
<1>2. IsWellFoundedOn(R, Nat)
  BY <1>1, NatLessThanWellFounded
<1>3. PICK m \in T : \A k \in T : ~(<<k, m>> \in R)
  BY <1>2, WFMin
<1>4. \A k \in Nat : k < m => <<k, m>> \in R
  BY <1>1 DEF OpToRel
<1>5. \A k \in T : ~(k < m)
  BY <1>3, <1>4
<1>6. \A k \in T : m <= k
  BY <1>5, m \in Nat
<1> QED
  BY <1>6

-----------------------------------------------------------------------------
(* The hash table.                                                         *)

Links == [to : TableNodes \cup {Null}, marked : BOOLEAN]
TablePcs == {"none", "push", "walk", "found", "missed", "seek", "mark", "unlink"}
TableCalls == [pc : TablePcs, key : Keys \cup {Null}, prev : TableNodes \cup {Null},
               cur : Links, nxt : Links, was : BOOLEAN]

HtTypeOK ==
  /\ bucket \in Links /\ live \subseteq TableNodes
  /\ nkey \in [TableNodes -> Keys \cup {Null}] /\ nnext \in [TableNodes -> Links]
  /\ at \in [TableThreads -> TableCalls] /\ stored \in [Keys -> Nat]

(* While a thread removes nobody else is in a call.                        *)
InRemove(t) == at[t].pc \in {"seek", "mark", "unlink"}
AloneOK == \A t \in TableThreads : InRemove(t) =>
             \A u \in TableThreads \ {t} : at[u].pc = "none"

(* A node that is not pushed yet belongs to one thread.                    *)
Pushing(t) == at[t].pc = "push"
NewNodes == {at[t].prev : t \in {u \in TableThreads : Pushing(u)}}
PushOK ==
  /\ \A t \in TableThreads : Pushing(t) =>
       at[t].prev \in live /\ at[t].key \in Keys /\ nkey[at[t].prev] = at[t].key
  /\ \A t, u \in TableThreads : Pushing(t) /\ Pushing(u) /\ at[t].prev = at[u].prev => t = u

(* The table counts the nodes of each key.                                 *)
InTable(k) == {m \in live \ NewNodes : nkey[m] = k}
StoredOK == /\ \A m \in live : nkey[m] \in Keys
            /\ \A k \in Keys : stored[k] = Cardinality(InTable(k))

(* The bucket is the chain of the n nodes of s.  Only the link behind a    *)
(* node that is about to be unlinked is marked.                            *)
To(n, s, i) == IF i <= n THEN s[i] ELSE Null
LinkTo(n, s, i) == [to |-> To(n, s, i), marked |-> FALSE]

Apart(n, s) == \A i, j \in 1 .. n : s[i] = s[j] => i = j

Bucket(n, s) ==
  /\ n \in Nat /\ s \in [1 .. n -> TableNodes]
  /\ Apart(n, s)
  /\ {s[i] : i \in 1 .. n} = live \ NewNodes
  /\ bucket = LinkTo(n, s, 1)
  /\ \A i \in 1 .. n : nnext[s[i]].to = To(n, s, i + 1)

(* The same but for the marks: where the links lead.                       *)
Strung(n, s) ==
  /\ n \in Nat /\ s \in [1 .. n -> TableNodes]
  /\ Apart(n, s)
  /\ {s[i] : i \in 1 .. n} = live \ NewNodes
  /\ bucket.to = To(n, s, 1)
  /\ \A i \in 1 .. n : nnext[s[i]].to = To(n, s, i + 1)

Marks(n, s) ==
  \A i \in 1 .. n : nnext[s[i]].marked =>
    \E t \in TableThreads : at[t].pc = "unlink" /\ at[t].cur.to = s[i]

LEMMA LinkParts ==
  \A n, s, i : LinkTo(n, s, i).to = To(n, s, i) /\ LinkTo(n, s, i).marked = FALSE
BY DEF LinkTo

LEMMA BucketStrung == \A n, s : Bucket(n, s) => Strung(n, s)
BY LinkParts DEF Bucket, Strung

(* Where a find is, and that it has not passed what it looks for.          *)
Ahead(n, s, i, k) == \E j \in i .. n : nkey[s[j]] = k

FindOK(n, s, t) ==
  /\ at[t].pc \in {"walk", "found", "missed"} => at[t].key \in Keys
  /\ at[t].pc = "walk" => \E i \in 1 .. n + 1 :
       at[t].cur = LinkTo(n, s, i) /\ (at[t].was => Ahead(n, s, i, at[t].key))
  /\ at[t].pc = "found" => Ahead(n, s, 1, at[t].key)
  /\ at[t].pc = "missed" => ~at[t].was

(* Where a remove is: prev is the node before current.                     *)
Stands(n, s, t, i) == /\ at[t].cur = LinkTo(n, s, i)
                      /\ at[t].prev = IF i = 1 THEN Null ELSE s[i - 1]

RemoveOK(n, s, t) ==
  /\ InRemove(t) => at[t].key \in Keys
  /\ at[t].pc = "seek" => \E i \in 1 .. n + 1 : Stands(n, s, t, i)
  /\ at[t].pc \in {"mark", "unlink"} => \E i \in 1 .. n :
       /\ Stands(n, s, t, i) /\ nkey[s[i]] = at[t].key
       /\ at[t].nxt = LinkTo(n, s, i + 1)

ChainOK(n, s) == /\ Bucket(n, s) /\ Marks(n, s)
                 /\ \A t \in TableThreads : FindOK(n, s, t) /\ RemoveOK(n, s, t)

HtInv == HtTypeOK /\ AloneOK /\ PushOK /\ StoredOK /\ \E n, s : ChainOK(n, s)

(* A step of t in which only its own call changes and does not push.       *)
Still(t, c) == /\ at' = [at EXCEPT ![t] = c] /\ c \in TableCalls
               /\ UNCHANGED <<bucket, live, nkey, nnext, stored>>
               /\ at[t].pc # "push" /\ c.pc # "push"

LEMMA StillFrame ==
  ASSUME NEW t \in TableThreads, NEW c, Still(t, c), HtTypeOK, PushOK, StoredOK
  PROVE  HtTypeOK' /\ PushOK' /\ StoredOK' /\ NewNodes' = NewNodes
<1>1. /\ at' \in [TableThreads -> TableCalls] /\ at'[t] = c
      /\ \A u \in TableThreads \ {t} : at'[u] = at[u]
  BY DEF Still, HtTypeOK
<1>2. \A u \in TableThreads : Pushing(u)' <=> Pushing(u)
  BY <1>1 DEF Still, Pushing
<1>3. \A u \in TableThreads : Pushing(u) => at'[u] = at[u]
  BY <1>1 DEF Still, Pushing
<1>4. HtTypeOK'
  BY <1>1 DEF Still, HtTypeOK
<1>5. NewNodes' = NewNodes
  BY <1>2, <1>3 DEF NewNodes
<1>6. PushOK'
  BY <1>2, <1>3 DEF PushOK, Still
<1>7. \A k \in Keys : InTable(k)' = InTable(k)
  BY <1>5 DEF InTable, Still
<1>8. StoredOK'
  BY <1>7 DEF StoredOK, Still
<1> QED
  BY <1>4, <1>5, <1>6, <1>8

(* One that does not wait to unlink a node either.                         *)
Quiet(t, c) == /\ at' = [at EXCEPT ![t] = c] /\ c \in TableCalls
               /\ UNCHANGED <<bucket, live, nkey, nnext, stored>>
               /\ at[t].pc \notin {"push", "unlink"} /\ c.pc # "push"

LEMMA QuietFrame ==
  ASSUME NEW t \in TableThreads, NEW c, Quiet(t, c), HtTypeOK, PushOK, StoredOK
  PROVE  HtTypeOK' /\ PushOK' /\ StoredOK' /\ NewNodes' = NewNodes
<1>1. Still(t, c)
  BY DEF Quiet, Still
<1> QED
  BY <1>1, StillFrame

LEMMA QuietChain ==
  ASSUME NEW t \in TableThreads, NEW c, Quiet(t, c), HtTypeOK, PushOK, StoredOK,
         NEW n, NEW s, ChainOK(n, s)
  PROVE  /\ Bucket(n, s)' /\ Marks(n, s)'
         /\ \A u \in TableThreads \ {t} : FindOK(n, s, u)' /\ RemoveOK(n, s, u)'
<1>1. NewNodes' = NewNodes
  BY QuietFrame
<1>2. at'[t] = c /\ \A u \in TableThreads \ {t} : at'[u] = at[u]
  BY DEF Quiet, HtTypeOK
<1>3. Bucket(n, s)'
  BY <1>1 DEF ChainOK, Bucket, LinkTo, To, Quiet
<1>4. Marks(n, s)'
  BY <1>2 DEF ChainOK, Marks, Quiet
<1>5. ASSUME NEW u \in TableThreads \ {t}
      PROVE  FindOK(n, s, u)' /\ RemoveOK(n, s, u)'
  <2>1. at'[u] = at[u] /\ nkey' = nkey
    BY <1>2 DEF Quiet
  <2>2. FindOK(n, s, u) /\ RemoveOK(n, s, u)
    BY DEF ChainOK
  <2>3. FindOK(n, s, u)'
    BY <2>1, <2>2 DEF FindOK, Ahead
  <2>4. RemoveOK(n, s, u)'
    BY <2>1, <2>2 DEF RemoveOK, Stands, InRemove
  <2> QED
    BY <2>3, <2>4
<1> QED
  BY <1>3, <1>4, <1>5

(* What is left to show of a quiet step.                                   *)
LEMMA QuietStep ==
  ASSUME NEW t \in TableThreads, NEW c, Quiet(t, c), HtTypeOK, PushOK, StoredOK, AloneOK,
         NEW n, NEW s, ChainOK(n, s), FindOK(n, s, t)', RemoveOK(n, s, t)',
         \A u \in TableThreads \ {t} : InRemove(u) => c.pc = "none",
         c.pc \in {"seek", "mark", "unlink"} =>
           \A u \in TableThreads \ {t} : at[u].pc = "none"
  PROVE  HtInv'
<1>1. at'[t] = c /\ \A u \in TableThreads \ {t} : at'[u] = at[u]
  BY DEF Quiet, HtTypeOK
<1>2. AloneOK'
  <2> SUFFICES ASSUME NEW v \in TableThreads, InRemove(v)',
                      NEW u \in TableThreads \ {v}
               PROVE  at'[u].pc = "none"
    BY DEF AloneOK
  <2>1. CASE v = t
    BY <2>1, <1>1 DEF InRemove
  <2>2. CASE v # t
    <3>1. InRemove(v)
      BY <2>2, <1>1 DEF InRemove
    <3> QED
      BY <3>1, <1>1, <2>2 DEF AloneOK
  <2> QED
    BY <2>1, <2>2
<1>3. ChainOK(n, s)'
  BY QuietChain DEF ChainOK
<1>4. HtTypeOK' /\ PushOK' /\ StoredOK'
  BY QuietFrame
<1> QED
  BY <1>2, <1>3, <1>4 DEF HtInv

(* A key is stored just when some node of the bucket holds it.             *)
LEMMA StoredAhead ==
  ASSUME HtTypeOK, StoredOK, NEW n, NEW s, Bucket(n, s), NEW k \in Keys
  PROVE  stored[k] > 0 <=> Ahead(n, s, 1, k)
<1>1. InTable(k) \subseteq TableNodes /\ IsFiniteSet(TableNodes)
  BY HtAssumption DEF HtTypeOK, InTable
<1>2. IsFiniteSet(InTable(k))
  BY <1>1, FS_Subset
<1>3. Cardinality(InTable(k)) = 0 <=> InTable(k) = {}
  BY <1>2, FS_EmptySet
<1>4. stored[k] > 0 <=> InTable(k) # {}
  BY <1>3 DEF StoredOK, HtTypeOK
<1>5. ASSUME NEW m \in InTable(k) PROVE Ahead(n, s, 1, k)
  <2>1. m \in {s[i] : i \in 1 .. n} /\ nkey[m] = k
    BY <1>5 DEF InTable, Bucket
  <2> QED
    BY <2>1 DEF Ahead
<1>6. ASSUME NEW j \in 1 .. n, nkey[s[j]] = k PROVE InTable(k) # {}
  <2>1. s[j] \in live \ NewNodes
    BY DEF Bucket
  <2> QED
    BY <2>1, <1>6 DEF InTable
<1> QED
  BY <1>4, <1>5, <1>6 DEF Ahead

(* No link is marked while a thread but the remover is in a call.          *)
LEMMA Unmarked ==
  ASSUME HtTypeOK, AloneOK, NEW n, NEW s, ChainOK(n, s),
         NEW t \in TableThreads, at[t].pc \notin {"none", "unlink"}
  PROVE  \A i \in 1 .. n : nnext[s[i]] = LinkTo(n, s, i + 1)
<1> SUFFICES ASSUME NEW i \in 1 .. n PROVE nnext[s[i]] = LinkTo(n, s, i + 1)
  OBVIOUS
<1>1. nnext[s[i]] \in Links /\ nnext[s[i]].to = To(n, s, i + 1)
  BY DEF ChainOK, Bucket, HtTypeOK
<1>2. nnext[s[i]].marked = FALSE
  <2> SUFFICES ASSUME nnext[s[i]].marked PROVE FALSE
    BY <1>1 DEF Links
  <2>1. PICK u \in TableThreads : at[u].pc = "unlink"
    BY DEF ChainOK, Marks
  <2>2. u # t /\ InRemove(u)
    BY <2>1 DEF InRemove
  <2> QED
    BY <2>2 DEF AloneOK
<1> QED
  BY <1>1, <1>2 DEF Links, LinkTo

(* Nobody else removes while t is in a call, or starts one apart.          *)
LEMMA NobodyRemoves ==
  ASSUME HtTypeOK, AloneOK, NEW t \in TableThreads,
         at[t].pc # "none" \/ (NotesReader /\ apart')
  PROVE  \A u \in TableThreads \ {t} : ~InRemove(u)
<1>1. ASSUME NotesReader, apart' PROVE \A u \in TableThreads \ {t} : ~InRemove(u)
  <2>1. Removing = {}
    BY <1>1 DEF NotesReader
  <2> QED
    BY <2>1 DEF Removing, InRemove
<1> QED
  BY <1>1 DEF AloneOK, InRemove

(* The link behind the last node is nullptr, and no other is.              *)
LEMMA LinkEnds ==
  ASSUME NEW n \in Nat, NEW s, NEW i \in 1 .. n + 1, i <= n => s[i] \in TableNodes
  PROVE  LinkTo(n, s, i) = NoLink <=> i = n + 1
<1>1. LinkTo(n, s, i).to = To(n, s, i) /\ NoLink.to = Null
  BY DEF LinkTo, NoLink
<1>2. To(n, s, i) = Null => LinkTo(n, s, i) = NoLink
  BY DEF LinkTo, NoLink
<1>3. To(n, s, i) = Null <=> i = n + 1
  BY HtAssumption DEF To
<1> QED
  BY <1>1, <1>2, <1>3

LEMMA FindStarts ==
  ASSUME HtInv, apart', NEW t \in TableThreads, NEW k \in Keys, find(t, k)
  PROVE  HtInv'
<1>1. PICK n, s : ChainOK(n, s)
  BY DEF HtInv
<1>2. HtTypeOK /\ AloneOK /\ PushOK /\ StoredOK
  BY DEF HtInv
<1>3. PICK b : b = (stored[k] > 0) /\ b \in BOOLEAN
  <2>1. (stored[k] > 0) \in BOOLEAN
    OBVIOUS
  <2> QED
    BY <2>1, Zenon
<1>4. PICK c : c = [NoCall EXCEPT !.pc = "walk", !.key = k, !.cur = bucket, !.was = b]
  OBVIOUS
<1>5. /\ c \in TableCalls /\ c.pc = "walk" /\ c.key = k /\ c.cur = bucket /\ c.was = b
  BY <1>2, <1>3, <1>4 DEF HtTypeOK, TableCalls, TablePcs, NoCall, NoLink, Links
<1>6. Quiet(t, c)
  BY <1>3, <1>4, <1>5 DEF find, Sets, Quiet, Free
<1>7. at'[t] = c
  BY <1>6, <1>2 DEF Quiet, HtTypeOK
<1>8. nkey' = nkey
  BY <1>6 DEF Quiet
<1>9. n \in Nat /\ bucket = LinkTo(n, s, 1)
  BY <1>1 DEF ChainOK, Bucket
<1>10. b => Ahead(n, s, 1, k)
  BY <1>1, <1>2, <1>3, StoredAhead DEF ChainOK
<1>11. FindOK(n, s, t)'
  BY <1>5, <1>7, <1>8, <1>9, <1>10 DEF FindOK, Ahead
<1>12. RemoveOK(n, s, t)'
  BY <1>5, <1>7 DEF RemoveOK, InRemove
<1>13. \A u \in TableThreads \ {t} : ~InRemove(u)
  BY <1>2, NobodyRemoves DEF find
<1> QED
  BY <1>1, <1>2, <1>5, <1>6, <1>11, <1>12, <1>13, QuietStep

LEMMA FindSteps ==
  ASSUME HtInv, NEW t \in TableThreads, find_step(t)
  PROVE  HtInv'
<1>1. PICK n, s : ChainOK(n, s)
  BY DEF HtInv
<1>2. HtTypeOK /\ AloneOK /\ PushOK /\ StoredOK /\ at[t].pc = "walk"
  BY DEF HtInv, find_step
<1>3. PICK i \in 1 .. n + 1 : /\ at[t].cur = LinkTo(n, s, i)
                              /\ at[t].was => Ahead(n, s, i, at[t].key)
  BY <1>1, <1>2 DEF ChainOK, FindOK
<1>4. n \in Nat /\ s \in [1 .. n -> TableNodes] /\ at[t].key \in Keys
  BY <1>1, <1>2 DEF ChainOK, Bucket, FindOK
<1>5. at[t] \in TableCalls /\ at[t].cur.marked = FALSE /\ at[t].cur.to = To(n, s, i)
  BY <1>2, <1>3 DEF HtTypeOK, LinkTo
<1>6. \A u \in TableThreads \ {t} : ~InRemove(u)
  BY <1>2, NobodyRemoves
<1>7. at[t].cur = NoLink <=> i = n + 1
  <2>1. i <= n => s[i] \in TableNodes
    BY <1>4
  <2> QED
    BY <2>1, <1>3, <1>4, HtAssumption, LinkEnds
<1>8. ASSUME NEW c, at' = [at EXCEPT ![t] = c], c \in TableCalls, c.key = at[t].key,
             \/ c.pc = "missed" /\ ~c.was
             \/ c.pc = "found" /\ Ahead(n, s, 1, at[t].key)
             \/ c.pc = "walk" /\ i <= n /\ c.cur = LinkTo(n, s, i + 1)
                  /\ (c.was => Ahead(n, s, i + 1, at[t].key))
      PROVE  HtInv'
  <2>1. Quiet(t, c)
    BY <1>2, <1>8 DEF Quiet, find_step
  <2>2. at'[t] = c /\ nkey' = nkey
    BY <1>2, <2>1 DEF Quiet, HtTypeOK
  <2>3. FindOK(n, s, t)'
    BY <2>2, <1>4, <1>8 DEF FindOK, Ahead
  <2>4. RemoveOK(n, s, t)'
    BY <2>2, <1>8 DEF RemoveOK, InRemove
  <2> QED
    BY <1>1, <1>2, <1>6, <1>8, <2>1, <2>3, <2>4, QuietStep
<1>9. CASE i = n + 1
  <2>1. PICK c : c = [at[t] EXCEPT !.pc = "missed"]
    OBVIOUS
  <2>2. c \in TableCalls /\ c.key = at[t].key /\ c.pc = "missed" /\ c.was = at[t].was
    BY <2>1, <1>5 DEF TableCalls, TablePcs
  <2>3. ~at[t].was
    BY <1>3, <1>4, <1>9 DEF Ahead
  <2>4. at' = [at EXCEPT ![t] = c]
    BY <2>1, <1>7, <1>9 DEF find_step, Sets
  <2> QED
    BY <2>2, <2>3, <2>4, <1>8
<1>10. CASE i # n + 1 /\ nkey[s[i]] = at[t].key
  <2>1. PICK c : c = [at[t] EXCEPT !.pc = "found"]
    OBVIOUS
  <2>2. c \in TableCalls /\ c.key = at[t].key /\ c.pc = "found"
    BY <2>1, <1>5 DEF TableCalls, TablePcs
  <2>3. i \in 1 .. n /\ at[t].cur.to = s[i] /\ Ahead(n, s, 1, at[t].key)
    BY <1>4, <1>5, <1>10 DEF Ahead, To
  <2>4. at' = [at EXCEPT ![t] = c]
    BY <2>1, <2>3, <1>5, <1>7, <1>10 DEF find_step, Sets
  <2> QED
    BY <2>2, <2>3, <2>4, <1>8
<1>11. CASE i # n + 1 /\ nkey[s[i]] # at[t].key
  <2>1. i \in 1 .. n /\ at[t].cur.to = s[i]
    BY <1>4, <1>5, <1>11 DEF To
  <2>2. nnext[s[i]] = LinkTo(n, s, i + 1) /\ nnext[s[i]] \in Links
    BY <1>1, <1>2, <1>4, <2>1, Unmarked DEF HtTypeOK
  <2>3. PICK c : c = [at[t] EXCEPT !.cur = nnext[s[i]]]
    OBVIOUS
  <2>4. /\ c \in TableCalls /\ c.key = at[t].key /\ c.pc = "walk" /\ c.was = at[t].was
        /\ c.cur = LinkTo(n, s, i + 1)
    BY <2>2, <2>3, <1>2, <1>5 DEF TableCalls, TablePcs
  <2>5. at' = [at EXCEPT ![t] = c]
    BY <2>1, <2>3, <1>5, <1>7, <1>11 DEF find_step, Sets
  <2>6. at[t].was => Ahead(n, s, i + 1, at[t].key)
    BY <1>3, <1>4, <1>11, <2>1 DEF Ahead
  <2>7. /\ c.pc = "walk" /\ i <= n /\ c.cur = LinkTo(n, s, i + 1)
        /\ (c.was => Ahead(n, s, i + 1, at[t].key))
    BY <2>1, <2>4, <2>6
  <2> QED
    BY <2>4, <2>5, <2>7, <1>8
<1> QED
  BY <1>9, <1>10, <1>11

LEMMA FindReturns ==
  ASSUME HtInv, NEW t \in TableThreads, find_returns(t)
  PROVE  HtInv'
<1>1. PICK n, s : ChainOK(n, s)
  BY DEF HtInv
<1>2. HtTypeOK /\ AloneOK /\ PushOK /\ StoredOK
  BY DEF HtInv
<1>3. NoCall \in TableCalls /\ NoCall.pc = "none"
  BY DEF TableCalls, TablePcs, NoCall, NoLink, Links
<1>4. Quiet(t, NoCall)
  BY <1>3 DEF find_returns, Returns, Sets, Quiet
<1>5. at'[t].pc = "none"
  BY <1>2, <1>3, <1>4 DEF Quiet, HtTypeOK
<1>6. FindOK(n, s, t)' /\ RemoveOK(n, s, t)'
  BY <1>5 DEF FindOK, RemoveOK, InRemove
<1> QED
  BY <1>1, <1>2, <1>3, <1>4, <1>6, QuietStep

LEMMA RemoveStarts ==
  ASSUME HtInv, NEW t \in TableThreads, NEW k \in Keys, Seek(t, k),
         UNCHANGED <<bucket, live, nkey, nnext, stored>>,
         (at[t].pc = "none" /\ NotesRemove /\ apart') \/ at[t].pc = "mark"
  PROVE  HtInv'
<1>1. PICK n, s : ChainOK(n, s)
  BY DEF HtInv
<1>2. HtTypeOK /\ AloneOK /\ PushOK /\ StoredOK
  BY DEF HtInv
<1>3. PICK c : c = [NoCall EXCEPT !.pc = "seek", !.key = k, !.cur = bucket]
  OBVIOUS
<1>4. c \in TableCalls /\ c.pc = "seek" /\ c.key = k /\ c.cur = bucket /\ c.prev = Null
  BY <1>2, <1>3 DEF HtTypeOK, TableCalls, TablePcs, NoCall, NoLink, Links
<1>5. Quiet(t, c)
  BY <1>3, <1>4 DEF Seek, Sets, Quiet
<1>6. at'[t] = c
  BY <1>5, <1>2 DEF Quiet, HtTypeOK
<1>7. n \in Nat /\ bucket = LinkTo(n, s, 1)
  BY <1>1 DEF ChainOK, Bucket
<1>8. FindOK(n, s, t)'
  BY <1>4, <1>6 DEF FindOK
<1>9. RemoveOK(n, s, t)'
  BY <1>4, <1>6, <1>7 DEF RemoveOK, InRemove, Stands
<1>10. \A u \in TableThreads \ {t} : at[u].pc = "none"
  BY <1>2 DEF AloneOK, InRemove, NotesRemove, Free
<1> QED
  BY <1>1, <1>2, <1>5, <1>8, <1>9, <1>10, QuietStep DEF InRemove

LEMMA RemoveSteps ==
  ASSUME HtInv, NEW t \in TableThreads, remove_step(t)
  PROVE  HtInv'
<1>1. PICK n, s : ChainOK(n, s)
  BY DEF HtInv
<1>2. HtTypeOK /\ AloneOK /\ PushOK /\ StoredOK /\ at[t].pc = "seek"
  BY DEF HtInv, remove_step
<1>3. PICK i \in 1 .. n + 1 : Stands(n, s, t, i)
  BY <1>1, <1>2 DEF ChainOK, RemoveOK
<1>4. n \in Nat /\ s \in [1 .. n -> TableNodes] /\ at[t].key \in Keys
  BY <1>1, <1>2 DEF ChainOK, Bucket, RemoveOK, InRemove
<1>5. at[t] \in TableCalls /\ at[t].cur = LinkTo(n, s, i) /\ at[t].cur.to = To(n, s, i)
  BY <1>2, <1>3 DEF HtTypeOK, LinkTo, Stands
<1>6. \A u \in TableThreads \ {t} : at[u].pc = "none"
  BY <1>2 DEF AloneOK, InRemove
<1>7. at[t].cur = NoLink <=> i = n + 1
  <2>1. i <= n => s[i] \in TableNodes
    BY <1>4
  <2> QED
    BY <2>1, <1>5, <1>4, LinkEnds
<1>8. ASSUME NEW c, at' = [at EXCEPT ![t] = c], c \in TableCalls, c.pc # "push",
             FindOK(n, s, t)', RemoveOK(n, s, t)'
      PROVE  HtInv'
  <2>1. Quiet(t, c)
    BY <1>2, <1>8 DEF Quiet, remove_step
  <2> QED
    BY <1>1, <1>2, <1>6, <1>8, <2>1, QuietStep DEF InRemove
<1>9. CASE i = n + 1
  <2>1. NoCall \in TableCalls /\ NoCall.pc = "none"
    BY DEF TableCalls, TablePcs, NoCall, NoLink, Links
  <2>2. at' = [at EXCEPT ![t] = NoCall]
    BY <1>7, <1>9 DEF remove_step, Returns, Sets
  <2>3. at'[t].pc = "none"
    BY <2>1, <2>2, <1>2 DEF HtTypeOK
  <2>4. FindOK(n, s, t)' /\ RemoveOK(n, s, t)'
    BY <2>3 DEF FindOK, RemoveOK, InRemove
  <2> QED
    BY <2>1, <2>2, <2>4, <1>8
<1>10. ASSUME i # n + 1
       PROVE  /\ i \in 1 .. n /\ at[t].cur.to = s[i]
              /\ nnext[s[i]] = LinkTo(n, s, i + 1) /\ nnext[s[i]] \in Links
  <2>1. i \in 1 .. n /\ at[t].cur.to = s[i]
    BY <1>4, <1>5, <1>10 DEF To
  <2> QED
    BY <2>1, <1>1, <1>2, <1>4, Unmarked DEF HtTypeOK
<1>11. CASE i # n + 1 /\ nkey[s[i]] = at[t].key
  <2>1. /\ i \in 1 .. n /\ at[t].cur.to = s[i]
        /\ nnext[s[i]] = LinkTo(n, s, i + 1) /\ nnext[s[i]] \in Links
    BY <1>10, <1>11
  <2>2. PICK c : c = [at[t] EXCEPT !.pc = "mark", !.nxt = nnext[s[i]]]
    OBVIOUS
  <2>3. /\ c \in TableCalls /\ c.pc = "mark" /\ c.key = at[t].key /\ c.cur = at[t].cur
        /\ c.prev = at[t].prev /\ c.nxt = LinkTo(n, s, i + 1)
    BY <2>1, <2>2, <1>5 DEF TableCalls, TablePcs
  <2>4. at' = [at EXCEPT ![t] = c] /\ nkey' = nkey
    BY <2>1, <2>2, <1>7, <1>11 DEF remove_step, Sets
  <2>5. at'[t] = c
    BY <2>4, <1>2 DEF HtTypeOK
  <2>6. Stands(n, s, t, i)'
    BY <2>3, <2>5, <1>3 DEF Stands
  <2>7. FindOK(n, s, t)' /\ RemoveOK(n, s, t)'
    BY <2>1, <2>3, <2>4, <2>5, <2>6, <1>4, <1>11 DEF FindOK, RemoveOK, InRemove
  <2> QED
    BY <2>3, <2>4, <2>7, <1>8
<1>12. CASE i # n + 1 /\ nkey[s[i]] # at[t].key
  <2>1. /\ i \in 1 .. n /\ at[t].cur.to = s[i] /\ s[i] \in TableNodes
        /\ nnext[s[i]] = LinkTo(n, s, i + 1) /\ nnext[s[i]] \in Links
    BY <1>4, <1>10, <1>12
  <2>2. PICK c : c = [at[t] EXCEPT !.prev = s[i], !.cur = nnext[s[i]]]
    OBVIOUS
  <2>3. /\ c \in TableCalls /\ c.pc = "seek" /\ c.key = at[t].key
        /\ c.cur = LinkTo(n, s, i + 1) /\ c.prev = s[i]
    BY <2>1, <2>2, <1>2, <1>5 DEF TableCalls, TablePcs
  <2>4. at' = [at EXCEPT ![t] = c] /\ nkey' = nkey
    BY <2>1, <2>2, <1>7, <1>12 DEF remove_step, Sets
  <2>5. at'[t] = c
    BY <2>4, <1>2 DEF HtTypeOK
  <2>6. Stands(n, s, t, i + 1)' /\ i + 1 \in 1 .. n + 1
    BY <2>1, <2>3, <2>5, <1>4 DEF Stands
  <2>7. FindOK(n, s, t)' /\ RemoveOK(n, s, t)'
    BY <2>3, <2>5, <2>6, <1>4 DEF FindOK, RemoveOK, InRemove
  <2> QED
    BY <2>3, <2>4, <2>7, <1>8
<1> QED
  BY <1>9, <1>11, <1>12

LEMMA RemoveMarks ==
  ASSUME HtInv, NEW t \in TableThreads, remove_mark(t)
  PROVE  HtInv'
<1>1. PICK n, s : ChainOK(n, s)
  BY DEF HtInv
<1>2. HtTypeOK /\ AloneOK /\ PushOK /\ StoredOK /\ at[t].pc = "mark"
  BY DEF HtInv, remove_mark
<1>3. PICK i \in 1 .. n : /\ Stands(n, s, t, i) /\ nkey[s[i]] = at[t].key
                          /\ at[t].nxt = LinkTo(n, s, i + 1)
  BY <1>1, <1>2 DEF ChainOK, RemoveOK
<1>4. n \in Nat /\ s \in [1 .. n -> TableNodes] /\ at[t].key \in Keys
  BY <1>1, <1>2 DEF ChainOK, Bucket, RemoveOK, InRemove
<1>5. at[t] \in TableCalls /\ at[t].cur.to = s[i] /\ s[i] \in TableNodes
  BY <1>2, <1>3, <1>4 DEF HtTypeOK, LinkTo, Stands, To
<1>6. \A u \in TableThreads \ {t} : at[u].pc = "none"
  BY <1>2 DEF AloneOK, InRemove
<1>7. PICK l : l = get_marked(at[t].nxt)
  OBVIOUS
<1>8. l \in Links /\ l.to = To(n, s, i + 1)
  <2>1. at[t].nxt \in Links /\ at[t].nxt.to = To(n, s, i + 1)
    BY <1>3, <1>5 DEF TableCalls, LinkTo
  <2>2. l \in Links /\ l.to = at[t].nxt.to
    BY <2>1, <1>7 DEF get_marked, Links
  <2> QED
    BY <2>1, <2>2
<1>9. PICK c : c = [at[t] EXCEPT !.pc = "unlink"]
  OBVIOUS
<1>10. /\ c \in TableCalls /\ c.pc = "unlink" /\ c.key = at[t].key /\ c.cur = at[t].cur
       /\ c.prev = at[t].prev /\ c.nxt = at[t].nxt
  BY <1>5, <1>9 DEF TableCalls, TablePcs
<1>11. /\ nnext' = [nnext EXCEPT ![s[i]] = l] /\ at' = [at EXCEPT ![t] = c]
       /\ UNCHANGED <<bucket, live, nkey, stored>>
  BY <1>5, <1>7, <1>9 DEF remove_mark, Sets
<1>12. at'[t] = c /\ \A u \in TableThreads \ {t} : at'[u] = at[u]
  BY <1>2, <1>11 DEF HtTypeOK
<1>13. HtTypeOK'
  BY <1>2, <1>8, <1>10, <1>11 DEF HtTypeOK
<1>14. \A u \in TableThreads : ~Pushing(u) /\ ~Pushing(u)'
  BY <1>2, <1>6, <1>10, <1>12 DEF Pushing
<1>15. NewNodes = {} /\ NewNodes' = {}
  BY <1>14 DEF NewNodes
<1>16. PushOK'
  BY <1>14 DEF PushOK
<1>17. \A k \in Keys : InTable(k)' = InTable(k)
  BY <1>11, <1>15 DEF InTable
<1>18. StoredOK'
  BY <1>2, <1>11, <1>17 DEF StoredOK
<1>19. AloneOK'
  BY <1>6, <1>12 DEF AloneOK, InRemove
<1>20. \A j \in 1 .. n : nnext'[s[j]] = IF j = i THEN l ELSE nnext[s[j]]
  <2>1. \A j \in 1 .. n : s[j] = s[i] => j = i
    BY <1>1 DEF ChainOK, Bucket, Apart
  <2> QED
    BY <2>1, <1>2, <1>4, <1>11 DEF HtTypeOK
<1>21. \A j \in 1 .. n : nnext'[s[j]].to = To(n, s, j + 1)
  BY <1>1, <1>8, <1>20 DEF ChainOK, Bucket
<1>22. Bucket(n, s)'
  BY <1>1, <1>11, <1>15, <1>21 DEF ChainOK, Bucket
<1>23. Marks(n, s)'
  <2>1. \A j \in 1 .. n : nnext[s[j]] = LinkTo(n, s, j + 1)
    BY <1>1, <1>2, Unmarked
  <2>2. ASSUME NEW j \in 1 .. n, j # i PROVE nnext'[s[j]].marked = FALSE
    <3>1. nnext'[s[j]] = LinkTo(n, s, j + 1)
      BY <2>1, <2>2, <1>20
    <3> QED
      BY <3>1 DEF LinkTo
  <2>3. at'[t].pc = "unlink" /\ at'[t].cur.to = s[i]
    BY <1>5, <1>10, <1>12
  <2> QED
    BY <2>2, <2>3 DEF Marks
<1>24. FindOK(n, s, t)' /\ RemoveOK(n, s, t)'
  <2>1. Stands(n, s, t, i)'
    BY <1>3, <1>10, <1>12 DEF Stands
  <2> QED
    BY <2>1, <1>3, <1>4, <1>10, <1>11, <1>12 DEF FindOK, RemoveOK, InRemove
<1>25. \A u \in TableThreads \ {t} : FindOK(n, s, u)' /\ RemoveOK(n, s, u)'
  BY <1>6, <1>12 DEF FindOK, RemoveOK, InRemove
<1>26. ChainOK(n, s)'
  BY <1>22, <1>23, <1>24, <1>25 DEF ChainOK
<1> QED
  BY <1>13, <1>16, <1>18, <1>19, <1>26 DEF HtInv

(* The chain without its node i.                                           *)
Without(n, s, i) == [j \in 1 .. n - 1 |-> IF j < i THEN s[j] ELSE s[j + 1]]

IsWithout(n, s, i, m, r) ==
  /\ r \in [1 .. m -> TableNodes]
  /\ \A j \in 1 .. m : r[j] = IF j < i THEN s[j] ELSE s[j + 1]
  /\ Apart(m, r)
  /\ {r[j] : j \in 1 .. m} = {s[j] : j \in 1 .. n} \ {s[i]}
  /\ \A j \in 1 .. n : To(m, r, j) = IF j < i THEN To(n, s, j) ELSE To(n, s, j + 1)

LEMMA WithoutChain ==
  ASSUME NEW n \in Nat, NEW m \in Nat, m = n - 1, NEW s \in [1 .. n -> TableNodes],
         NEW i \in 1 .. n, Apart(n, s), NEW r, r = Without(n, s, i)
  PROVE  IsWithout(n, s, i, m, r)
<1>1. m = n - 1
  OBVIOUS
<1>2. r \in [1 .. m -> TableNodes]
  BY <1>1 DEF Without
<1>3. \A j \in 1 .. m : r[j] = IF j < i THEN s[j] ELSE s[j + 1]
  BY <1>1 DEF Without
<1>4. Apart(m, r)
  <2> SUFFICES ASSUME NEW j \in 1 .. m, NEW k \in 1 .. m, r[j] = r[k] PROVE j = k
    BY DEF Apart
  <2>1. j \in 1 .. n /\ j + 1 \in 1 .. n /\ k \in 1 .. n /\ k + 1 \in 1 .. n
    BY <1>1
  <2> QED
    BY <2>1, <1>3 DEF Apart
<1>5. ASSUME NEW j \in 1 .. m PROVE r[j] \in {s[k] : k \in 1 .. n} \ {s[i]}
  <2>1. j \in 1 .. n /\ j + 1 \in 1 .. n
    BY <1>1
  <2> QED
    BY <2>1, <1>3 DEF Apart
<1>6. ASSUME NEW k \in 1 .. n, s[k] # s[i] PROVE s[k] \in {r[j] : j \in 1 .. m}
  <2>1. CASE k < i
    <3>1. k \in 1 .. m /\ r[k] = s[k]
      BY <1>1, <1>3, <2>1
    <3> QED
      BY <3>1
  <2>2. CASE k > i
    <3>1. PICK j \in 1 .. m : k = j + 1 /\ ~(j < i)
      <4>1. k - 1 \in 1 .. m /\ k = (k - 1) + 1 /\ ~(k - 1 < i)
        BY <1>1, <2>2
      <4> QED
        BY <4>1
    <3>2. r[j] = s[k]
      BY <3>1, <1>3
    <3> QED
      BY <3>2
  <2> QED
    BY <1>6, <2>1, <2>2
<1>7. {r[j] : j \in 1 .. m} = {s[j] : j \in 1 .. n} \ {s[i]}
  BY <1>5, <1>6
<1>8. \A j \in 1 .. n : To(m, r, j) = IF j < i THEN To(n, s, j) ELSE To(n, s, j + 1)
  BY <1>1, <1>3 DEF To
<1> QED
  BY <1>2, <1>3, <1>4, <1>7, <1>8 DEF IsWithout

(* Deleting node x of the chain keeps the counts.                          *)
Deletes(t, x) ==
  /\ x \in live \ NewNodes /\ at[t].key \in Keys /\ nkey[x] = at[t].key
  /\ at[t].pc # "push" /\ at' = [at EXCEPT ![t] = NoCall]
  /\ live' = live \ {x} /\ nkey' = nkey
  /\ stored' = [stored EXCEPT ![at[t].key] = @ - 1]
  /\ bucket' \in Links /\ nnext' \in [TableNodes -> Links]

LEMMA DeleteFrame ==
  ASSUME HtTypeOK, PushOK, StoredOK, NEW t \in TableThreads, NEW x, Deletes(t, x)
  PROVE  HtTypeOK' /\ PushOK' /\ StoredOK' /\ NewNodes' = NewNodes
<1>1. NoCall \in TableCalls /\ NoCall.pc = "none"
  BY DEF TableCalls, TablePcs, NoCall, NoLink, Links
<1>2. at'[t] = NoCall /\ \A u \in TableThreads \ {t} : at'[u] = at[u]
  BY DEF Deletes, HtTypeOK
<1>3. \A u \in TableThreads : Pushing(u)' <=> Pushing(u)
  BY <1>1, <1>2 DEF Deletes, Pushing
<1>4. \A u \in TableThreads : Pushing(u) => at'[u] = at[u]
  BY <1>2 DEF Deletes, Pushing
<1>5. NewNodes' = NewNodes
  BY <1>3, <1>4 DEF NewNodes
<1>6. \A u \in TableThreads : Pushing(u) => at[u].prev # x
  BY DEF Deletes, NewNodes
<1>7. PushOK'
  BY <1>3, <1>4, <1>6 DEF PushOK, Deletes
<1>8. PICK k \in Keys : k = at[t].key
  BY DEF Deletes
<1>9. x \in InTable(k) /\ InTable(k)' = InTable(k) \ {x}
  BY <1>5, <1>8 DEF InTable, Deletes
<1>10. \A h \in Keys \ {k} : InTable(h)' = InTable(h)
  BY <1>5, <1>8 DEF InTable, Deletes
<1>11. IsFiniteSet(InTable(k))
  <2>1. InTable(k) \subseteq TableNodes /\ IsFiniteSet(TableNodes)
    BY HtAssumption DEF HtTypeOK, InTable
  <2> QED
    BY <2>1, FS_Subset
<1>12. /\ Cardinality(InTable(k) \ {x}) = Cardinality(InTable(k)) - 1
       /\ Cardinality(InTable(k) \ {x}) \in Nat
  <2>1. IsFiniteSet(InTable(k) \ {x})
    BY <1>11, FS_RemoveElement
  <2> QED
    BY <2>1, <1>9, <1>11, FS_RemoveElement, FS_CardinalityType
<1>13. \A h \in Keys : stored'[h] = Cardinality(InTable(h)') /\ stored'[h] \in Nat
  <2>1. \A h \in Keys : stored'[h] = IF h = k THEN stored[k] - 1 ELSE stored[h]
    BY <1>8 DEF HtTypeOK, Deletes
  <2>2. \A h \in Keys : stored[h] = Cardinality(InTable(h)) /\ stored[h] \in Nat
    BY DEF StoredOK, HtTypeOK
  <2> QED
    BY <2>1, <2>2, <1>9, <1>10, <1>12
<1>14. StoredOK'
  <2>1. \A m \in live' : nkey'[m] \in Keys
    BY DEF StoredOK, Deletes
  <2> QED
    BY <2>1, <1>13 DEF StoredOK
<1>15. stored' \in [Keys -> Nat]
  <2>1. stored' = [h \in Keys |-> stored'[h]]
    BY DEF HtTypeOK, Deletes
  <2> QED
    BY <2>1, <1>13
<1>16. HtTypeOK'
  BY <1>1, <1>15 DEF HtTypeOK, Deletes
<1> QED
  BY <1>5, <1>7, <1>14, <1>16

LEMMA RemoveUnlinks ==
  ASSUME HtInv, NEW t \in TableThreads, remove_unlink(t)
  PROVE  HtInv'
<1>1. PICK n, s : ChainOK(n, s)
  BY DEF HtInv
<1>2. HtTypeOK /\ AloneOK /\ PushOK /\ StoredOK /\ at[t].pc = "unlink"
  BY DEF HtInv, remove_unlink, unlink
<1>3. PICK i \in 1 .. n : /\ Stands(n, s, t, i) /\ nkey[s[i]] = at[t].key
                          /\ at[t].nxt = LinkTo(n, s, i + 1)
  BY <1>1, <1>2 DEF ChainOK, RemoveOK
<1>4. /\ n \in Nat /\ s \in [1 .. n -> TableNodes] /\ at[t].key \in Keys
      /\ Apart(n, s)
  BY <1>1, <1>2 DEF ChainOK, Bucket, RemoveOK, InRemove
<1>5. /\ at[t] \in TableCalls /\ at[t].cur.to = s[i] /\ s[i] \in TableNodes
      /\ at[t].cur = LinkTo(n, s, i) /\ at[t].prev = IF i = 1 THEN Null ELSE s[i - 1]
  BY <1>2, <1>3, <1>4 DEF HtTypeOK, LinkTo, Stands, To
<1>6. \A u \in TableThreads \ {t} : at[u].pc = "none"
  BY <1>2 DEF AloneOK, InRemove
<1>7. \A u \in TableThreads : ~Pushing(u)
  BY <1>2, <1>6 DEF Pushing
<1>8. NewNodes = {}
  BY <1>7 DEF NewNodes
(* Only the link behind the node is marked.                                *)
<1>9. \A j \in 1 .. n : j # i => nnext[s[j]] = LinkTo(n, s, j + 1)
  <2> SUFFICES ASSUME NEW j \in 1 .. n, j # i PROVE nnext[s[j]] = LinkTo(n, s, j + 1)
    OBVIOUS
  <2>1. nnext[s[j]] \in Links /\ nnext[s[j]].to = To(n, s, j + 1)
    BY <1>1, <1>2, <1>4 DEF ChainOK, Bucket, HtTypeOK
  <2>2. nnext[s[j]].marked = FALSE
    <3> SUFFICES ASSUME nnext[s[j]].marked PROVE FALSE
      BY <2>1 DEF Links
    <3>1. PICK u \in TableThreads : at[u].pc = "unlink" /\ at[u].cur.to = s[j]
      BY <1>1 DEF ChainOK, Marks
    <3>2. u = t
      BY <3>1, <1>6
    <3> QED
      BY <3>1, <3>2, <1>4, <1>5 DEF Apart
  <2> QED
    BY <2>1, <2>2 DEF Links, LinkTo
<1>10. i # 1 => i - 1 \in 1 .. n /\ s[i - 1] # Null /\ i - 1 # i /\ (i - 1) + 1 = i
                /\ s[i - 1] \in TableNodes
  <2>1. i # 1 => i - 1 \in 1 .. n /\ i - 1 # i /\ (i - 1) + 1 = i
    BY <1>4
  <2> QED
    BY <2>1, <1>4, HtAssumption
<1>11. Before(t) = at[t].cur
  <2>1. bucket = LinkTo(n, s, 1)
    BY <1>1 DEF ChainOK, Bucket
  <2>2. i # 1 => nnext[s[i - 1]] = LinkTo(n, s, i)
    BY <1>9, <1>10
  <2> QED
    BY <2>1, <2>2, <1>5, <1>10 DEF Before
<1>12. /\ bucket' = IF i = 1 THEN LinkTo(n, s, 2) ELSE bucket
       /\ nnext' = IF i # 1 THEN [nnext EXCEPT ![s[i - 1]] = LinkTo(n, s, i + 1)] ELSE nnext
       /\ live' = live \ {s[i]} /\ nkey' = nkey
       /\ stored' = [stored EXCEPT ![at[t].key] = @ - 1]
       /\ at' = [at EXCEPT ![t] = NoCall]
  <2>1. at[t].prev = Null <=> i = 1
    BY <1>5, <1>10
  <2>2. i # 1 => at[t].prev = s[i - 1]
    BY <1>5
  <2>3. i = 1 => at[t].nxt = LinkTo(n, s, 2)
    BY <1>3
  <2> QED
    BY <2>1, <2>2, <2>3, <1>3, <1>5, <1>11 DEF remove_unlink, unlink, Returns, Sets
<1>13. NoCall \in TableCalls /\ NoCall.pc = "none"
  BY DEF TableCalls, TablePcs, NoCall, NoLink, Links
<1>14. \A u \in TableThreads : at'[u].pc = "none"
  BY <1>2, <1>6, <1>12, <1>13 DEF HtTypeOK
<1>15. s[i] \in live \ NewNodes
  BY <1>1 DEF ChainOK, Bucket
<1>16. LinkTo(n, s, 2) \in Links /\ LinkTo(n, s, i + 1) \in Links
  BY <1>4 DEF LinkTo, To, Links
<1>17. bucket' \in Links /\ nnext' \in [TableNodes -> Links]
  <2>1. bucket \in Links /\ nnext \in [TableNodes -> Links]
    BY <1>2 DEF HtTypeOK
  <2> QED
    BY <2>1, <1>10, <1>12, <1>16
<1>18. Deletes(t, s[i])
  BY <1>2, <1>3, <1>4, <1>12, <1>15, <1>17 DEF Deletes
<1>19. HtTypeOK' /\ PushOK' /\ StoredOK' /\ NewNodes' = {}
  BY <1>2, <1>8, <1>18, DeleteFrame
<1>27. AloneOK'
  BY <1>14 DEF AloneOK
<1>28. PICK m \in Nat : m = n - 1
  BY <1>4
<1>29. PICK r : r = Without(n, s, i)
  OBVIOUS
<1>30. /\ r \in [1 .. m -> TableNodes]
       /\ \A j \in 1 .. m : r[j] = IF j < i THEN s[j] ELSE s[j + 1]
       /\ Apart(m, r)
       /\ {r[j] : j \in 1 .. m} = {s[j] : j \in 1 .. n} \ {s[i]}
       /\ \A j \in 1 .. n : To(m, r, j) = IF j < i THEN To(n, s, j) ELSE To(n, s, j + 1)
  <2>1. IsWithout(n, s, i, m, r)
    BY <1>4, <1>28, <1>29, WithoutChain
  <2> QED
    BY <2>1 DEF IsWithout
<1>31. bucket' = LinkTo(m, r, 1)
  <2>1. bucket = LinkTo(n, s, 1) /\ 1 \in 1 .. n
    BY <1>1, <1>4 DEF ChainOK, Bucket
  <2>2. To(m, r, 1) = IF i = 1 THEN To(n, s, 2) ELSE To(n, s, 1)
    BY <2>1, <1>4, <1>30
  <2> QED
    BY <2>1, <2>2, <1>12 DEF LinkTo
<1>32. \A j \in 1 .. m : nnext'[r[j]] = LinkTo(m, r, j + 1)
  <2> SUFFICES ASSUME NEW j \in 1 .. m PROVE nnext'[r[j]] = LinkTo(m, r, j + 1)
    OBVIOUS
  <2>1. j \in 1 .. n /\ j + 1 \in 1 .. n
    BY <1>4, <1>28
  <2>2. nnext \in [TableNodes -> Links]
    BY <1>2 DEF HtTypeOK
  <2>3. CASE j + 1 = i
    <3>1. r[j] = s[i - 1] /\ i # 1
      BY <2>1, <2>3, <1>30
    <3>2. nnext'[r[j]] = LinkTo(n, s, i + 1)
      BY <2>2, <3>1, <1>10, <1>12
    <3>3. To(m, r, j + 1) = To(n, s, i + 1)
      BY <2>1, <2>3, <1>30
    <3> QED
      BY <3>2, <3>3 DEF LinkTo
  <2>4. CASE j + 1 < i
    <3>1. r[j] = s[j] /\ j # i /\ j # i - 1 /\ i # 1
      BY <2>1, <2>4, <1>30
    <3>2. nnext'[r[j]] = nnext[s[j]]
      BY <2>1, <2>2, <3>1, <1>4, <1>10, <1>12 DEF Apart
    <3>3. To(m, r, j + 1) = To(n, s, j + 1)
      BY <2>1, <2>4, <1>30
    <3> QED
      BY <2>1, <3>1, <3>2, <3>3, <1>9 DEF LinkTo
  <2>5. CASE j >= i
    <3>1. r[j] = s[j + 1] /\ j + 1 # i /\ j + 1 # i - 1
      BY <2>1, <2>5, <1>30
    <3>2. nnext'[r[j]] = nnext[s[j + 1]]
      BY <2>1, <2>2, <3>1, <1>4, <1>10, <1>12 DEF Apart
    <3>3. PICK g \in 1 .. n : g = j + 1 /\ ~(g < i)
      BY <2>1, <2>5, <1>4
    <3>4. \A l \in 1 .. n : ~(l < i) => To(m, r, l) = To(n, s, l + 1)
      BY <1>30
    <3>5. To(m, r, g) = To(n, s, g + 1)
      BY <3>3, <3>4
    <3> QED
      BY <3>1, <3>2, <3>3, <3>5, <1>9 DEF LinkTo
  <2> QED
    BY <2>3, <2>4, <2>5
<1>33. Bucket(m, r)'
  <2>1. {r[j] : j \in 1 .. m} = live' \ NewNodes'
    BY <1>1, <1>8, <1>12, <1>19, <1>30 DEF ChainOK, Bucket
  <2>2. \A j \in 1 .. m : nnext'[r[j]].to = To(m, r, j + 1)
    BY <1>32, LinkParts
  <2> QED
    BY <2>1, <2>2, <1>30, <1>31 DEF Bucket
<1>34. Marks(m, r)'
  BY <1>32, LinkParts DEF Marks
<1>35. \A u \in TableThreads : FindOK(m, r, u)' /\ RemoveOK(m, r, u)'
  BY <1>14 DEF FindOK, RemoveOK, InRemove
<1>36. ChainOK(m, r)'
  BY <1>33, <1>34, <1>35 DEF ChainOK
<1> QED
  BY <1>19, <1>27, <1>36 DEF HtInv

(* While nobody removes, no link of the bucket is marked.                  *)
LEMMA NoMarks ==
  ASSUME NEW n, NEW s, Marks(n, s), \A u \in TableThreads : ~InRemove(u)
  PROVE  \A i \in 1 .. n : ~nnext[s[i]].marked
BY DEF Marks, InRemove

(* A new node m joins the nodes that are not pushed yet.                   *)
Allocates(t, k, m) ==
  /\ at[t].pc = "none" /\ m \in TableNodes \ live /\ live' = live \cup {m}
  /\ nkey' = [nkey EXCEPT ![m] = k] /\ nnext' = [nnext EXCEPT ![m] = bucket]
  /\ Sets(t, [NoCall EXCEPT !.pc = "push", !.key = k, !.prev = m])
  /\ UNCHANGED <<bucket, stored>>

LEMMA AllocateFrame ==
  ASSUME HtTypeOK, PushOK, StoredOK, NEW t \in TableThreads, NEW k \in Keys, NEW m,
         Allocates(t, k, m)
  PROVE  /\ HtTypeOK' /\ PushOK' /\ StoredOK' /\ live' \ NewNodes' = live \ NewNodes
         /\ at'[t].pc = "push" /\ \A u \in TableThreads \ {t} : at'[u] = at[u]
         /\ \A h \in live : nkey'[h] = nkey[h] /\ nnext'[h] = nnext[h]
<1>1. at[t].pc = "none" /\ m \in TableNodes \ live /\ live' = live \cup {m}
  BY DEF Allocates
<1>2. PICK c : c = [NoCall EXCEPT !.pc = "push", !.key = k, !.prev = m]
  OBVIOUS
<1>3. c \in TableCalls /\ c.pc = "push" /\ c.key = k /\ c.prev = m
  BY <1>1, <1>2 DEF TableCalls, TablePcs, NoCall, NoLink, Links
<1>4. at' = [at EXCEPT ![t] = c]
  BY <1>2 DEF Allocates, Sets
<1>5. at'[t] = c /\ \A u \in TableThreads \ {t} : at'[u] = at[u]
  BY <1>4 DEF HtTypeOK
<1>6. HtTypeOK'
  BY <1>1, <1>3, <1>4 DEF HtTypeOK, Allocates
<1>7. /\ Pushing(t)' /\ ~Pushing(t)
      /\ \A u \in TableThreads \ {t} : Pushing(u)' <=> Pushing(u)
  BY <1>1, <1>3, <1>5 DEF Pushing
<1>8. NewNodes' = NewNodes \cup {m} /\ NewNodes \subseteq live
  <2>1. NewNodes \subseteq live
    BY DEF NewNodes, PushOK
  <2>2. NewNodes' = NewNodes \cup {m}
    BY <1>3, <1>5, <1>7 DEF NewNodes
  <2> QED
    BY <2>1, <2>2
<1>9. \A h \in TableNodes \ {m} : nkey'[h] = nkey[h] /\ nnext'[h] = nnext[h]
  BY DEF HtTypeOK, Allocates
<1>10. nkey'[m] = k
  BY <1>1 DEF HtTypeOK, Allocates
<1>11. PushOK'
  <2>1. \A u \in TableThreads : Pushing(u) => at[u].prev \in live /\ at[u].prev # m
    BY <1>1 DEF PushOK
  <2>2. ASSUME NEW u \in TableThreads, Pushing(u)'
        PROVE  at'[u].prev \in live' /\ at'[u].key \in Keys /\ nkey'[at'[u].prev] = at'[u].key
    <3>1. CASE u = t
      BY <3>1, <1>1, <1>3, <1>5, <1>10
    <3>2. CASE u # t
      <4>1. Pushing(u) /\ at'[u] = at[u]
        BY <2>2, <3>2, <1>5, <1>7
      <4>2. at[u].prev \in TableNodes \ {m}
        BY <4>1, <2>1 DEF HtTypeOK
      <4> QED
        BY <4>1, <4>2, <1>1, <1>9 DEF PushOK
    <3> QED
      BY <3>1, <3>2
  <2>3. ASSUME NEW u \in TableThreads, NEW v \in TableThreads, Pushing(u)', Pushing(v)',
               at'[u].prev = at'[v].prev
        PROVE  u = v
    BY <2>1, <2>3, <1>3, <1>5, <1>7 DEF PushOK
  <2> QED
    BY <2>2, <2>3 DEF PushOK
<1>12. live' \ NewNodes' = live \ NewNodes
  BY <1>1, <1>8
<1>13. \A h \in live : nkey'[h] = nkey[h] /\ nnext'[h] = nnext[h]
  BY <1>1, <1>9 DEF HtTypeOK
<1>14. StoredOK'
  <2>1. \A h \in Keys : InTable(h)' = InTable(h)
    BY <1>12, <1>13 DEF InTable
  <2>2. \A h \in live' : nkey'[h] \in Keys
    BY <1>1, <1>10, <1>13 DEF StoredOK
  <2> QED
    BY <2>1, <2>2 DEF StoredOK, Allocates
<1> QED
  BY <1>3, <1>5, <1>6, <1>11, <1>12, <1>13, <1>14

LEMMA InsertAllocates ==
  ASSUME HtInv, apart', NEW t \in TableThreads, NEW k \in Keys, insert_new(t, k)
  PROVE  HtInv'
<1>1. PICK n, s : ChainOK(n, s)
  BY DEF HtInv
<1>2. HtTypeOK /\ AloneOK /\ PushOK /\ StoredOK
  BY DEF HtInv
<1>3. PICK m : Allocates(t, k, m)
  BY DEF insert_new, Free, Allocates
<1>4. /\ HtTypeOK' /\ PushOK' /\ StoredOK' /\ live' \ NewNodes' = live \ NewNodes
      /\ at'[t].pc = "push" /\ \A u \in TableThreads \ {t} : at'[u] = at[u]
      /\ \A h \in live : nkey'[h] = nkey[h] /\ nnext'[h] = nnext[h]
  BY <1>2, <1>3, AllocateFrame
<1>5. \A u \in TableThreads : ~InRemove(u)
  <2>1. \A u \in TableThreads \ {t} : ~InRemove(u)
    BY <1>2, NobodyRemoves DEF insert_new
  <2> QED
    BY <2>1, <1>3 DEF InRemove, Allocates
<1>6. AloneOK'
  BY <1>4, <1>5 DEF AloneOK, InRemove
<1>7. n \in Nat /\ s \in [1 .. n -> TableNodes] /\ {s[i] : i \in 1 .. n} = live \ NewNodes
  BY <1>1 DEF ChainOK, Bucket
<1>8. \A i \in 1 .. n : nnext'[s[i]] = nnext[s[i]] /\ nkey'[s[i]] = nkey[s[i]]
  BY <1>4, <1>7
<1>9. Bucket(n, s)'
  BY <1>1, <1>3, <1>4, <1>8 DEF ChainOK, Bucket, Allocates
<1>10. Marks(n, s)'
  <2>1. \A i \in 1 .. n : ~nnext[s[i]].marked
    BY <1>1, <1>5, NoMarks DEF ChainOK
  <2> QED
    BY <2>1, <1>8 DEF Marks
<1>11. ASSUME NEW u \in TableThreads PROVE FindOK(n, s, u)' /\ RemoveOK(n, s, u)'
  <2>1. RemoveOK(n, s, u)'
    BY <1>4, <1>5 DEF RemoveOK, InRemove
  <2>2. CASE u = t
    BY <2>1, <2>2, <1>4 DEF FindOK
  <2>3. CASE u # t
    <3>1. at'[u] = at[u] /\ FindOK(n, s, u)
      BY <2>3, <1>1, <1>4 DEF ChainOK
    <3>2. \A i \in 1 .. n + 1 : \A h : Ahead(n, s, i, h) => Ahead(n, s, i, h)'
      BY <1>7, <1>8 DEF Ahead
    <3>3. 1 \in 1 .. n + 1
      BY <1>7
    <3> QED
      BY <2>1, <3>1, <3>2, <3>3 DEF FindOK
  <2> QED
    BY <2>2, <2>3
<1>12. ChainOK(n, s)'
  BY <1>9, <1>10, <1>11 DEF ChainOK
<1> QED
  BY <1>4, <1>6, <1>12 DEF HtInv

LEMMA AgainFrame ==
  ASSUME HtTypeOK, PushOK, StoredOK, NEW t \in TableThreads, insert_again(t)
  PROVE  /\ HtTypeOK' /\ PushOK' /\ StoredOK' /\ NewNodes' = NewNodes
         /\ \A h \in live \ NewNodes : nnext'[h] = nnext[h]
         /\ UNCHANGED <<bucket, live, nkey, at, stored>>
<1>1. at[t].pc = "push"
  BY DEF insert_again
<1>2. PICK m : m = at[t].prev
  OBVIOUS
<1>3. m \in live /\ m \in NewNodes
  BY <1>1, <1>2 DEF PushOK, Pushing, NewNodes
<1>4. nnext' = [nnext EXCEPT ![m] = bucket] /\ UNCHANGED <<bucket, live, nkey, at, stored>>
  BY <1>2 DEF insert_again
<1>5. HtTypeOK' /\ PushOK' /\ NewNodes' = NewNodes
  BY <1>4 DEF HtTypeOK, PushOK, Pushing, NewNodes
<1>6. \A k \in Keys : InTable(k)' = InTable(k)
  BY <1>4, <1>5 DEF InTable
<1>7. StoredOK'
  BY <1>4, <1>6 DEF StoredOK
<1>8. \A h \in live \ NewNodes : nnext'[h] = nnext[h]
  BY <1>3, <1>4 DEF HtTypeOK
<1> QED
  BY <1>4, <1>5, <1>7, <1>8

LEMMA InsertAgain ==
  ASSUME HtInv, NEW t \in TableThreads, insert_again(t)
  PROVE  HtInv'
<1>1. PICK n, s : ChainOK(n, s)
  BY DEF HtInv
<1>2. HtTypeOK /\ AloneOK /\ PushOK /\ StoredOK
  BY DEF HtInv
<1>3. /\ HtTypeOK' /\ PushOK' /\ StoredOK' /\ NewNodes' = NewNodes
      /\ \A h \in live \ NewNodes : nnext'[h] = nnext[h]
      /\ UNCHANGED <<bucket, live, nkey, at, stored>>
  BY <1>2, AgainFrame
<1>4. AloneOK'
  BY <1>2, <1>3 DEF AloneOK, InRemove
<1>5. \A i \in 1 .. n : nnext'[s[i]] = nnext[s[i]]
  BY <1>1, <1>3 DEF ChainOK, Bucket
<1>6. Bucket(n, s)'
  BY <1>1, <1>3, <1>5 DEF ChainOK, Bucket
<1>7. Marks(n, s)'
  BY <1>1, <1>3, <1>5 DEF ChainOK, Marks
<1>8. \A u \in TableThreads : FindOK(n, s, u)' /\ RemoveOK(n, s, u)'
  BY <1>1, <1>3 DEF ChainOK, FindOK, RemoveOK, InRemove, Stands, Ahead
<1> QED
  BY <1>3, <1>4, <1>6, <1>7, <1>8 DEF ChainOK, HtInv

(* The chain with one node more in front.                                  *)
Pushed(n, s, m) == [j \in 1 .. n + 1 |-> IF j = 1 THEN m ELSE s[j - 1]]

IsPushed(n, s, m, h, r) ==
  /\ r \in [1 .. h -> TableNodes] /\ Apart(h, r) /\ r[1] = m
  /\ \A j \in 1 .. n : r[j + 1] = s[j]
  /\ {r[j] : j \in 1 .. h} = {s[j] : j \in 1 .. n} \cup {m}
  /\ \A j \in 1 .. h : To(h, r, j + 1) = To(n, s, j)

LEMMA PushedChain ==
  ASSUME NEW n \in Nat, NEW h \in Nat, h = n + 1, NEW s \in [1 .. n -> TableNodes],
         Apart(n, s), NEW m \in TableNodes, m \notin {s[i] : i \in 1 .. n},
         NEW r, r = Pushed(n, s, m)
  PROVE  IsPushed(n, s, m, h, r)
<1>1. \A j \in 1 .. n : j + 1 \in 1 .. h /\ j + 1 # 1 /\ (j + 1) - 1 = j
  OBVIOUS
<1>2. \A j \in 1 .. h : j = 1 \/ \E i \in 1 .. n : j = i + 1
  <2>1. \A j \in 1 .. h : j = 1 \/ (j - 1 \in 1 .. n /\ j = (j - 1) + 1)
    OBVIOUS
  <2> QED
    BY <2>1
<1>3. 1 \in 1 .. h /\ r[1] = m
  BY DEF Pushed
<1>4. \A j \in 1 .. n : r[j + 1] = s[j]
  BY <1>1 DEF Pushed
<1>5. r \in [1 .. h -> TableNodes]
  <2>1. \A j \in 1 .. h : r[j] \in TableNodes
    BY <1>2, <1>3, <1>4
  <2>2. r = [j \in 1 .. h |-> r[j]]
    BY DEF Pushed
  <2> QED
    BY <2>1, <2>2
<1>6. Apart(h, r)
  <2> SUFFICES ASSUME NEW i \in 1 .. h, NEW j \in 1 .. h, r[i] = r[j] PROVE i = j
    BY DEF Apart
  <2>1. CASE i = 1
    BY <2>1, <1>2, <1>3, <1>4
  <2>2. CASE j = 1
    BY <2>2, <1>2, <1>3, <1>4
  <2>3. CASE i # 1 /\ j # 1
    BY <2>3, <1>2, <1>4 DEF Apart
  <2> QED
    BY <2>1, <2>2, <2>3
<1>7. {r[j] : j \in 1 .. h} = {s[j] : j \in 1 .. n} \cup {m}
  <2>1. \A j \in 1 .. h : r[j] \in {s[i] : i \in 1 .. n} \cup {m}
    BY <1>2, <1>3, <1>4
  <2>2. \A i \in 1 .. n : s[i] \in {r[j] : j \in 1 .. h}
    BY <1>1, <1>4
  <2> QED
    BY <2>1, <2>2, <1>3
<1>8. \A j \in 1 .. h : To(h, r, j + 1) = To(n, s, j)
  BY <1>1, <1>4 DEF To
<1> QED
  BY <1>3, <1>4, <1>5, <1>6, <1>7, <1>8 DEF IsPushed

(* The exchange moves the node to the chain and counts it.                 *)
LEMMA PushFrame ==
  ASSUME HtTypeOK, PushOK, StoredOK, NEW t \in TableThreads, insert_push(t)
  PROVE  /\ HtTypeOK' /\ PushOK' /\ StoredOK'
         /\ live' \ NewNodes' = (live \ NewNodes) \cup {at[t].prev}
         /\ at[t].prev \in TableNodes /\ at[t].prev \in NewNodes
         /\ at'[t] = NoCall /\ \A u \in TableThreads \ {t} : at'[u] = at[u]
<1>1. at[t].pc = "push"
  BY DEF insert_push
<1>2. PICK m \in TableNodes : m = at[t].prev
  BY <1>1 DEF PushOK, Pushing, HtTypeOK
<1>3. PICK k \in Keys : k = at[t].key
  BY <1>1 DEF PushOK, Pushing
<1>4. m \in live /\ m \in NewNodes /\ nkey[m] = k
  BY <1>1, <1>2, <1>3 DEF PushOK, Pushing, NewNodes
<1>5. /\ bucket' = [to |-> m, marked |-> FALSE]
      /\ stored' = [stored EXCEPT ![k] = @ + 1] /\ at' = [at EXCEPT ![t] = NoCall]
      /\ UNCHANGED <<live, nkey, nnext>>
  BY <1>2, <1>3 DEF insert_push, Returns, Sets
<1>6. NoCall \in TableCalls /\ NoCall.pc = "none"
  BY DEF TableCalls, TablePcs, NoCall, NoLink, Links
<1>7. at'[t] = NoCall /\ \A u \in TableThreads \ {t} : at'[u] = at[u]
  BY <1>5 DEF HtTypeOK
<1>8. HtTypeOK'
  BY <1>5, <1>6 DEF HtTypeOK, Links
<1>9. /\ ~Pushing(t)' /\ Pushing(t)
      /\ \A u \in TableThreads \ {t} : Pushing(u)' <=> Pushing(u)
  BY <1>1, <1>6, <1>7 DEF Pushing
<1>10. PushOK'
  BY <1>5, <1>7, <1>9 DEF PushOK
<1>11. NewNodes' = NewNodes \ {m}
  <2>1. \A u \in TableThreads \ {t} : Pushing(u) => at[u].prev # m
    BY <1>2, <1>9 DEF PushOK
  <2> QED
    BY <2>1, <1>2, <1>7, <1>9 DEF NewNodes
<1>12. live' \ NewNodes' = (live \ NewNodes) \cup {m}
  BY <1>4, <1>5, <1>11
<1>13. InTable(k)' = InTable(k) \cup {m} /\ m \notin InTable(k)
  BY <1>4, <1>5, <1>12 DEF InTable
<1>14. \A h \in Keys \ {k} : InTable(h)' = InTable(h)
  BY <1>4, <1>5, <1>12 DEF InTable
<1>15. IsFiniteSet(InTable(k))
  <2>1. InTable(k) \subseteq TableNodes /\ IsFiniteSet(TableNodes)
    BY HtAssumption DEF HtTypeOK, InTable
  <2> QED
    BY <2>1, FS_Subset
<1>16. Cardinality(InTable(k)') = Cardinality(InTable(k)) + 1
  BY <1>13, <1>15, FS_AddElement
<1>17. StoredOK'
  <2>1. \A h \in Keys : stored'[h] = IF h = k THEN stored[k] + 1 ELSE stored[h]
    BY <1>5 DEF HtTypeOK
  <2>2. \A h \in Keys : stored[h] = Cardinality(InTable(h))
    BY DEF StoredOK
  <2>3. \A h \in Keys : stored'[h] = Cardinality(InTable(h)')
    BY <2>1, <2>2, <1>14, <1>16
  <2>4. \A h \in live' : nkey'[h] \in Keys
    BY <1>5 DEF StoredOK
  <2> QED
    BY <2>3, <2>4 DEF StoredOK
<1> QED
  BY <1>2, <1>4, <1>7, <1>8, <1>10, <1>12, <1>17

LEMMA InsertPushes ==
  ASSUME HtInv, NEW t \in TableThreads, insert_push(t)
  PROVE  HtInv'
<1>1. PICK n, s : ChainOK(n, s)
  BY DEF HtInv
<1>2. HtTypeOK /\ AloneOK /\ PushOK /\ StoredOK /\ at[t].pc = "push"
  BY DEF HtInv, insert_push
<1>3. PICK m : m = at[t].prev
  OBVIOUS
<1>4. /\ HtTypeOK' /\ PushOK' /\ StoredOK' /\ live' \ NewNodes' = (live \ NewNodes) \cup {m}
      /\ m \in TableNodes /\ m \in NewNodes
      /\ at'[t] = NoCall /\ \A u \in TableThreads \ {t} : at'[u] = at[u]
  BY <1>2, <1>3, PushFrame
<1>6. /\ bucket = nnext[m] /\ bucket' = [to |-> m, marked |-> FALSE]
      /\ UNCHANGED <<live, nkey, nnext>>
  BY <1>3 DEF insert_push
<1>7. NoCall.pc = "none"
  BY DEF NoCall
<1>9. \A u \in TableThreads : ~InRemove(u)
  <2>1. \A u \in TableThreads \ {t} : ~InRemove(u)
    BY <1>2, NobodyRemoves
  <2> QED
    BY <2>1, <1>2 DEF InRemove
<1>11. AloneOK'
  BY <1>4, <1>7, <1>9 DEF AloneOK, InRemove
<1>21. /\ n \in Nat /\ s \in [1 .. n -> TableNodes] /\ Apart(n, s)
       /\ {s[i] : i \in 1 .. n} = live \ NewNodes /\ m \notin {s[i] : i \in 1 .. n}
  BY <1>1, <1>4 DEF ChainOK, Bucket
<1>22. PICK h \in Nat : h = n + 1
  BY <1>21
<1>23. PICK r : r = Pushed(n, s, m)
  OBVIOUS
<1>24. IsPushed(n, s, m, h, r)
  BY <1>4, <1>21, <1>22, <1>23, PushedChain
<1>25. \A i \in 1 .. n + 1 : i + 1 \in 1 .. h + 1 /\ LinkTo(h, r, i + 1) = LinkTo(n, s, i)
  <2> SUFFICES ASSUME NEW i \in 1 .. n + 1
               PROVE  i + 1 \in 1 .. h + 1 /\ LinkTo(h, r, i + 1) = LinkTo(n, s, i)
    OBVIOUS
  <2>1. i \in 1 .. h /\ i + 1 \in 1 .. h + 1
    BY <1>21, <1>22
  <2>2. To(h, r, i + 1) = To(n, s, i)
    BY <2>1, <1>24 DEF IsPushed
  <2> QED
    BY <2>1, <2>2 DEF LinkTo
<1>26. \A j \in 1 .. h : nnext[r[j]] = LinkTo(h, r, j + 1)
  <2> SUFFICES ASSUME NEW j \in 1 .. h PROVE nnext[r[j]] = LinkTo(h, r, j + 1)
    OBVIOUS
  <2>1. CASE j = 1
    <3>1. bucket = LinkTo(n, s, 1) /\ 1 \in 1 .. n + 1
      BY <1>1, <1>21 DEF ChainOK, Bucket
    <3> QED
      BY <3>1, <2>1, <1>6, <1>24, <1>25 DEF IsPushed
  <2>2. CASE j # 1
    <3>1. PICK i \in 1 .. n : j = i + 1
      <4>1. j - 1 \in 1 .. n /\ j = (j - 1) + 1
        BY <2>2, <1>21, <1>22
      <4> QED
        BY <4>1
    <3>2. r[j] = s[i] /\ LinkTo(h, r, j + 1) = LinkTo(n, s, i + 1)
      <4>1. i + 1 \in 1 .. n + 1
        BY <1>21
      <4> QED
        BY <4>1, <3>1, <1>24, <1>25 DEF IsPushed
    <3>3. nnext[s[i]] = LinkTo(n, s, i + 1)
      BY <1>1, <1>2, Unmarked
    <3> QED
      BY <3>2, <3>3
  <2> QED
    BY <2>1, <2>2
<1>27. Bucket(h, r)'
  <2>1. bucket' = LinkTo(h, r, 1)
    <3>1. To(h, r, 1) = m
      BY <1>22, <1>24 DEF IsPushed, To
    <3> QED
      BY <3>1, <1>6 DEF LinkTo
  <2>2. \A j \in 1 .. h : nnext'[r[j]].to = To(h, r, j + 1)
    BY <1>6, <1>26, LinkParts
  <2>3. {r[j] : j \in 1 .. h} = live' \ NewNodes'
    BY <1>4, <1>21, <1>24 DEF IsPushed
  <2> QED
    BY <2>1, <2>2, <2>3, <1>24 DEF Bucket, IsPushed
<1>28. Marks(h, r)'
  BY <1>6, <1>26, LinkParts DEF Marks
<1>29. \A i \in 1 .. n + 1 : \A x : Ahead(n, s, i, x) => Ahead(h, r, i + 1, x)' /\ Ahead(h, r, 1, x)'
  <2> SUFFICES ASSUME NEW i \in 1 .. n + 1, NEW x, NEW j \in i .. n, nkey[s[j]] = x
               PROVE  Ahead(h, r, i + 1, x)' /\ Ahead(h, r, 1, x)'
    BY DEF Ahead
  <2>1. j \in 1 .. n /\ j + 1 \in i + 1 .. h /\ j + 1 \in 1 .. h
    BY <1>21, <1>22
  <2>2. r[j + 1] = s[j]
    BY <2>1, <1>24 DEF IsPushed
  <2> QED
    BY <2>1, <2>2, <1>6 DEF Ahead
<1>30. ASSUME NEW u \in TableThreads PROVE FindOK(h, r, u)' /\ RemoveOK(h, r, u)'
  <2>1. RemoveOK(h, r, u)'
    BY <1>4, <1>7, <1>9 DEF RemoveOK, InRemove
  <2>2. CASE u = t
    BY <2>1, <2>2, <1>4, <1>7 DEF FindOK
  <2>3. CASE u # t
    <3>1. at'[u] = at[u] /\ FindOK(n, s, u) /\ 1 \in 1 .. n + 1
      BY <2>3, <1>1, <1>4, <1>21 DEF ChainOK
    <3>2. PICK x : x = at[u].key
      OBVIOUS
    <3>3. ASSUME at[u].pc = "walk"
          PROVE  \E i \in 1 .. h + 1 : at[u].cur = LinkTo(h, r, i)
                                       /\ (at[u].was => Ahead(h, r, i, x)')
      <4>1. PICK i \in 1 .. n + 1 : /\ at[u].cur = LinkTo(n, s, i)
                                    /\ at[u].was => Ahead(n, s, i, x)
        BY <3>1, <3>2, <3>3 DEF FindOK
      <4>2. i + 1 \in 1 .. h + 1 /\ at[u].cur = LinkTo(h, r, i + 1)
        BY <4>1, <1>25
      <4> QED
        BY <4>1, <4>2, <1>29
    <3>4. at[u].pc = "found" => Ahead(h, r, 1, x)'
      BY <3>1, <3>2, <1>29 DEF FindOK
    <3>5. FindOK(h, r, u)'
      BY <3>1, <3>2, <3>3, <3>4 DEF FindOK, Ahead
    <3> QED
      BY <2>1, <3>5
  <2> QED
    BY <2>2, <2>3
<1>31. ChainOK(h, r)'
  BY <1>27, <1>28, <1>30 DEF ChainOK
<1> QED
  BY <1>4, <1>11, <1>31 DEF HtInv

-----------------------------------------------------------------------------
(* What the invariant says of the walk from head.                          *)

(* A bucket has at most as many nodes as there are addresses.              *)
LEMMA BucketFits ==
  ASSUME NEW n \in Nat, NEW s \in [1 .. n -> TableNodes], Apart(n, s)
  PROVE  n <= Cardinality(TableNodes) /\ Cardinality(TableNodes) \in Nat
<1>1. IsFiniteSet(TableNodes) /\ Cardinality(TableNodes) \in Nat
  BY HtAssumption, FS_CardinalityType
<1>2. IsFiniteSet(1 .. n) /\ Cardinality(1 .. n) = n
  <2>1. IsFiniteSet(1 .. n) /\ Cardinality(1 .. n) = IF 1 > n THEN 0 ELSE n - 1 + 1
    BY FS_Interval
  <2> QED
    BY <2>1
<1>3. s \in Injection(1 .. n, TableNodes)
  BY DEF Injection, IsInjective, Apart
<1>4. Cardinality(1 .. n) <= Cardinality(TableNodes)
  BY <1>1, <1>3, FS_Injection
<1> QED
  BY <1>1, <1>2, <1>4

(* The equation that defines Follow has a solution for a chain.            *)
LEMMA FollowEquation ==
  ASSUME HtTypeOK, NEW n, NEW s, Strung(n, s)
  PROVE  Follow = [i \in 1 .. Cardinality(TableNodes) |->
                     IF i = 1 THEN bucket
                     ELSE IF Follow[i - 1].to = Null THEN NoLink ELSE nnext[Follow[i - 1].to]]
<1>1. /\ n \in Nat /\ s \in [1 .. n -> TableNodes] /\ bucket.to = To(n, s, 1)
      /\ \A i \in 1 .. n : nnext[s[i]].to = To(n, s, i + 1)
  BY DEF Strung
<1>2. PICK N \in Nat : N = Cardinality(TableNodes)
  BY <1>1, HtAssumption, FS_CardinalityType
<1>3. PICK g : g = [i \in 1 .. N |-> IF i = 1 THEN bucket
                                    ELSE IF i <= n + 1 THEN nnext[s[i - 1]] ELSE NoLink]
  OBVIOUS
<1>4. \A i \in 1 .. N : i # 1 => i - 1 \in 1 .. N
  OBVIOUS
<1>5. \A i \in 1 .. N : g[i].to = To(n, s, i)
  <2> SUFFICES ASSUME NEW i \in 1 .. N PROVE g[i].to = To(n, s, i)
    OBVIOUS
  <2>1. CASE i = 1
    BY <2>1, <1>1, <1>3
  <2>2. CASE i # 1 /\ i <= n + 1
    <3>1. i - 1 \in 1 .. n /\ (i - 1) + 1 = i
      BY <2>2, <1>1
    <3>2. g[i] = nnext[s[i - 1]]
      BY <2>2, <1>3
    <3> QED
      BY <3>1, <3>2, <1>1
  <2>3. CASE i # 1 /\ ~(i <= n + 1)
    <3>1. g[i] = NoLink /\ ~(i <= n)
      BY <2>3, <1>1, <1>3
    <3> QED
      BY <3>1 DEF NoLink, To
  <2> QED
    BY <2>1, <2>2, <2>3
<1>6. \A i \in 1 .. N : g[i] = IF i = 1 THEN bucket
                               ELSE IF g[i - 1].to = Null THEN NoLink ELSE nnext[g[i - 1].to]
  <2> SUFFICES ASSUME NEW i \in 1 .. N, i # 1
               PROVE  g[i] = IF g[i - 1].to = Null THEN NoLink ELSE nnext[g[i - 1].to]
    BY <1>3
  <2>1. PICK j \in 1 .. N : j = i - 1
    BY <1>4
  <2>2. g[j].to = To(n, s, j)
    BY <1>5
  <2>3. CASE i <= n + 1
    <3>1. j \in 1 .. n /\ s[j] \in TableNodes
      BY <2>1, <2>3, <1>1
    <3>2. g[i] = nnext[s[j]]
      BY <2>1, <2>3, <1>3
    <3>3. To(n, s, j) = s[j]
      BY <3>1, <1>1 DEF To
    <3> QED
      BY <2>1, <2>2, <3>1, <3>2, <3>3, HtAssumption
  <2>4. CASE ~(i <= n + 1)
    <3>1. g[i] = NoLink /\ ~(j <= n)
      BY <2>1, <2>4, <1>1, <1>3
    <3> QED
      BY <2>1, <2>2, <3>1 DEF To
  <2> QED
    BY <2>3, <2>4
<1>7. g = [i \in 1 .. N |-> IF i = 1 THEN bucket
                            ELSE IF g[i - 1].to = Null THEN NoLink ELSE nnext[g[i - 1].to]]
  <2>1. g = [i \in 1 .. N |-> g[i]]
    BY <1>3
  <2> QED
    BY <2>1, <1>6
<1> QED
  BY <1>2, <1>7 DEF Follow

(* The walk from head meets the nodes of the bucket and nothing else.      *)
LEMMA FollowsChain ==
  ASSUME HtTypeOK, NEW n, NEW s, Strung(n, s)
  PROVE  /\ DOMAIN Follow = 1 .. Cardinality(TableNodes)
         /\ \A i \in DOMAIN Follow : /\ Follow[i].to = To(n, s, i)
                                     /\ i = 1 => Follow[i] = bucket
                                     /\ i # 1 /\ i <= n => Follow[i] = nnext[s[i - 1]]
<1>1. /\ n \in Nat /\ s \in [1 .. n -> TableNodes] /\ bucket.to = To(n, s, 1)
      /\ \A i \in 1 .. n : nnext[s[i]].to = To(n, s, i + 1)
  BY DEF Strung
<1>2. PICK N \in Nat : N = Cardinality(TableNodes)
  BY HtAssumption, FS_CardinalityType
<1>3. PICK f : f = Follow
  OBVIOUS
<1>4. f = [i \in 1 .. N |-> IF i = 1 THEN bucket
                            ELSE IF f[i - 1].to = Null THEN NoLink ELSE nnext[f[i - 1].to]]
  BY <1>2, <1>3, FollowEquation
<1>5. \A i \in 1 .. N : i # 1 => i - 1 \in 1 .. N /\ (i - 1) + 1 = i
  OBVIOUS
<1>6. ASSUME NEW i \in 1 .. N, NEW j \in 1 .. N, i = j + 1, f[j].to = To(n, s, j)
      PROVE  /\ f[i].to = To(n, s, i)
             /\ i <= n => f[i] = nnext[s[j]]
  <2>1. f[i] = IF f[j].to = Null THEN NoLink ELSE nnext[f[j].to]
    BY <1>4, <1>6
  <2>2. CASE j <= n
    <3>1. j \in 1 .. n /\ s[j] \in TableNodes
      BY <2>2, <1>1
    <3>2. To(n, s, j) = s[j]
      BY <2>2 DEF To
    <3>3. f[i] = nnext[s[j]]
      BY <2>1, <3>1, <3>2, <1>6, HtAssumption
    <3> QED
      BY <3>1, <3>3, <1>1, <1>6
  <2>3. CASE ~(j <= n)
    <3>1. f[i] = NoLink /\ ~(i <= n)
      BY <2>1, <2>3, <1>1, <1>6 DEF To
    <3> QED
      BY <3>1 DEF To, NoLink
  <2> QED
    BY <2>2, <2>3
<1>7. \A i \in 1 .. N : f[i].to = To(n, s, i)
  <2> SUFFICES ASSUME NEW x \in 1 .. N, f[x].to # To(n, s, x) PROVE FALSE
    OBVIOUS
  <2>1. PICK T : T = {i \in 1 .. N : f[i].to # To(n, s, i)}
    OBVIOUS
  <2>2. T \subseteq Nat /\ T # {}
    BY <2>1
  <2>3. PICK m \in T : \A k \in T : m <= k
    BY <2>2, Smallest
  <2>4. m \in 1 .. N /\ f[m].to # To(n, s, m)
    BY <2>1
  <2>5. m # 1
    <3>1. 1 \in 1 .. N => f[1] = bucket
      BY <1>4
    <3> QED
      BY <3>1, <2>4, <1>1
  <2>6. PICK j \in 1 .. N : m = j + 1
    BY <2>4, <2>5, <1>5
  <2>7. f[j].to = To(n, s, j)
    BY <2>1, <2>3, <2>6
  <2> QED
    BY <2>4, <2>6, <2>7, <1>6
<1>8. DOMAIN f = 1 .. N
  BY <1>4
<1>9. ASSUME NEW i \in 1 .. N
      PROVE  /\ i = 1 => f[i] = bucket
             /\ i # 1 /\ i <= n => f[i] = nnext[s[i - 1]]
  <2>1. i = 1 => f[i] = bucket
    BY <1>4
  <2>2. ASSUME i # 1, i <= n PROVE f[i] = nnext[s[i - 1]]
    <3>1. PICK j \in 1 .. N : i = j + 1 /\ j = i - 1
      BY <2>2, <1>5
    <3> QED
      BY <3>1, <2>2, <1>6, <1>7
  <2> QED
    BY <2>1, <2>2
<1> QED
  BY <1>2, <1>3, <1>7, <1>8, <1>9

LEMMA WalkNodes ==
  ASSUME HtTypeOK, NEW n, NEW s, Strung(n, s)
  PROVE  {l.to : l \in Walk} = {s[i] : i \in 1 .. n}
<1>1. n \in Nat /\ s \in [1 .. n -> TableNodes] /\ Apart(n, s)
  BY DEF Strung
<1>2. PICK N \in Nat : N = Cardinality(TableNodes) /\ n <= N
  BY <1>1, BucketFits
<1>3. DOMAIN Follow = 1 .. N /\ \A i \in 1 .. N : Follow[i].to = To(n, s, i)
  BY <1>2, FollowsChain
<1>4. ASSUME NEW l \in Walk PROVE l.to \in {s[i] : i \in 1 .. n}
  <2>1. PICK i \in 1 .. N : l = Follow[i] /\ l.to # Null
    BY <1>3, <1>4 DEF Walk
  <2>2. l.to = To(n, s, i)
    BY <2>1, <1>3
  <2>3. i \in 1 .. n /\ l.to = s[i]
    BY <2>1, <2>2, <1>1 DEF To
  <2> QED
    BY <2>3
<1>5. ASSUME NEW i \in 1 .. n PROVE s[i] \in {l.to : l \in Walk}
  <2>1. i \in 1 .. N /\ s[i] \in TableNodes
    BY <1>1, <1>2
  <2>2. Follow[i].to = s[i]
    BY <2>1, <1>1, <1>3 DEF To
  <2>3. Follow[i] \in Walk
    BY <2>1, <2>2, <1>3, HtAssumption DEF Walk
  <2> QED
    BY <2>2, <2>3
<1> QED
  BY <1>4, <1>5

LEMMA HtInvFind == (apart => HtInv) => HtFindCorrect
<1> SUFFICES ASSUME HtInv, NEW t \in TableThreads
             PROVE  /\ at[t].pc = "walk" /\ at[t].cur # NoLink => at[t].cur.to \in live
                    /\ at[t].pc = "missed" => ~at[t].was
                    /\ at[t].pc = "found" => stored[at[t].key] > 0
  BY DEF HtFindCorrect
<1>1. PICK n, s : ChainOK(n, s)
  BY DEF HtInv
<1>2. FindOK(n, s, t) /\ Bucket(n, s)
  BY <1>1 DEF ChainOK
<1>3. at[t].pc = "found" => at[t].key \in Keys /\ Ahead(n, s, 1, at[t].key)
  BY <1>2 DEF FindOK
<1>4. HtTypeOK /\ StoredOK
  BY DEF HtInv
<1>5. at[t].pc = "found" => stored[at[t].key] > 0
  BY <1>2, <1>3, <1>4, StoredAhead
<1>6. n \in Nat /\ s \in [1 .. n -> TableNodes] /\ \A i \in 1 .. n : s[i] \in live
  BY <1>2 DEF Bucket
<1>7. ASSUME at[t].pc = "walk", at[t].cur # NoLink PROVE at[t].cur.to \in live
  <2>1. PICK i \in 1 .. n + 1 : at[t].cur = LinkTo(n, s, i)
    BY <1>2, <1>7 DEF FindOK
  <2>2. i <= n => s[i] \in TableNodes
    BY <1>6
  <2>3. i # n + 1
    BY <2>1, <2>2, <1>6, <1>7, LinkEnds
  <2>4. i \in 1 .. n
    BY <2>3, <1>6
  <2> QED
    BY <2>1, <2>4, <1>6, LinkParts DEF To
<1> QED
  BY <1>2, <1>5, <1>7 DEF FindOK

-----------------------------------------------------------------------------
LEMMA HtInitInv == HtInit => HtInv
<1> SUFFICES ASSUME HtInit PROVE HtInv
  OBVIOUS
<1>1. NoCall \in TableCalls /\ NoCall.pc = "none" /\ NoLink \in Links
  BY DEF TableCalls, TablePcs, NoCall, NoLink, Links
<1>2. HtTypeOK
  BY <1>1 DEF HtInit, HtTypeOK
<1>3. \A t \in TableThreads : at[t].pc = "none"
  BY <1>1 DEF HtInit
<1>4. AloneOK /\ PushOK /\ NewNodes = {}
  BY <1>3 DEF AloneOK, PushOK, NewNodes, Pushing
<1>5. StoredOK
  <2>1. \A k \in Keys : InTable(k) = {}
    BY DEF InTable, HtInit
  <2>2. Cardinality({}) = 0
    BY FS_EmptySet
  <2> QED
    BY <2>1, <2>2 DEF StoredOK, HtInit
<1>6. PICK s : s = [i \in 1 .. 0 |-> Null]
  OBVIOUS
<1>7. Bucket(0, s)
  <2>1. bucket = LinkTo(0, s, 1)
    BY DEF HtInit, LinkTo, To, NoLink
  <2>2. s \in [1 .. 0 -> TableNodes] /\ Apart(0, s) /\ {s[i] : i \in 1 .. 0} = {}
    BY <1>6 DEF Apart
  <2> QED
    BY <2>1, <2>2, <1>4 DEF Bucket, HtInit
<1>8. Marks(0, s) /\ \A t \in TableThreads : FindOK(0, s, t) /\ RemoveOK(0, s, t)
  BY <1>3 DEF Marks, FindOK, RemoveOK, InRemove
<1> QED
  BY <1>2, <1>4, <1>5, <1>7, <1>8 DEF HtInv, ChainOK

LEMMA HtInvStutter == HtInv /\ UNCHANGED htvars => HtInv'
<1> SUFFICES ASSUME HtInv, UNCHANGED htvars PROVE HtInv'
  OBVIOUS
<1>1. PICK n, s : ChainOK(n, s)
  BY DEF HtInv
<1>2. UNCHANGED <<bucket, live, nkey, nnext, at, stored>>
  BY DEF htvars
<1>3. HtTypeOK' /\ AloneOK' /\ PushOK' /\ NewNodes' = NewNodes
  BY <1>2 DEF HtInv, HtTypeOK, AloneOK, PushOK, InRemove, Pushing, NewNodes
<1>4. \A k \in Keys : InTable(k)' = InTable(k)
  BY <1>2, <1>3 DEF InTable
<1>5. StoredOK'
  BY <1>2, <1>4 DEF HtInv, StoredOK
<1>6. Bucket(n, s)' /\ Marks(n, s)'
  BY <1>1, <1>2, <1>3 DEF ChainOK, Bucket, Marks
<1>7. \A t \in TableThreads : FindOK(n, s, t)' /\ RemoveOK(n, s, t)'
  BY <1>1, <1>2 DEF ChainOK, FindOK, RemoveOK, InRemove, Stands, Ahead
<1> QED
  BY <1>3, <1>5, <1>6, <1>7 DEF HtInv, ChainOK

(* A step after which no remove has run beside another call yet.           *)
LEMMA HtInvNext == HtInv /\ apart' /\ [HtNext]_htvars => HtInv'
<1> SUFFICES ASSUME HtInv, apart', [HtNext]_htvars PROVE HtInv'
  OBVIOUS
<1>1. CASE UNCHANGED htvars
  BY <1>1, HtInvStutter
<1>2. ASSUME NEW t \in TableThreads, HtReads(t) PROVE HtInv'
  BY <1>2, FindStarts, FindSteps, FindReturns DEF HtReads
<1>3. ASSUME NEW t \in TableThreads, HtInserts(t) PROVE HtInv'
  BY <1>3, InsertAllocates, InsertPushes, InsertAgain DEF HtInserts
<1>4. ASSUME NEW t \in Removers, HtRemoves(t) PROVE HtInv'
  <2>1. t \in TableThreads
    BY HtAssumption
  <2>2. ASSUME NEW k \in Keys, remove(t, k) PROVE HtInv'
    BY <2>1, <2>2, RemoveStarts DEF remove, Free
  <2>3. CASE remove_mark_fails(t)
    <3>1. at[t].key \in Keys
      BY <2>1, <2>3 DEF HtInv, ChainOK, RemoveOK, InRemove, remove_mark_fails
    <3> QED
      BY <2>1, <2>3, <3>1, RemoveStarts DEF remove_mark_fails
  <2> QED
    BY <1>4, <2>1, <2>2, <2>3, RemoveSteps, RemoveMarks, RemoveUnlinks DEF HtRemoves
<1>5. CASE table_crashes
  BY <1>5, HtInvStutter DEF table_crashes
<1> QED
  BY <1>1, <1>2, <1>3, <1>4, <1>5 DEF HtNext

(* Once a remove has run beside another call, that stays noted.            *)
LEMMA ApartStays == [HtNext]_htvars /\ apart' => apart
<1> SUFFICES ASSUME [HtNext]_htvars, apart' PROVE apart
  OBVIOUS
<1>1. ASSUME NEW t \in TableThreads, HtReads(t) PROVE apart
  BY <1>1 DEF HtReads, find, find_step, find_returns, NotesReader
<1>2. ASSUME NEW t \in TableThreads, HtInserts(t) PROVE apart
  BY <1>2 DEF HtInserts, insert_new, insert_push, insert_again, NotesReader
<1>3. ASSUME NEW t \in Removers, HtRemoves(t) PROVE apart
  BY <1>3 DEF HtRemoves, remove, remove_step, remove_mark, remove_mark_fails, remove_unlink,
              unlink, NotesRemove
<1>4. CASE UNCHANGED htvars
  BY <1>4 DEF htvars
<1> QED
  BY <1>1, <1>2, <1>3, <1>4 DEF HtNext, table_crashes

(* As long as no remove of ThreadSafeHashTable has run beside another      *)
(* call, find looks into no deleted node, misses only a key that was not   *)
(* in the table when it was called, and finds only what is stored, beside  *)
(* any number of other finds and inserts, on any keys and nodes.           *)
THEOREM TableFindsKeys == HtSpec => []HtFindCorrect
<1>1. HtInit => (apart => HtInv)
  BY HtInitInv
<1>2. (apart => HtInv) /\ [HtNext]_htvars => (apart => HtInv)'
  BY HtInvNext, ApartStays
<1> QED
  BY <1>1, <1>2, HtInvFind, PTL DEF HtSpec

-----------------------------------------------------------------------------
(* Any calls side by side, but one thread that removes.  Marks may stay in *)
(* the chain now; what holds is where the links lead, and that the remover *)
(* stands on nodes of the chain.  Behind a node it keeps, the link it read *)
(* is still there, for only it writes links of the chain.                  *)
Sits(n, s, t) ==
  /\ at[t].prev = Null => at[t].cur.to = Null \/ \E j \in 1 .. n : at[t].cur.to = s[j]
  /\ at[t].prev # Null => \E j \in 1 .. n : at[t].prev = s[j] /\ at[t].cur = nnext[s[j]]

Holds(n, s, t) ==
  \E j \in 1 .. n : /\ at[t].cur.to = s[j] /\ nkey[s[j]] = at[t].key
                    /\ at[t].nxt.to = To(n, s, j + 1)

RemoverOK(n, s, t) ==
  /\ InRemove(t) => t \in Removers /\ at[t].key \in Keys /\ Sits(n, s, t)
  /\ at[t].pc \in {"mark", "unlink"} => Holds(n, s, t)

StrungOK(n, s) == Strung(n, s) /\ \A t \in TableThreads : RemoverOK(n, s, t)

ShareInv == HtTypeOK /\ PushOK /\ StoredOK /\ \E n, s : StrungOK(n, s)

OneRemover == \A t, u \in Removers : t = u

(* A step that changes only the call of t.                                 *)
LEMMA StillShares ==
  ASSUME HtTypeOK, PushOK, StoredOK, NEW n, NEW s, StrungOK(n, s),
         NEW t \in TableThreads, NEW c, Still(t, c), RemoverOK(n, s, t)'
  PROVE  ShareInv'
<1>1. HtTypeOK' /\ PushOK' /\ StoredOK' /\ NewNodes' = NewNodes
  BY StillFrame
<1>2. Strung(n, s)'
  BY <1>1 DEF StrungOK, Strung, Still
<1>3. ASSUME NEW u \in TableThreads, u # t PROVE RemoverOK(n, s, u)'
  <2>1. at'[u] = at[u] /\ nnext' = nnext /\ nkey' = nkey
    BY <1>3 DEF Still, HtTypeOK
  <2>2. RemoverOK(n, s, u)
    BY DEF StrungOK
  <2> QED
    BY <2>1, <2>2 DEF RemoverOK, InRemove, Sits, Holds
<1>4. StrungOK(n, s)'
  BY <1>2, <1>3 DEF StrungOK
<1> QED
  BY <1>1, <1>4 DEF ShareInv

(* The same for a step after which t is not in remove.                     *)
LEMMA ReaderShares ==
  ASSUME ShareInv, NEW t \in TableThreads, NEW c, Still(t, c),
         c.pc \notin {"seek", "mark", "unlink"}
  PROVE  ShareInv'
<1>1. PICK n, s : StrungOK(n, s)
  BY DEF ShareInv
<1>2. HtTypeOK /\ PushOK /\ StoredOK
  BY DEF ShareInv
<1>3. at'[t] = c
  BY <1>2 DEF Still, HtTypeOK
<1>4. RemoverOK(n, s, t)'
  BY <1>3 DEF RemoverOK, InRemove
<1> QED
  BY <1>1, <1>2, <1>4, StillShares

LEMMA FindShares ==
  ASSUME ShareInv, NEW t \in TableThreads, HtReads(t)
  PROVE  ShareInv'
<1>1. HtTypeOK
  BY DEF ShareInv
<1>2. at[t] \in TableCalls /\ bucket \in Links /\ nnext \in [TableNodes -> Links]
  BY <1>1 DEF HtTypeOK
<1>3. ASSUME NEW k \in Keys, find(t, k) PROVE ShareInv'
  <2>1. PICK b : b = (stored[k] > 0) /\ b \in BOOLEAN
    <3>1. (stored[k] > 0) \in BOOLEAN
      OBVIOUS
    <3> QED
      BY <3>1, Zenon
  <2>2. PICK c : c = [NoCall EXCEPT !.pc = "walk", !.key = k, !.cur = bucket, !.was = b]
    OBVIOUS
  <2>3. c \in TableCalls /\ c.pc = "walk"
    BY <1>2, <2>1, <2>2 DEF TableCalls, TablePcs, NoCall, NoLink, Links
  <2>4. Still(t, c)
    BY <1>3, <2>1, <2>2, <2>3 DEF find, Sets, Still, Free
  <2> QED
    BY <2>3, <2>4, ReaderShares
<1>4. ASSUME find_step(t) PROVE ShareInv'
  <2>1. PICK x : x = at[t].cur.to
    OBVIOUS
  <2>2. PICK c : /\ at' = [at EXCEPT ![t] = c]
                 /\ \/ c = [at[t] EXCEPT !.pc = "missed"]
                    \/ c = [at[t] EXCEPT !.pc = "found"]
                    \/ x # Null /\ c = [at[t] EXCEPT !.cur = nnext[x]]
    BY <1>4, <2>1 DEF find_step, Sets
  <2>3. x # Null => nnext[x] \in Links
    BY <1>2, <2>1 DEF TableCalls, Links
  <2>4. c \in TableCalls /\ c.pc \in {"missed", "found", "walk"}
    BY <1>2, <1>4, <2>2, <2>3 DEF find_step, TableCalls, TablePcs
  <2>5. Still(t, c)
    BY <1>4, <2>2, <2>4 DEF find_step, Still
  <2> QED
    BY <2>4, <2>5, ReaderShares
<1>5. ASSUME find_returns(t) PROVE ShareInv'
  <2>1. NoCall \in TableCalls /\ NoCall.pc = "none"
    BY DEF TableCalls, TablePcs, NoCall, NoLink, Links
  <2>2. Still(t, NoCall)
    BY <1>5, <2>1 DEF find_returns, Returns, Sets, Still
  <2> QED
    BY <2>1, <2>2, ReaderShares
<1> QED
  BY <1>3, <1>4, <1>5 DEF HtReads

LEMMA AllocateShares ==
  ASSUME ShareInv, NEW t \in TableThreads, NEW k \in Keys, insert_new(t, k)
  PROVE  ShareInv'
<1>1. PICK n, s : StrungOK(n, s)
  BY DEF ShareInv
<1>2. HtTypeOK /\ PushOK /\ StoredOK
  BY DEF ShareInv
<1>3. PICK m : Allocates(t, k, m)
  BY DEF insert_new, Free, Allocates
<1>4. /\ HtTypeOK' /\ PushOK' /\ StoredOK' /\ live' \ NewNodes' = live \ NewNodes
      /\ at'[t].pc = "push" /\ \A u \in TableThreads \ {t} : at'[u] = at[u]
      /\ \A h \in live : nkey'[h] = nkey[h] /\ nnext'[h] = nnext[h]
  BY <1>2, <1>3, AllocateFrame
<1>5. /\ n \in Nat /\ s \in [1 .. n -> TableNodes]
      /\ {s[i] : i \in 1 .. n} = live \ NewNodes
  BY <1>1 DEF StrungOK, Strung
<1>6. \A i \in 1 .. n : nnext'[s[i]] = nnext[s[i]] /\ nkey'[s[i]] = nkey[s[i]]
  BY <1>4, <1>5
<1>7. Strung(n, s)'
  BY <1>1, <1>3, <1>4, <1>6 DEF StrungOK, Strung, Allocates
<1>8. RemoverOK(n, s, t)'
  BY <1>4 DEF RemoverOK, InRemove
<1>9. ASSUME NEW u \in TableThreads, u # t PROVE RemoverOK(n, s, u)'
  <2>1. at'[u] = at[u] /\ RemoverOK(n, s, u)
    BY <1>1, <1>4, <1>9 DEF StrungOK
  <2> QED
    BY <2>1, <1>6 DEF RemoverOK, InRemove, Sits, Holds
<1>10. StrungOK(n, s)'
  BY <1>7, <1>8, <1>9 DEF StrungOK
<1> QED
  BY <1>4, <1>10 DEF ShareInv

LEMMA AgainShares ==
  ASSUME ShareInv, NEW t \in TableThreads, insert_again(t)
  PROVE  ShareInv'
<1>1. PICK n, s : StrungOK(n, s)
  BY DEF ShareInv
<1>2. HtTypeOK /\ PushOK /\ StoredOK
  BY DEF ShareInv
<1>3. /\ HtTypeOK' /\ PushOK' /\ StoredOK' /\ NewNodes' = NewNodes
      /\ \A h \in live \ NewNodes : nnext'[h] = nnext[h]
      /\ UNCHANGED <<bucket, live, nkey, at, stored>>
  BY <1>2, AgainFrame
<1>4. \A i \in 1 .. n : nnext'[s[i]] = nnext[s[i]]
  BY <1>1, <1>3 DEF StrungOK, Strung
<1>5. Strung(n, s)'
  BY <1>1, <1>3, <1>4 DEF StrungOK, Strung
<1>6. ASSUME NEW u \in TableThreads PROVE RemoverOK(n, s, u)'
  <2>1. RemoverOK(n, s, u)
    BY <1>1 DEF StrungOK
  <2> QED
    BY <2>1, <1>3, <1>4 DEF RemoverOK, InRemove, Sits, Holds
<1>7. StrungOK(n, s)'
  BY <1>5, <1>6 DEF StrungOK
<1> QED
  BY <1>3, <1>7 DEF ShareInv

(* The pushed node leads to what head led to.                              *)
LEMMA PushShares ==
  ASSUME ShareInv, NEW t \in TableThreads, insert_push(t)
  PROVE  ShareInv'
<1>1. PICK n, s : StrungOK(n, s)
  BY DEF ShareInv
<1>2. HtTypeOK /\ PushOK /\ StoredOK
  BY DEF ShareInv
<1>3. PICK m : m = at[t].prev
  OBVIOUS
<1>4. /\ HtTypeOK' /\ PushOK' /\ StoredOK' /\ live' \ NewNodes' = (live \ NewNodes) \cup {m}
      /\ m \in TableNodes /\ m \in NewNodes
      /\ at'[t] = NoCall /\ \A u \in TableThreads \ {t} : at'[u] = at[u]
  BY <1>2, <1>3, PushFrame
<1>5. /\ bucket = nnext[m] /\ bucket' = [to |-> m, marked |-> FALSE]
      /\ UNCHANGED <<live, nkey, nnext>>
  BY <1>3 DEF insert_push
<1>6. /\ n \in Nat /\ s \in [1 .. n -> TableNodes] /\ Apart(n, s)
      /\ {s[i] : i \in 1 .. n} = live \ NewNodes /\ m \notin {s[i] : i \in 1 .. n}
      /\ bucket.to = To(n, s, 1) /\ \A i \in 1 .. n : nnext[s[i]].to = To(n, s, i + 1)
  BY <1>1, <1>4 DEF StrungOK, Strung
<1>7. PICK h \in Nat : h = n + 1
  BY <1>6
<1>8. PICK r : r = Pushed(n, s, m)
  OBVIOUS
<1>9. IsPushed(n, s, m, h, r)
  BY <1>4, <1>6, <1>7, <1>8, PushedChain
<1>10. /\ r \in [1 .. h -> TableNodes] /\ Apart(h, r) /\ r[1] = m
       /\ \A j \in 1 .. n : r[j + 1] = s[j]
       /\ {r[j] : j \in 1 .. h} = {s[j] : j \in 1 .. n} \cup {m}
       /\ \A j \in 1 .. h : To(h, r, j + 1) = To(n, s, j)
  BY <1>9 DEF IsPushed
<1>11. \A j \in 1 .. h : nnext'[r[j]].to = To(h, r, j + 1)
  <2> SUFFICES ASSUME NEW j \in 1 .. h PROVE nnext[r[j]].to = To(n, s, j)
    BY <1>5, <1>10
  <2>1. CASE j = 1
    BY <2>1, <1>5, <1>6, <1>10
  <2>2. CASE j # 1
    <3>1. PICK i \in 1 .. n : j = i + 1
      <4>1. j - 1 \in 1 .. n /\ j = (j - 1) + 1
        BY <2>2, <1>6, <1>7
      <4> QED
        BY <4>1
    <3> QED
      BY <3>1, <1>6, <1>10
  <2> QED
    BY <2>1, <2>2
<1>12. Strung(h, r)'
  <2>1. bucket'.to = To(h, r, 1)
    BY <1>5, <1>7, <1>10 DEF To
  <2>2. {r[j] : j \in 1 .. h} = live' \ NewNodes'
    BY <1>4, <1>6, <1>10
  <2> QED
    BY <2>1, <2>2, <1>7, <1>10, <1>11 DEF Strung
<1>13. \A j \in 1 .. n : /\ j + 1 \in 1 .. h /\ s[j] = r[j + 1]
                         /\ To(n, s, j + 1) = To(h, r, (j + 1) + 1)
  <2>1. \A j \in 1 .. n : j + 1 \in 1 .. h
    BY <1>6, <1>7
  <2> QED
    BY <2>1, <1>10
<1>14. ASSUME NEW u \in TableThreads, u # t PROVE RemoverOK(h, r, u)'
  <2>1. at'[u] = at[u] /\ RemoverOK(n, s, u)
    BY <1>1, <1>4, <1>14 DEF StrungOK
  <2>2. Sits(n, s, u) => Sits(h, r, u)'
    BY <2>1, <1>5, <1>13 DEF Sits
  <2>3. Holds(n, s, u) => Holds(h, r, u)'
    BY <2>1, <1>5, <1>13 DEF Holds
  <2> QED
    BY <2>1, <2>2, <2>3 DEF RemoverOK, InRemove
<1>15. RemoverOK(h, r, t)'
  BY <1>4 DEF RemoverOK, InRemove, NoCall
<1>16. StrungOK(h, r)'
  BY <1>12, <1>14, <1>15 DEF StrungOK
<1> QED
  BY <1>4, <1>16 DEF ShareInv

(* The search starts at head, again and again.                             *)
LEMMA SeekShares ==
  ASSUME ShareInv, NEW t \in TableThreads, t \in Removers, NEW k \in Keys, Seek(t, k),
         UNCHANGED <<bucket, live, nkey, nnext, stored>>, at[t].pc # "push"
  PROVE  ShareInv'
<1>1. PICK n, s : StrungOK(n, s)
  BY DEF ShareInv
<1>2. HtTypeOK /\ PushOK /\ StoredOK
  BY DEF ShareInv
<1>3. PICK c : c = [NoCall EXCEPT !.pc = "seek", !.key = k, !.cur = bucket]
  OBVIOUS
<1>4. c \in TableCalls /\ c.pc = "seek" /\ c.key = k /\ c.cur = bucket /\ c.prev = Null
  BY <1>2, <1>3 DEF HtTypeOK, TableCalls, TablePcs, NoCall, NoLink, Links
<1>5. Still(t, c)
  BY <1>3, <1>4 DEF Seek, Sets, Still
<1>6. at'[t] = c
  BY <1>5, <1>2 DEF Still, HtTypeOK
<1>7. bucket.to = Null \/ \E j \in 1 .. n : bucket.to = s[j]
  BY <1>1 DEF StrungOK, Strung, To
<1>8. RemoverOK(n, s, t)'
  BY <1>4, <1>6, <1>7 DEF RemoverOK, InRemove, Sits
<1> QED
  BY <1>1, <1>2, <1>5, <1>8, StillShares

(* A node the remover comes to is one of the chain.                        *)
LEMMA ComesTo ==
  ASSUME NEW n, NEW s, Strung(n, s), NEW t, Sits(n, s, t), at[t].cur.to # Null
  PROVE  \E j \in 1 .. n : at[t].cur.to = s[j]
<1>1. ASSUME NEW j \in 1 .. n, at[t].cur = nnext[s[j]] PROVE \E i \in 1 .. n : at[t].cur.to = s[i]
  <2>1. n \in Nat /\ at[t].cur.to = To(n, s, j + 1)
    BY <1>1 DEF Strung
  <2>2. j + 1 \in 1 .. n /\ at[t].cur.to = s[j + 1]
    BY <2>1 DEF To
  <2> QED
    BY <2>2
<1> QED
  BY <1>1 DEF Sits

LEMMA RemoveStepShares ==
  ASSUME ShareInv, NEW t \in TableThreads, t \in Removers, remove_step(t)
  PROVE  ShareInv'
<1>1. PICK n, s : StrungOK(n, s)
  BY DEF ShareInv
<1>2. HtTypeOK /\ PushOK /\ StoredOK /\ at[t].pc = "seek"
  BY DEF ShareInv, remove_step
<1>3. at[t].key \in Keys /\ Sits(n, s, t) /\ Strung(n, s)
  BY <1>1, <1>2 DEF StrungOK, RemoverOK, InRemove
<1>4. /\ n \in Nat /\ s \in [1 .. n -> TableNodes]
      /\ \A i \in 1 .. n : nnext[s[i]].to = To(n, s, i + 1)
  BY <1>3 DEF Strung
<1>5. at[t] \in TableCalls /\ nnext \in [TableNodes -> Links]
  BY <1>2 DEF HtTypeOK
<1>6. CASE at[t].cur = NoLink
  <2>1. NoCall \in TableCalls /\ NoCall.pc = "none"
    BY DEF TableCalls, TablePcs, NoCall, NoLink, Links
  <2>2. Still(t, NoCall)
    BY <1>6, <2>1 DEF remove_step, Returns, Sets, Still
  <2> QED
    BY <2>1, <2>2, ReaderShares
<1>7. ASSUME at[t].cur # NoLink
      PROVE  \E j \in 1 .. n : at[t].cur.to = s[j] /\ nnext[s[j]] \in Links /\ s[j] \in TableNodes
  <2>1. at[t].cur.to # Null
    BY <1>7 DEF remove_step
  <2>2. PICK j \in 1 .. n : at[t].cur.to = s[j]
    BY <2>1, <1>3, ComesTo
  <2> QED
    BY <2>2, <1>4, <1>5
<1>8. CASE at[t].cur # NoLink /\ nkey[at[t].cur.to] = at[t].key
  <2>1. PICK j \in 1 .. n : at[t].cur.to = s[j] /\ nnext[s[j]] \in Links
    BY <1>7, <1>8
  <2>2. PICK c : c = [at[t] EXCEPT !.pc = "mark", !.nxt = nnext[s[j]]]
    OBVIOUS
  <2>3. /\ c \in TableCalls /\ c.pc = "mark" /\ c.key = at[t].key /\ c.cur = at[t].cur
        /\ c.prev = at[t].prev /\ c.nxt = nnext[s[j]]
    BY <2>1, <2>2, <1>5 DEF TableCalls, TablePcs
  <2>4. Still(t, c)
    BY <2>1, <2>2, <2>3, <1>8, <1>2 DEF remove_step, Sets, Still
  <2>5. at'[t] = c /\ nnext' = nnext /\ nkey' = nkey
    BY <2>4, <1>2 DEF Still, HtTypeOK
  <2>6. Sits(n, s, t)'
    BY <2>3, <2>5, <1>3 DEF Sits
  <2>7. Holds(n, s, t)'
    BY <2>1, <2>3, <2>5, <1>4, <1>8 DEF Holds
  <2>8. RemoverOK(n, s, t)'
    BY <2>3, <2>5, <2>6, <2>7, <1>3 DEF RemoverOK, InRemove
  <2> QED
    BY <2>4, <2>8, <1>1, <1>2, StillShares
<1>9. CASE at[t].cur # NoLink /\ nkey[at[t].cur.to] # at[t].key
  <2>1. PICK j \in 1 .. n : /\ at[t].cur.to = s[j] /\ nnext[s[j]] \in Links
                            /\ s[j] \in TableNodes
    BY <1>7, <1>9
  <2>2. PICK c : c = [at[t] EXCEPT !.prev = s[j], !.cur = nnext[s[j]]]
    OBVIOUS
  <2>3. /\ c \in TableCalls /\ c.pc = "seek" /\ c.key = at[t].key
        /\ c.cur = nnext[s[j]] /\ c.prev = s[j]
    BY <2>1, <2>2, <1>2, <1>5 DEF TableCalls, TablePcs
  <2>4. Still(t, c)
    BY <2>1, <2>2, <2>3, <1>9, <1>2 DEF remove_step, Sets, Still
  <2>5. at'[t] = c /\ nnext' = nnext
    BY <2>4, <1>2 DEF Still, HtTypeOK
  <2>6. Sits(n, s, t)'
    BY <2>1, <2>3, <2>5, HtAssumption DEF Sits
  <2>7. RemoverOK(n, s, t)'
    BY <2>3, <2>5, <2>6, <1>3 DEF RemoverOK, InRemove
  <2> QED
    BY <2>4, <2>7, <1>1, <1>2, StillShares
<1> QED
  BY <1>6, <1>8, <1>9

(* Nobody but the one remover is in remove.                                *)
LEMMA OthersDoNotRemove ==
  ASSUME OneRemover, NEW n, NEW s, StrungOK(n, s), NEW t \in TableThreads, t \in Removers
  PROVE  \A u \in TableThreads \ {t} : ~InRemove(u)
BY DEF OneRemover, StrungOK, RemoverOK

LEMMA RemoveMarkShares ==
  ASSUME OneRemover, ShareInv, NEW t \in TableThreads, t \in Removers, remove_mark(t)
  PROVE  ShareInv'
<1>1. PICK n, s : StrungOK(n, s)
  BY DEF ShareInv
<1>2. HtTypeOK /\ PushOK /\ StoredOK /\ at[t].pc = "mark"
  BY DEF ShareInv, remove_mark
<1>3. at[t].key \in Keys /\ Sits(n, s, t) /\ Holds(n, s, t) /\ Strung(n, s)
  BY <1>1, <1>2 DEF StrungOK, RemoverOK, InRemove
<1>4. /\ n \in Nat /\ s \in [1 .. n -> TableNodes] /\ Apart(n, s)
      /\ {s[i] : i \in 1 .. n} = live \ NewNodes
      /\ bucket.to = To(n, s, 1) /\ \A i \in 1 .. n : nnext[s[i]].to = To(n, s, i + 1)
  BY <1>3 DEF Strung
<1>5. PICK j \in 1 .. n : /\ at[t].cur.to = s[j] /\ nkey[s[j]] = at[t].key
                          /\ at[t].nxt.to = To(n, s, j + 1)
  BY <1>3 DEF Holds
<1>6. at[t] \in TableCalls /\ nnext \in [TableNodes -> Links]
  BY <1>2 DEF HtTypeOK
<1>7. PICK l : l = get_marked(at[t].nxt)
  OBVIOUS
<1>8. l \in Links /\ l.to = To(n, s, j + 1)
  <2>1. at[t].nxt \in Links
    BY <1>6 DEF TableCalls
  <2>2. l \in Links /\ l.to = at[t].nxt.to
    BY <2>1, <1>7 DEF get_marked, Links
  <2> QED
    BY <2>2, <1>5
<1>9. PICK c : c = [at[t] EXCEPT !.pc = "unlink"]
  OBVIOUS
<1>10. /\ c \in TableCalls /\ c.pc = "unlink" /\ c.key = at[t].key /\ c.cur = at[t].cur
       /\ c.prev = at[t].prev /\ c.nxt = at[t].nxt
  BY <1>6, <1>9 DEF TableCalls, TablePcs
<1>11. /\ nnext' = [nnext EXCEPT ![s[j]] = l] /\ at' = [at EXCEPT ![t] = c]
       /\ UNCHANGED <<bucket, live, nkey, stored>>
  BY <1>5, <1>7, <1>9 DEF remove_mark, Sets
<1>12. at'[t] = c /\ \A u \in TableThreads \ {t} : at'[u] = at[u]
  BY <1>2, <1>11 DEF HtTypeOK
<1>13. HtTypeOK'
  BY <1>2, <1>8, <1>10, <1>11 DEF HtTypeOK
<1>14. \A u \in TableThreads : /\ Pushing(u)' <=> Pushing(u)
                               /\ Pushing(u) => at'[u] = at[u]
  BY <1>2, <1>10, <1>12 DEF Pushing
<1>15. NewNodes' = NewNodes
  BY <1>14 DEF NewNodes
<1>16. PushOK'
  BY <1>2, <1>11, <1>14 DEF PushOK
<1>17. StoredOK'
  <2>1. \A k \in Keys : InTable(k)' = InTable(k)
    BY <1>11, <1>15 DEF InTable
  <2> QED
    BY <2>1, <1>2, <1>11 DEF StoredOK
<1>18. \A i \in 1 .. n : nnext'[s[i]] = IF i = j THEN l ELSE nnext[s[i]]
  <2>1. \A i \in 1 .. n : s[i] = s[j] => i = j
    BY <1>4 DEF Apart
  <2> QED
    BY <2>1, <1>4, <1>6, <1>11
<1>19. Strung(n, s)'
  BY <1>4, <1>8, <1>11, <1>15, <1>18 DEF Strung
<1>20. Sits(n, s, t)'
  <2>1. CASE at[t].prev = Null
    BY <2>1, <1>5, <1>10, <1>12 DEF Sits
  <2>2. CASE at[t].prev # Null
    <3>1. PICK i \in 1 .. n : at[t].prev = s[i] /\ at[t].cur = nnext[s[i]]
      BY <2>2, <1>3 DEF Sits
    <3>2. s[j] = To(n, s, i + 1)
      BY <3>1, <1>4, <1>5
    <3>3. i # j
      <4>1. CASE i + 1 <= n
        <5>1. i + 1 \in 1 .. n /\ s[j] = s[i + 1]
          BY <4>1, <3>2, <1>4 DEF To
        <5>2. j = i + 1
          BY <5>1, <1>4 DEF Apart
        <5> QED
          BY <5>2
      <4>2. CASE ~(i + 1 <= n)
        <5>1. s[j] = Null /\ s[j] \in TableNodes
          BY <4>2, <3>2, <1>4 DEF To
        <5> QED
          BY <5>1, HtAssumption
      <4> QED
        BY <4>1, <4>2
    <3>4. at'[t].prev = s[i] /\ at'[t].cur = nnext'[s[i]]
      BY <3>1, <3>3, <1>10, <1>12, <1>18
    <3> QED
      BY <3>4, <2>2, <1>10, <1>12 DEF Sits
  <2> QED
    BY <2>1, <2>2
<1>21. Holds(n, s, t)'
  BY <1>5, <1>10, <1>11, <1>12 DEF Holds
<1>22. RemoverOK(n, s, t)'
  BY <1>3, <1>10, <1>12, <1>20, <1>21 DEF RemoverOK
<1>23. ASSUME NEW u \in TableThreads, u # t PROVE RemoverOK(n, s, u)'
  <2>1. ~InRemove(u) /\ at'[u] = at[u]
    BY <1>1, <1>12, <1>23, OthersDoNotRemove
  <2> QED
    BY <2>1 DEF RemoverOK, InRemove
<1>24. StrungOK(n, s)'
  BY <1>19, <1>22, <1>23 DEF StrungOK
<1> QED
  BY <1>13, <1>16, <1>17, <1>24 DEF ShareInv

(* Where the links lead without node i, the link before it leading to the  *)
(* node behind it.                                                         *)
Leads(n, s, f) == \A j \in 1 .. n : f[s[j]].to = To(n, s, j + 1)
Bypasses(s, i, f, l, g) == g = IF i # 1 THEN [f EXCEPT ![s[i - 1]] = l] ELSE f

LEMMA WithoutLinks ==
  ASSUME NEW n \in Nat, NEW m \in Nat, m = n - 1, NEW s \in [1 .. n -> TableNodes],
         Apart(n, s), NEW i \in 1 .. n, NEW r, IsWithout(n, s, i, m, r),
         NEW f \in [TableNodes -> Links], Leads(n, s, f),
         NEW l, l.to = To(n, s, i + 1), NEW g, Bypasses(s, i, f, l, g)
  PROVE  Leads(m, r, g)
<1> SUFFICES ASSUME NEW j \in 1 .. m PROVE g[r[j]].to = To(m, r, j + 1)
  BY DEF Leads
<1>1. j \in 1 .. n /\ j + 1 \in 1 .. n
  OBVIOUS
<1>2. /\ r[j] = IF j < i THEN s[j] ELSE s[j + 1]
      /\ \A h \in 1 .. n : To(m, r, h) = IF h < i THEN To(n, s, h) ELSE To(n, s, h + 1)
  BY DEF IsWithout
<1>3. i # 1 => i - 1 \in 1 .. n /\ s[i - 1] \in TableNodes
  <2>1. i # 1 => i - 1 \in 1 .. n
    OBVIOUS
  <2> QED
    BY <2>1
<1>4. CASE j + 1 = i
  <2>1. r[j] = s[i - 1] /\ i # 1
    BY <1>1, <1>2, <1>4
  <2>2. g[r[j]] = l
    BY <2>1, <1>3 DEF Bypasses
  <2>3. To(m, r, j + 1) = To(n, s, i + 1)
    BY <1>1, <1>2, <1>4
  <2> QED
    BY <2>2, <2>3
<1>5. CASE j + 1 < i
  <2>1. r[j] = s[j] /\ j # i - 1 /\ i # 1
    BY <1>1, <1>2, <1>5
  <2>2. g[r[j]] = f[s[j]]
    BY <2>1, <1>1, <1>3 DEF Apart, Bypasses
  <2>3. To(m, r, j + 1) = To(n, s, j + 1)
    BY <1>1, <1>2, <1>5
  <2> QED
    BY <2>2, <2>3, <1>1 DEF Leads
<1>6. CASE j >= i
  <2>1. PICK h \in 1 .. n : h = j + 1 /\ ~(h < i) /\ h # i - 1
    BY <1>1, <1>6
  <2>2. r[j] = s[h]
    BY <2>1, <1>2, <1>6
  <2>3. g[r[j]] = f[s[h]]
    BY <2>1, <2>2, <1>3 DEF Apart, Bypasses
  <2>4. To(m, r, h) = To(n, s, h + 1)
    BY <2>1, <1>2
  <2> QED
    BY <2>1, <2>3, <2>4 DEF Leads
<1> QED
  BY <1>4, <1>5, <1>6

(* The exchange hits only where current is the next node of the chain.     *)
LEMMA UnlinkHits ==
  ASSUME HtTypeOK, NEW n, NEW s, Strung(n, s), NEW t \in TableThreads, Sits(n, s, t),
         NEW j \in 1 .. n, at[t].cur.to = s[j], Before(t) = at[t].cur
  PROVE  /\ at[t].prev = Null <=> j = 1
         /\ j # 1 => j - 1 \in 1 .. n /\ at[t].prev = s[j - 1]
<1>1. /\ n \in Nat /\ s \in [1 .. n -> TableNodes] /\ Apart(n, s)
      /\ bucket.to = To(n, s, 1) /\ \A i \in 1 .. n : nnext[s[i]].to = To(n, s, i + 1)
  BY DEF Strung
<1>2. CASE at[t].prev = Null
  <2>1. s[j] = To(n, s, 1) /\ 1 \in 1 .. n
    BY <1>1, <1>2 DEF Before
  <2>2. s[j] = s[1]
    BY <2>1 DEF To
  <2>3. j = 1
    BY <2>1, <2>2, <1>1 DEF Apart
  <2> QED
    BY <2>3, <1>2
<1>3. CASE at[t].prev # Null
  <2>1. PICK i \in 1 .. n : at[t].prev = s[i] /\ at[t].cur = nnext[s[i]]
    BY <1>3 DEF Sits
  <2>2. s[j] = To(n, s, i + 1)
    BY <2>1, <1>1
  <2>3. i + 1 <= n
    <3>1. s[j] # Null
      BY <1>1, HtAssumption
    <3> QED
      BY <3>1, <2>2 DEF To
  <2>4. i + 1 \in 1 .. n /\ s[j] = s[i + 1]
    BY <2>2, <2>3, <1>1 DEF To
  <2>5. j = i + 1
    BY <2>4, <1>1 DEF Apart
  <2>6. j # 1 /\ j - 1 = i
    BY <2>5
  <2> QED
    BY <2>1, <2>6, <1>3
<1> QED
  BY <1>2, <1>3

LEMMA UnlinkShares ==
  ASSUME OneRemover, ShareInv, NEW t \in TableThreads, t \in Removers, remove_unlink(t)
  PROVE  ShareInv'
<1>1. PICK n, s : StrungOK(n, s)
  BY DEF ShareInv
<1>2. HtTypeOK /\ PushOK /\ StoredOK /\ at[t].pc = "unlink"
  BY DEF ShareInv, remove_unlink, unlink
<1>3. at[t].key \in Keys /\ Sits(n, s, t) /\ Holds(n, s, t) /\ Strung(n, s)
  BY <1>1, <1>2 DEF StrungOK, RemoverOK, InRemove
<1>4. CASE Before(t) # at[t].cur
  <2>1. Seek(t, at[t].key) /\ UNCHANGED <<bucket, live, nkey, nnext, stored>>
    BY <1>4 DEF remove_unlink, unlink
  <2> QED
    BY <2>1, <1>2, <1>3, SeekShares
<1>5. CASE Before(t) = at[t].cur
  <2>1. /\ n \in Nat /\ s \in [1 .. n -> TableNodes] /\ Apart(n, s)
        /\ {s[i] : i \in 1 .. n} = live \ NewNodes
        /\ bucket.to = To(n, s, 1) /\ \A i \in 1 .. n : nnext[s[i]].to = To(n, s, i + 1)
    BY <1>3 DEF Strung
  <2>2. PICK j \in 1 .. n : /\ at[t].cur.to = s[j] /\ nkey[s[j]] = at[t].key
                            /\ at[t].nxt.to = To(n, s, j + 1)
    BY <1>3 DEF Holds
  <2>3. /\ at[t].prev = Null <=> j = 1
        /\ j # 1 => j - 1 \in 1 .. n /\ at[t].prev = s[j - 1]
    BY <1>2, <1>3, <1>5, <2>2, UnlinkHits
  <2>4. PICK l : l = at[t].nxt
    OBVIOUS
  <2>5. l \in Links /\ l.to = To(n, s, j + 1)
    BY <2>2, <2>4, <1>2 DEF HtTypeOK, TableCalls
  <2>6. /\ bucket' = IF j = 1 THEN l ELSE bucket
        /\ nnext' = IF j # 1 THEN [nnext EXCEPT ![s[j - 1]] = l] ELSE nnext
        /\ live' = live \ {s[j]} /\ nkey' = nkey
        /\ stored' = [stored EXCEPT ![at[t].key] = @ - 1]
        /\ at' = [at EXCEPT ![t] = NoCall]
    BY <1>5, <2>2, <2>3, <2>4 DEF remove_unlink, unlink, Returns, Sets
  <2>7. bucket \in Links /\ nnext \in [TableNodes -> Links]
    BY <1>2 DEF HtTypeOK
  <2>8. bucket' \in Links /\ nnext' \in [TableNodes -> Links]
    <3>1. j # 1 => s[j - 1] \in TableNodes
      BY <2>1, <2>3
    <3> QED
      BY <3>1, <2>5, <2>6, <2>7
  <2>9. Deletes(t, s[j])
    BY <1>2, <1>3, <2>1, <2>2, <2>6, <2>8 DEF Deletes
  <2>10. HtTypeOK' /\ PushOK' /\ StoredOK' /\ NewNodes' = NewNodes
    BY <1>2, <2>9, DeleteFrame
  <2>11. PICK m \in Nat : m = n - 1
    BY <2>1
  <2>12. PICK r : r = Without(n, s, j)
    OBVIOUS
  <2>13. IsWithout(n, s, j, m, r)
    BY <2>1, <2>11, <2>12, WithoutChain
  <2>14. \A i \in 1 .. m : nnext'[r[i]].to = To(m, r, i + 1)
    <3>1. PICK f \in [TableNodes -> Links] : f = nnext
      BY <2>7
    <3>2. PICK g : g = nnext'
      OBVIOUS
    <3>3. Bypasses(s, j, f, l, g)
      BY <3>1, <3>2, <2>6 DEF Bypasses
    <3>4. Leads(n, s, f)
      BY <3>1, <2>1 DEF Leads
    <3>5. Leads(m, r, g)
      BY <3>3, <3>4, <2>1, <2>5, <2>11, <2>13, WithoutLinks
    <3> QED
      BY <3>2, <3>5 DEF Leads
  <2>15. bucket'.to = To(m, r, 1)
    <3>1. 1 \in 1 .. n
      BY <2>1
    <3>2. To(m, r, 1) = IF j = 1 THEN To(n, s, 2) ELSE To(n, s, 1)
      BY <3>1, <2>13 DEF IsWithout
    <3> QED
      BY <3>2, <2>1, <2>5, <2>6
  <2>16. Strung(m, r)'
    <3>1. {r[i] : i \in 1 .. m} = live' \ NewNodes'
      BY <2>1, <2>6, <2>10, <2>13 DEF IsWithout
    <3> QED
      BY <3>1, <2>13, <2>14, <2>15 DEF Strung, IsWithout
  <2>17. ASSUME NEW u \in TableThreads PROVE RemoverOK(m, r, u)'
    <3>1. CASE u = t
      BY <3>1, <2>6, <1>2 DEF RemoverOK, InRemove, NoCall, HtTypeOK
    <3>2. CASE u # t
      <4>1. ~InRemove(u) /\ at'[u] = at[u]
        BY <3>2, <2>6, <1>1, <1>2, OthersDoNotRemove DEF HtTypeOK
      <4> QED
        BY <4>1 DEF RemoverOK, InRemove
    <3> QED
      BY <3>1, <3>2
  <2>18. StrungOK(m, r)'
    BY <2>16, <2>17 DEF StrungOK
  <2> QED
    BY <2>10, <2>18 DEF ShareInv
<1> QED
  BY <1>4, <1>5

LEMMA ShareInvNext == OneRemover /\ ShareInv /\ [HtNext]_htvars => ShareInv'
<1> SUFFICES ASSUME OneRemover, ShareInv, [HtNext]_htvars PROVE ShareInv'
  OBVIOUS
<1>1. CASE UNCHANGED htvars
  <2>1. UNCHANGED <<bucket, live, nkey, nnext, at, stored>>
    BY <1>1 DEF htvars
  <2>2. PICK n, s : StrungOK(n, s)
    BY DEF ShareInv
  <2>3. HtTypeOK' /\ PushOK' /\ NewNodes' = NewNodes
    BY <2>1 DEF ShareInv, HtTypeOK, PushOK, Pushing, NewNodes
  <2>4. \A k \in Keys : InTable(k)' = InTable(k)
    BY <2>1, <2>3 DEF InTable
  <2>5. StoredOK'
    BY <2>1, <2>4 DEF ShareInv, StoredOK
  <2>6. StrungOK(n, s)'
    <3>1. Strung(n, s)'
      BY <2>1, <2>2, <2>3 DEF StrungOK, Strung
    <3>2. \A t \in TableThreads : RemoverOK(n, s, t)'
      BY <2>1, <2>2 DEF StrungOK, RemoverOK, InRemove, Sits, Holds
    <3> QED
      BY <3>1, <3>2 DEF StrungOK
  <2> QED
    BY <2>3, <2>5, <2>6 DEF ShareInv
<1>2. ASSUME NEW t \in TableThreads, HtReads(t) PROVE ShareInv'
  BY <1>2, FindShares
<1>3. ASSUME NEW t \in TableThreads, HtInserts(t) PROVE ShareInv'
  BY <1>3, AllocateShares, PushShares, AgainShares DEF HtInserts
<1>4. ASSUME NEW t \in Removers, HtRemoves(t) PROVE ShareInv'
  <2>1. t \in TableThreads
    BY HtAssumption
  <2>2. ASSUME NEW k \in Keys, remove(t, k) PROVE ShareInv'
    BY <2>1, <2>2, SeekShares DEF remove, Free
  <2>3. CASE remove_mark_fails(t)
    <3>1. at[t].key \in Keys
      BY <2>1, <2>3 DEF ShareInv, StrungOK, RemoverOK, InRemove, remove_mark_fails
    <3> QED
      BY <2>1, <2>3, <3>1, SeekShares DEF remove_mark_fails
  <2> QED
    BY <1>4, <2>1, <2>2, <2>3, RemoveStepShares, RemoveMarkShares, UnlinkShares DEF HtRemoves
<1> QED
  BY <1>1, <1>2, <1>3, <1>4 DEF HtNext, table_crashes

LEMMA ShareInvNodes == ShareInv => HtNodesSound
<1> SUFFICES ASSUME ShareInv PROVE HtNodesSound
  OBVIOUS
<1>1. PICK n, s : StrungOK(n, s)
  BY DEF ShareInv
<1>2. HtTypeOK /\ PushOK /\ StoredOK /\ Strung(n, s)
  BY <1>1 DEF StrungOK, ShareInv
<1>3. {s[i] : i \in 1 .. n} = live \ NewNodes
  BY <1>2 DEF Strung
<1>4. {l.to : l \in Walk} = live \ NewNodes
  BY <1>2, <1>3, WalkNodes
<1>5. HtNoLeak
  <2>1. NewNodes \subseteq live
    BY <1>2 DEF NewNodes, PushOK
  <2>2. NewNodes = {at[t].prev : t \in {u \in TableThreads : at[u].pc = "push"}}
    BY DEF NewNodes, Pushing
  <2> QED
    BY <2>1, <2>2, <1>4 DEF HtNoLeak
<1>6. HtNoDangling
  <2> SUFFICES ASSUME NEW t \in TableThreads, InRemove(t)
               PROVE  {at[t].cur.to, at[t].prev} \subseteq live \cup {Null}
    BY DEF HtNoDangling, Removing, InRemove
  <2>1. Sits(n, s, t)
    BY <1>1 DEF StrungOK, RemoverOK
  <2>2. at[t].cur.to # Null => \E j \in 1 .. n : at[t].cur.to = s[j]
    BY <2>1, <1>2, ComesTo
  <2>3. at[t].prev # Null => \E j \in 1 .. n : at[t].prev = s[j]
    BY <2>1 DEF Sits
  <2>4. \A j \in 1 .. n : s[j] \in live
    BY <1>3
  <2> QED
    BY <2>2, <2>3, <2>4
<1>7. HtCounts
  <2>1. \A k \in Keys : InTable(k) = {m \in {l.to : l \in Walk} : nkey[m] = k}
    BY <1>4 DEF InTable
  <2> QED
    BY <2>1, <1>2 DEF HtCounts, StoredOK
<1> QED
  BY <1>5, <1>6, <1>7 DEF HtNodesSound

(* With one thread that removes, as in main, and any number of threads     *)
(* that insert and find beside it, no node of ThreadSafeHashTable is lost  *)
(* or deleted twice, remove stands on no deleted node, and the chain holds *)
(* each key as often as it was inserted and not removed, on any keys and   *)
(* nodes.                                                                  *)
THEOREM TableNodesAreSound == ASSUME OneRemover PROVE HtSpec => []HtNodesSound
<1>1. HtInit => ShareInv
  <2> SUFFICES ASSUME HtInit PROVE ShareInv
    OBVIOUS
  <2>1. HtInv
    BY HtInitInv
  <2>2. PICK n, s : ChainOK(n, s)
    BY <2>1 DEF HtInv
  <2>3. Strung(n, s)
    BY <2>2, BucketStrung DEF ChainOK
  <2>4. \A t \in TableThreads : RemoverOK(n, s, t)
    BY DEF HtInit, RemoverOK, InRemove, NoCall
  <2> QED
    BY <2>1, <2>3, <2>4 DEF ShareInv, StrungOK, HtInv
<1>2. ShareInv /\ [HtNext]_htvars => ShareInv'
  BY ShareInvNext
<1> QED
  BY <1>1, <1>2, ShareInvNodes, PTL DEF HtSpec

-----------------------------------------------------------------------------
(* The lock-free queue.                                                    *)

(* Teams under which it is sound: one producer with one consumer, or any   *)
(* number of producers.                                                    *)
TeamsSound == \A t \in Teams : \/ t \subseteq Producers
                               \/ \E p \in Producers, c \in Consumers : t \subseteq {p, c}

Users == Producers \cup Consumers
Values == {NoNode} \cup (Producers \X Nat)
Nodes == QueueNodes \cup {NoNode}
ProducerPcs == {"call", "tail", "recheck", "next", "link", "help", "swing", "count"}
ConsumerPcs == {"call", "next", "recheck", "read", "cas", "sub", "delete"}
QueueCalls == [pc : ProducerPcs \cup ConsumerPcs, old : Nodes, succ : Nodes, node : Nodes,
               result : Values]

LfqTypeOK ==
  /\ head \in Nodes /\ tail \in QueueNodes /\ size \in 0 .. SizeModulus - 1
  /\ allocated \subseteq QueueNodes /\ team \in Teams
  /\ data \in [QueueNodes -> Values] /\ next \in [QueueNodes -> Nodes]
  /\ call \in [Users -> QueueCalls]
  /\ enqueued \in [Producers -> Nat] /\ dequeued \in [Consumers -> Seq(Values)]
  /\ \A p \in Producers : call[p].pc \in ProducerPcs
  /\ \A c \in Consumers : call[c].pc \in ConsumerPcs

(* Threads that are not in the team do nothing, and one in a call has      *)
(* calls left.                                                             *)
IdleOK == \A th \in Users \ team :
            /\ call[th].pc = "call"
            /\ th \in Producers => enqueued[th] = 0
            /\ th \in Consumers => dequeued[th] = <<>>
QuotaOK ==
  /\ \A p \in Producers : call[p].pc # "call" => enqueued[p] < Quota
  /\ \A c \in Consumers : call[c].pc # "call" => Len(dequeued[c]) < Quota

(* Calls that hold a node of their own: before it is linked, and after it  *)
(* has left the queue.                                                     *)
Holding(p) == call[p].pc \in {"tail", "recheck", "next", "link", "help"}
Linked(p)  == call[p].pc \in {"swing", "count"}
Removed(c) == call[c].pc \in {"sub", "delete"}
Held == {call[p].node : p \in {q \in Producers : Holding(q)}}
Gone == {call[c].old : c \in {d \in Consumers : Removed(d)}}

HeldOK ==
  /\ \A p \in Producers : Holding(p) =>
       /\ call[p].node \in QueueNodes /\ next[call[p].node] = NoNode
       /\ data[call[p].node] = <<p, enqueued[p] + 1>>
  /\ \A p, q \in Producers :
       Holding(p) /\ Holding(q) /\ call[p].node = call[q].node => p = q

(* The queue is the chain of the n nodes of s, of which the first is the   *)
(* dummy.                                                                  *)
Queue(n, s) ==
  /\ n \in Nat \ {0} /\ s \in [1 .. n -> QueueNodes] /\ Apart(n, s)
  /\ head = s[1]
  /\ \A i \in 1 .. n : next[s[i]] = IF i < n THEN s[i + 1] ELSE NoNode
  /\ allocated = {s[i] : i \in 1 .. n} \cup Held \cup Gone
  /\ {s[i] : i \in 1 .. n} \cap Held = {} /\ {s[i] : i \in 1 .. n} \cap Gone = {}
  /\ Held \cap Gone = {}

(* Producers only: tail may lag behind, and every node a producer has seen *)
(* at the tail is still in the chain, at or before it.                     *)
SawTail(p) == call[p].pc \in {"recheck", "next", "link", "help", "swing"}
SawAt(p, n, s, i) ==
  SawTail(p) => \E j \in 1 .. i :
    /\ call[p].old = s[j]
    /\ call[p].pc = "help" => j < n /\ call[p].succ = s[j + 1]
    /\ call[p].pc = "swing" => j < n /\ call[p].node = s[j + 1]
TailLags(n, s) ==
  \E i \in 1 .. n : tail = s[i] /\ \A p \in Producers : SawAt(p, n, s, i)

InCall == {p \in Producers : call[p].pc # "call"}
Uncounted == {p \in Producers : Linked(p)}
ProducersCount(n) ==
  /\ n - 1 = size + Cardinality(Uncounted)
  /\ size + Cardinality(InCall) <= QueueCapacity + Cardinality(Producers) - 1

OnlyProducers(n, s) == TailLags(n, s) /\ ProducersCount(n)

(* One producer and one consumer: tail is the last node, except while the  *)
(* producer is about to move it there; head is the consumer's to move.     *)
PairLinks(p, c, n, s) ==
  /\ call[p].pc # "help"
  /\ call[p].pc # "swing" => tail = s[n]
  /\ call[p].pc \in {"recheck", "next", "link", "swing"} => call[p].old = tail
  /\ call[p].pc = "swing" => call[p].node = s[n]
  /\ call[c].pc \in {"next", "recheck", "read", "cas"} => call[c].old = s[1]
  /\ call[c].pc = "recheck" => call[c].succ = NoNode \/ (n > 1 /\ call[c].succ = s[2])
  /\ call[c].pc \in {"read", "cas"} => n > 1 /\ call[c].succ = s[2]
  /\ call[c].pc = "cas" => call[c].result = data[s[2]]

(* size misses what the producer has not counted yet and still counts what *)
(* the consumer has not subtracted; it may wrap.                           *)
ToCount(p)    == IF Linked(p) THEN 1 ELSE 0
ToLink(p)     == IF Holding(p) THEN 1 ELSE 0
ToSubtract(c) == IF call[c].pc = "sub" THEN 1 ELSE 0
ToReturn(c)   == IF Removed(c) THEN 1 ELSE 0
PairCount(p, c, n) ==
  /\ size = (n - 1 + ToSubtract(c) + SizeModulus - ToCount(p)) % SizeModulus
  /\ n - 1 + ToSubtract(c) + ToLink(p) <= QueueCapacity
  /\ n - 1 + Len(dequeued[c]) + ToReturn(c) = enqueued[p] + ToCount(p)

Pair(n, s) == \E p \in Producers, c \in Consumers :
                team \subseteq {p, c} /\ PairLinks(p, c, n, s) /\ PairCount(p, c, n)

(* The team at work, and after main has destroyed the queue.               *)
Working == \E n, s : Queue(n, s) /\ IF team \subseteq Producers
                                    THEN OnlyProducers(n, s) ELSE Pair(n, s)
Destroyed == LfqJoined /\ allocated = {}

LfqInv == /\ LfqTypeOK /\ IdleOK /\ QuotaOK /\ HeldOK
          /\ IF head = NoNode THEN Destroyed ELSE Working

LfqBase == LfqTypeOK /\ IdleOK /\ QuotaOK /\ HeldOK

(* Only the call of th changes.                                            *)
OnlyCall(th) == /\ call' \in [Users -> QueueCalls]
                /\ \A u \in Users \ {th} : call'[u] = call[u]

(* A step inside a call of enqueue that links nothing.                     *)
PQuiet(p) == /\ UNCHANGED <<head, size, allocated, data, next, team, enqueued, dequeued>>
             /\ tail' \in QueueNodes /\ OnlyCall(p) /\ call'[p].node = call[p].node
             /\ Holding(p)' <=> Holding(p)
             /\ Linked(p)' <=> Linked(p)
             /\ call[p].pc # "call" /\ call'[p].pc \in ProducerPcs \ {"call"}

LEMMA UserKinds == \A p \in Producers : p \in Users /\ p \notin Consumers
BY LfqAssumption DEF Users

LEMMA ProducerQuiet ==
  ASSUME NEW p \in Producers, p \in team, PQuiet(p), LfqBase
  PROVE  /\ LfqBase' /\ Held' = Held /\ Gone' = Gone
         /\ InCall' = InCall /\ Uncounted' = Uncounted
         /\ \A c \in Consumers : call'[c] = call[c]
<1>1. p \in Users /\ \A c \in Consumers : c \in Users \ {p}
  BY UserKinds DEF Users
<1>2. \A c \in Consumers : call'[c] = call[c]
  BY <1>1 DEF PQuiet, OnlyCall
<1>3. \A q \in Producers \ {p} : call'[q] = call[q]
  BY UserKinds DEF PQuiet, OnlyCall
<1>4. \A q \in Producers : /\ Holding(q)' <=> Holding(q)
                           /\ Linked(q)' <=> Linked(q)
                           /\ call'[q].pc # "call" <=> call[q].pc # "call"
                           /\ call'[q].node = call[q].node
  BY <1>3 DEF PQuiet, Holding, Linked
<1>5. Held' = Held /\ InCall' = InCall /\ Uncounted' = Uncounted
  BY <1>4 DEF Held, InCall, Uncounted
<1>6. Gone' = Gone
  BY <1>2 DEF Gone, Removed
<1>7. LfqTypeOK'
  <2>1. call' \in [Users -> QueueCalls] /\ \A c \in Consumers : call'[c].pc \in ConsumerPcs
    BY <1>2 DEF PQuiet, OnlyCall, LfqBase, LfqTypeOK
  <2>2. \A q \in Producers : call'[q].pc \in ProducerPcs
    BY <1>3 DEF PQuiet, LfqBase, LfqTypeOK
  <2> QED
    BY <2>1, <2>2 DEF PQuiet, LfqBase, LfqTypeOK
<1>8. IdleOK'
  <2>1. \A u \in Users \ team : call'[u] = call[u]
    BY DEF PQuiet, OnlyCall
  <2> QED
    BY <2>1 DEF PQuiet, LfqBase, IdleOK
<1>9. QuotaOK'
  BY <1>2, <1>4 DEF PQuiet, LfqBase, QuotaOK
<1>10. HeldOK'
  BY <1>4 DEF PQuiet, LfqBase, HeldOK
<1> QED
  BY <1>2, <1>5, <1>6, <1>7, <1>8, <1>9, <1>10 DEF LfqBase

(* The chain, and the counts, of a step that leaves them alone.            *)
LEMMA QueueKept ==
  ASSUME NEW n, NEW s, Queue(n, s), UNCHANGED <<head, next, allocated>>,
         Held' = Held, Gone' = Gone
  PROVE  Queue(n, s)'
BY DEF Queue

LEMMA ProducersCountKept ==
  ASSUME NEW n, ProducersCount(n), UNCHANGED size, InCall' = InCall, Uncounted' = Uncounted
  PROVE  ProducersCount(n)'
BY DEF ProducersCount

(* What is left to show of a quiet step of a producer.                     *)
LEMMA QuietEnqueue ==
  ASSUME NEW p \in Producers, p \in team, PQuiet(p), LfqBase, NEW n, NEW s, Queue(n, s),
         IF team \subseteq Producers THEN OnlyProducers(n, s) ELSE Pair(n, s),
         TailLags(n, s) => TailLags(n, s)',
         \A c \in Consumers : PairLinks(p, c, n, s) => PairLinks(p, c, n, s)'
  PROVE  LfqBase' /\ Queue(n, s)' /\ Working'
<1>1. /\ LfqBase' /\ Held' = Held /\ Gone' = Gone /\ InCall' = InCall /\ Uncounted' = Uncounted
      /\ \A c \in Consumers : call'[c] = call[c]
  BY ProducerQuiet
<1>2. /\ UNCHANGED <<head, size, allocated, data, next, team, enqueued, dequeued>>
      /\ Holding(p)' <=> Holding(p)
      /\ Linked(p)' <=> Linked(p)
  BY DEF PQuiet
<1>3. Queue(n, s)'
  BY <1>1, <1>2, QueueKept
<1>4. CASE team \subseteq Producers
  <2>1. OnlyProducers(n, s)'
    BY <1>1, <1>2, <1>4, ProducersCountKept DEF OnlyProducers
  <2>2. team' \subseteq Producers
    BY <1>2, <1>4
  <2> QED
    BY <2>1, <2>2, <1>1, <1>3 DEF Working
<1>5. CASE ~(team \subseteq Producers)
  <2>1. PICK q \in Producers, c \in Consumers :
          team \subseteq {q, c} /\ PairLinks(q, c, n, s) /\ PairCount(q, c, n)
    BY <1>5 DEF Pair
  <2>2. q = p
    BY <2>1, UserKinds
  <2>3. PairLinks(p, c, n, s)'
    BY <2>1, <2>2
  <2>4. PairCount(p, c, n)'
    <3>1. ToCount(p)' = ToCount(p) /\ ToLink(p)' = ToLink(p)
      BY <1>2 DEF ToCount, ToLink
    <3>2. ToSubtract(c)' = ToSubtract(c) /\ ToReturn(c)' = ToReturn(c)
      BY <1>1 DEF ToSubtract, ToReturn, Removed
    <3> QED
      BY <3>1, <3>2, <2>1, <2>2, <1>2 DEF PairCount
  <2>5. Pair(n, s)'
    BY <2>1, <2>2, <2>3, <2>4, <1>2 DEF Pair
  <2>6. ~(team' \subseteq Producers)
    BY <1>2, <1>5
  <2> QED
    BY <2>5, <2>6, <1>1, <1>3 DEF Working
<1> QED
  BY <1>4, <1>5, <1>1, <1>3

LEMMA LagsStep ==
  ASSUME NEW p \in Producers, OnlyCall(p), NEW n \in Nat, NEW s, NEW i \in 1 .. n,
         \A q \in Producers : SawAt(q, n, s, i),
         NEW h \in i .. n, tail' = s[h], SawAt(p, n, s, h)'
  PROVE  TailLags(n, s)'
<1>1. \A q \in Producers \ {p} : call'[q] = call[q]
  BY UserKinds DEF OnlyCall
<1>2. \A q \in Producers \ {p} : SawAt(q, n, s, h)'
  <2> SUFFICES ASSUME NEW q \in Producers \ {p} PROVE SawAt(q, n, s, h)'
    OBVIOUS
  <2>1. call'[q] = call[q] /\ SawAt(q, n, s, i)
    BY <1>1
  <2>2. \A j \in 1 .. i : j \in 1 .. h
    OBVIOUS
  <2> QED
    BY <2>1, <2>2 DEF SawAt, SawTail
<1>3. h \in 1 .. n
  OBVIOUS
<1> QED
  BY <1>2, <1>3 DEF TailLags

LEMMA TailQuiet ==
  ASSUME NEW p \in Producers, p \in team, UNCHANGED team, LfqBase, enqueue_tail(p)
  PROVE  PQuiet(p) /\ UNCHANGED tail /\ call[p].pc = "tail" /\ call'[p].pc = "recheck"
         /\ call'[p].old = tail
<1>1. p \in Users /\ call \in [Users -> QueueCalls] /\ tail \in QueueNodes
  BY UserKinds DEF LfqBase, LfqTypeOK
<1>2. call' = [call EXCEPT ![p].pc = "recheck", ![p].old = tail] /\ call[p].pc = "tail"
  BY DEF enqueue_tail
<1>3. /\ OnlyCall(p) /\ call'[p].node = call[p].node /\ call'[p].pc = "recheck"
      /\ call'[p].old = tail
  BY <1>1, <1>2 DEF OnlyCall, QueueCalls, Nodes, ProducerPcs
<1> QED
  BY <1>1, <1>2, <1>3 DEF PQuiet, Holding, Linked, enqueue_tail, ProducerPcs, nodevars

LEMMA EnqueueTail ==
  ASSUME NEW p \in Producers, p \in team, UNCHANGED team, LfqBase, enqueue_tail(p),
         NEW n, NEW s, Queue(n, s),
         IF team \subseteq Producers THEN OnlyProducers(n, s) ELSE Pair(n, s)
  PROVE  PQuiet(p) /\ LfqBase' /\ Queue(n, s)' /\ Working'
<1>1. /\ PQuiet(p) /\ UNCHANGED tail /\ call[p].pc = "tail" /\ call'[p].pc = "recheck"
      /\ call'[p].old = tail
  BY TailQuiet
<1>2. n \in Nat
  BY DEF Queue
<1>3. TailLags(n, s) => TailLags(n, s)'
  <2> SUFFICES ASSUME NEW i \in 1 .. n, tail = s[i], \A q \in Producers : SawAt(q, n, s, i)
               PROVE  TailLags(n, s)'
    BY DEF TailLags
  <2>1. SawAt(p, n, s, i)' /\ i \in i .. n
    BY <1>1, <1>2 DEF SawAt
  <2> QED
    BY <2>1, <1>1, <1>2, LagsStep DEF PQuiet
<1>4. \A c \in Consumers : PairLinks(p, c, n, s) => PairLinks(p, c, n, s)'
  <2>1. data' = data /\ \A c \in Consumers : call'[c] = call[c]
    BY <1>1, ProducerQuiet DEF PQuiet
  <2> QED
    BY <2>1, <1>1 DEF PairLinks
<1> QED
  BY <1>1, <1>3, <1>4, QuietEnqueue

LEMMA RecheckQuiet ==
  ASSUME NEW p \in Producers, p \in team, UNCHANGED team, LfqBase, enqueue_recheck(p)
  PROVE  PQuiet(p) /\ UNCHANGED tail /\ call[p].pc = "recheck" /\ call'[p].old = call[p].old
         /\ call'[p].pc = IF call[p].old = tail THEN "next" ELSE "tail"
<1>1. p \in Users /\ call \in [Users -> QueueCalls] /\ tail \in QueueNodes
  BY UserKinds DEF LfqBase, LfqTypeOK
<1>2. PICK b \in {"next", "tail"} : b = IF call[p].old = tail THEN "next" ELSE "tail"
  OBVIOUS
<1>3. call' = [call EXCEPT ![p].pc = b] /\ call[p].pc = "recheck"
  BY <1>2 DEF enqueue_recheck, Moves
<1>4. /\ OnlyCall(p) /\ call'[p].node = call[p].node /\ call'[p].pc = b
      /\ call'[p].old = call[p].old
  BY <1>1, <1>3 DEF OnlyCall, QueueCalls, ProducerPcs
<1> QED
  BY <1>1, <1>2, <1>3, <1>4 DEF PQuiet, Holding, Linked, enqueue_recheck, ProducerPcs, nodevars

LEMMA EnqueueRecheck ==
  ASSUME NEW p \in Producers, p \in team, UNCHANGED team, LfqBase, enqueue_recheck(p),
         NEW n, NEW s, Queue(n, s),
         IF team \subseteq Producers THEN OnlyProducers(n, s) ELSE Pair(n, s)
  PROVE  PQuiet(p) /\ LfqBase' /\ Queue(n, s)' /\ Working'
<1>1. /\ PQuiet(p) /\ UNCHANGED tail /\ call[p].pc = "recheck" /\ call'[p].old = call[p].old
      /\ call'[p].pc = IF call[p].old = tail THEN "next" ELSE "tail"
  BY RecheckQuiet
<1>2. n \in Nat
  BY DEF Queue
<1>3. TailLags(n, s) => TailLags(n, s)'
  <2> SUFFICES ASSUME NEW i \in 1 .. n, tail = s[i], \A q \in Producers : SawAt(q, n, s, i)
               PROVE  TailLags(n, s)'
    BY DEF TailLags
  <2>1. i \in i .. n /\ SawAt(p, n, s, i)
    BY <1>2
  <2>2. SawAt(p, n, s, i)'
    BY <2>1, <1>1 DEF SawAt, SawTail
  <2> QED
    BY <2>1, <2>2, <1>1, <1>2, LagsStep DEF PQuiet
<1>4. \A c \in Consumers : PairLinks(p, c, n, s) => PairLinks(p, c, n, s)'
  <2>1. data' = data /\ \A c \in Consumers : call'[c] = call[c]
    BY <1>1, ProducerQuiet DEF PQuiet
  <2> QED
    BY <2>1, <1>1 DEF PairLinks
<1> QED
  BY <1>1, <1>3, <1>4, QuietEnqueue

LEMMA NextQuiet ==
  ASSUME NEW p \in Producers, p \in team, UNCHANGED team, LfqBase, enqueue_next(p),
         call[p].old \in QueueNodes
  PROVE  PQuiet(p) /\ UNCHANGED tail /\ call[p].pc = "next" /\ call'[p].old = call[p].old
         /\ call'[p].pc = (IF next[call[p].old] = NoNode THEN "link" ELSE "help")
         /\ call'[p].succ = next[call[p].old]
<1>1. /\ p \in Users /\ call \in [Users -> QueueCalls] /\ tail \in QueueNodes
      /\ next[call[p].old] \in Nodes
  BY UserKinds DEF LfqBase, LfqTypeOK
<1>2. PICK m \in Nodes : m = next[call[p].old]
  BY <1>1
<1>3. PICK b \in {"link", "help"} : b = IF m = NoNode THEN "link" ELSE "help"
  OBVIOUS
<1>4. call' = [call EXCEPT ![p].pc = b, ![p].succ = m] /\ call[p].pc = "next"
  BY <1>2, <1>3 DEF enqueue_next
<1>5. /\ OnlyCall(p) /\ call'[p].node = call[p].node /\ call'[p].pc = b
      /\ call'[p].old = call[p].old /\ call'[p].succ = m
  BY <1>1, <1>4 DEF OnlyCall, QueueCalls, ProducerPcs
<1> QED
  BY <1>1, <1>2, <1>3, <1>4, <1>5
     DEF PQuiet, Holding, Linked, enqueue_next, ProducerPcs, nodevars

(* What a producer that compares or reads next of the old tail looks at.   *)
LEMMA OldInChain ==
  ASSUME NEW p \in Producers, p \in team, NEW n, NEW s, Queue(n, s),
         call[p].pc \in {"next", "link"},
         IF team \subseteq Producers THEN OnlyProducers(n, s) ELSE Pair(n, s)
  PROVE  \E j \in 1 .. n : call[p].old = s[j] /\ call[p].old \in QueueNodes
<1>1. n \in Nat \ {0} /\ s \in [1 .. n -> QueueNodes] /\ n \in 1 .. n
  BY DEF Queue
<1>2. CASE team \subseteq Producers
  <2>1. PICK i \in 1 .. n : SawAt(p, n, s, i)
    BY <1>2 DEF OnlyProducers, TailLags
  <2>2. PICK j \in 1 .. i : call[p].old = s[j]
    BY <2>1 DEF SawAt, SawTail
  <2>3. j \in 1 .. n
    BY <1>1
  <2> QED
    BY <2>2, <2>3, <1>1
<1>3. CASE ~(team \subseteq Producers)
  <2>1. PICK q \in Producers, c \in Consumers :
          team \subseteq {q, c} /\ PairLinks(q, c, n, s)
    BY <1>3 DEF Pair
  <2>2. q = p
    BY <2>1, UserKinds
  <2> QED
    BY <2>1, <2>2, <1>1 DEF PairLinks
<1> QED
  BY <1>2, <1>3

LEMMA EnqueueNext ==
  ASSUME NEW p \in Producers, p \in team, UNCHANGED team, LfqBase, enqueue_next(p),
         NEW n, NEW s, Queue(n, s),
         IF team \subseteq Producers THEN OnlyProducers(n, s) ELSE Pair(n, s)
  PROVE  PQuiet(p) /\ LfqBase' /\ Queue(n, s)' /\ Working'
<1>1. call[p].old \in QueueNodes /\ call[p].pc = "next"
  BY OldInChain DEF enqueue_next
<1>2. /\ PQuiet(p) /\ UNCHANGED tail /\ call'[p].old = call[p].old
      /\ call'[p].pc = (IF next[call[p].old] = NoNode THEN "link" ELSE "help")
      /\ call'[p].succ = next[call[p].old]
  BY <1>1, NextQuiet
<1>3. /\ n \in Nat \ {0} /\ s \in [1 .. n -> QueueNodes]
      /\ \A i \in 1 .. n : next[s[i]] = IF i < n THEN s[i + 1] ELSE NoNode
  BY DEF Queue
<1>4. TailLags(n, s) => TailLags(n, s)'
  <2> SUFFICES ASSUME NEW i \in 1 .. n, tail = s[i], \A q \in Producers : SawAt(q, n, s, i)
               PROVE  TailLags(n, s)'
    BY DEF TailLags
  <2>1. i \in i .. n /\ SawAt(p, n, s, i)
    BY <1>3
  <2>2. PICK j \in 1 .. i : call[p].old = s[j]
    BY <2>1, <1>1 DEF SawAt, SawTail
  <2>3. j \in 1 .. n
    BY <1>3
  <2>4. call'[p].pc = "help" => j < n /\ call'[p].succ = s[j + 1]
    BY <2>2, <2>3, <1>2, <1>3
  <2>5. call'[p].pc # "swing"
    BY <1>2
  <2>6. SawAt(p, n, s, i)'
    BY <2>2, <2>4, <2>5, <1>2 DEF SawAt
  <2> QED
    BY <2>1, <2>6, <1>2, <1>3, LagsStep DEF PQuiet
<1>5. \A c \in Consumers : PairLinks(p, c, n, s) => PairLinks(p, c, n, s)'
  <2>1. data' = data /\ \A c \in Consumers : call'[c] = call[c]
    BY <1>2, ProducerQuiet DEF PQuiet
  <2>2. next[s[n]] = NoNode
    BY <1>3
  <2> QED
    BY <2>1, <2>2, <1>1, <1>2 DEF PairLinks
<1> QED
  BY <1>2, <1>4, <1>5, QuietEnqueue

LEMMA LinkFails ==
  ASSUME NEW p \in Producers, p \in team, UNCHANGED team, LfqBase, enqueue_link(p),
         next[call[p].old] # NoNode, NEW n, NEW s, Queue(n, s),
         IF team \subseteq Producers THEN OnlyProducers(n, s) ELSE Pair(n, s)
  PROVE  PQuiet(p) /\ LfqBase' /\ Queue(n, s)' /\ Working'
<1>1. p \in Users /\ call \in [Users -> QueueCalls] /\ tail \in QueueNodes
  BY UserKinds DEF LfqBase, LfqTypeOK
<1>2. call' = [call EXCEPT ![p].pc = "tail"] /\ call[p].pc = "link"
  BY DEF enqueue_link, Moves
<1>3. OnlyCall(p) /\ call'[p].node = call[p].node /\ call'[p].pc = "tail"
  BY <1>1, <1>2 DEF OnlyCall, QueueCalls, ProducerPcs
<1>4. PQuiet(p) /\ UNCHANGED tail
  BY <1>1, <1>2, <1>3 DEF PQuiet, Holding, Linked, enqueue_link, ProducerPcs
<1>5. n \in Nat
  BY DEF Queue
<1>6. TailLags(n, s) => TailLags(n, s)'
  <2> SUFFICES ASSUME NEW i \in 1 .. n, tail = s[i], \A q \in Producers : SawAt(q, n, s, i)
               PROVE  TailLags(n, s)'
    BY DEF TailLags
  <2>1. i \in i .. n
    BY <1>5
  <2>2. SawAt(p, n, s, i)'
    BY <1>3 DEF SawAt, SawTail
  <2> QED
    BY <2>1, <2>2, <1>4, <1>5, LagsStep DEF PQuiet
<1>7. \A c \in Consumers : PairLinks(p, c, n, s) => PairLinks(p, c, n, s)'
  <2>1. data' = data /\ \A c \in Consumers : call'[c] = call[c]
    BY <1>4, ProducerQuiet DEF PQuiet
  <2> QED
    BY <2>1, <1>2, <1>3, <1>4 DEF PairLinks
<1> QED
  BY <1>4, <1>6, <1>7, QuietEnqueue

(* tail moves to the node behind the one a producer saw there, if it still *)
(* is where it was.                                                        *)
LEMMA TailMoves ==
  ASSUME NEW p \in Producers, PQuiet(p), NEW n, NEW s, Queue(n, s), NEW to,
         tail' = IF tail = call[p].old THEN to ELSE tail,
         ~SawTail(p)', TailLags(n, s),
         \A i \in 1 .. n : SawAt(p, n, s, i) =>
           \E j \in 1 .. i : call[p].old = s[j] /\ j < n /\ to = s[j + 1]
  PROVE  TailLags(n, s)'
<1>1. PICK i \in 1 .. n : tail = s[i] /\ \A q \in Producers : SawAt(q, n, s, i)
  BY DEF TailLags
<1>2. PICK j \in 1 .. i : call[p].old = s[j] /\ j < n /\ to = s[j + 1]
  BY <1>1
<1>3. n \in Nat /\ Apart(n, s) /\ j \in 1 .. n
  BY DEF Queue
<1>4. \A h : SawAt(p, n, s, h)'
  BY DEF SawAt
<1>5. CASE tail = call[p].old
  <2>1. j = i
    BY <1>1, <1>2, <1>3, <1>5 DEF Apart
  <2>2. j + 1 \in i .. n /\ tail' = s[j + 1]
    BY <2>1, <1>2, <1>3, <1>5
  <2> QED
    BY <2>2, <1>1, <1>3, <1>4, LagsStep DEF PQuiet
<1>6. CASE tail # call[p].old
  <2>1. i \in i .. n /\ tail' = s[i]
    BY <1>1, <1>3, <1>6
  <2> QED
    BY <2>1, <1>1, <1>3, <1>4, LagsStep DEF PQuiet
<1> QED
  BY <1>5, <1>6

LEMMA EnqueueHelp ==
  ASSUME NEW p \in Producers, p \in team, UNCHANGED team, LfqBase, enqueue_help(p),
         NEW n, NEW s, Queue(n, s),
         IF team \subseteq Producers THEN OnlyProducers(n, s) ELSE Pair(n, s)
  PROVE  PQuiet(p) /\ LfqBase' /\ Queue(n, s)' /\ Working'
<1>1. p \in Users /\ call \in [Users -> QueueCalls] /\ tail \in QueueNodes
  BY UserKinds DEF LfqBase, LfqTypeOK
<1>2. /\ call' = [call EXCEPT ![p].pc = "tail"] /\ call[p].pc = "help"
      /\ tail' = IF tail = call[p].old THEN call[p].succ ELSE tail
  BY DEF enqueue_help, Moves
<1>3. OnlyCall(p) /\ call'[p].node = call[p].node /\ call'[p].pc = "tail"
  BY <1>1, <1>2 DEF OnlyCall, QueueCalls, ProducerPcs
<1>4. n \in Nat /\ s \in [1 .. n -> QueueNodes]
  BY DEF Queue
<1>5. team \subseteq Producers
  <2> SUFFICES ASSUME ~(team \subseteq Producers) PROVE FALSE
    OBVIOUS
  <2>1. PICK q \in Producers, c \in Consumers :
          team \subseteq {q, c} /\ PairLinks(q, c, n, s)
    BY DEF Pair
  <2>2. q = p
    BY <2>1, UserKinds
  <2> QED
    BY <2>1, <2>2, <1>2 DEF PairLinks
<1>6. \A i \in 1 .. n : SawAt(p, n, s, i) =>
        \E j \in 1 .. i : call[p].old = s[j] /\ j < n /\ call[p].succ = s[j + 1]
  BY <1>2 DEF SawAt, SawTail
<1>7. tail' \in QueueNodes
  <2>1. PICK i \in 1 .. n : SawAt(p, n, s, i)
    BY <1>5 DEF OnlyProducers, TailLags
  <2>2. PICK j \in 1 .. i : j < n /\ call[p].succ = s[j + 1]
    BY <2>1, <1>6
  <2>3. j + 1 \in 1 .. n
    BY <2>2, <1>4
  <2> QED
    BY <2>2, <2>3, <1>1, <1>2, <1>4
<1>8. PQuiet(p)
  BY <1>2, <1>3, <1>7 DEF PQuiet, Holding, Linked, enqueue_help, ProducerPcs, nodevars
<1>9. ~SawTail(p)'
  BY <1>3 DEF SawTail
<1>10. TailLags(n, s) => TailLags(n, s)'
  BY <1>2, <1>6, <1>8, <1>9, TailMoves
<1>11. \A c \in Consumers : ~PairLinks(p, c, n, s)
  BY <1>2 DEF PairLinks
<1> QED
  BY <1>8, <1>10, <1>11, QuietEnqueue

LEMMA EnqueueSwing ==
  ASSUME NEW p \in Producers, p \in team, UNCHANGED team, LfqBase, enqueue_swing(p),
         NEW n, NEW s, Queue(n, s),
         IF team \subseteq Producers THEN OnlyProducers(n, s) ELSE Pair(n, s)
  PROVE  PQuiet(p) /\ LfqBase' /\ Queue(n, s)' /\ Working'
<1>1. p \in Users /\ call \in [Users -> QueueCalls] /\ tail \in QueueNodes
  BY UserKinds DEF LfqBase, LfqTypeOK
<1>2. /\ call' = [call EXCEPT ![p].pc = "count"] /\ call[p].pc = "swing"
      /\ tail' = IF tail = call[p].old THEN call[p].node ELSE tail
  BY DEF enqueue_swing, Moves
<1>3. OnlyCall(p) /\ call'[p].node = call[p].node /\ call'[p].pc = "count"
  BY <1>1, <1>2 DEF OnlyCall, QueueCalls, ProducerPcs
<1>4. n \in Nat \ {0} /\ s \in [1 .. n -> QueueNodes] /\ n \in 1 .. n
  BY DEF Queue
<1>5. \A i \in 1 .. n : SawAt(p, n, s, i) =>
        \E j \in 1 .. i : call[p].old = s[j] /\ j < n /\ call[p].node = s[j + 1]
  BY <1>2 DEF SawAt, SawTail
<1>6. \A c \in Consumers : PairLinks(p, c, n, s) => tail' = s[n]
  BY <1>2 DEF PairLinks
<1>7. tail' \in QueueNodes
  <2>1. CASE team \subseteq Producers
    <3>1. PICK i \in 1 .. n : SawAt(p, n, s, i)
      BY <2>1 DEF OnlyProducers, TailLags
    <3>2. PICK j \in 1 .. i : j < n /\ call[p].node = s[j + 1]
      BY <3>1, <1>5
    <3>3. j + 1 \in 1 .. n
      BY <3>2, <1>4
    <3> QED
      BY <3>2, <3>3, <1>1, <1>2, <1>4
  <2>2. CASE ~(team \subseteq Producers)
    <3>1. PICK q \in Producers, c \in Consumers :
            team \subseteq {q, c} /\ PairLinks(q, c, n, s)
      BY <2>2 DEF Pair
    <3>2. q = p
      BY <3>1, UserKinds
    <3> QED
      BY <3>1, <3>2, <1>4, <1>6
  <2> QED
    BY <2>1, <2>2
<1>8. PQuiet(p)
  BY <1>2, <1>3, <1>7 DEF PQuiet, Holding, Linked, enqueue_swing, ProducerPcs, nodevars
<1>9. ~SawTail(p)'
  BY <1>3 DEF SawTail
<1>10. TailLags(n, s) => TailLags(n, s)'
  BY <1>2, <1>5, <1>8, <1>9, TailMoves
<1>11. \A c \in Consumers : PairLinks(p, c, n, s) => PairLinks(p, c, n, s)'
  <2>1. data' = data /\ \A c \in Consumers : call'[c] = call[c]
    BY <1>8, ProducerQuiet DEF PQuiet
  <2> QED
    BY <2>1, <1>3, <1>6 DEF PairLinks
<1> QED
  BY <1>8, <1>10, <1>11, QuietEnqueue

LEMMA EnqueueRoom ==
  ASSUME NEW p \in Producers, p \in team, UNCHANGED team, LfqBase, enqueue_room(p),
         NEW n, NEW s, Queue(n, s),
         IF team \subseteq Producers THEN OnlyProducers(n, s) ELSE Pair(n, s)
  PROVE  /\ LfqBase' /\ Queue(n, s)' /\ Working' /\ UNCHANGED <<enqueued, dequeued>>
         /\ \A i \in 1 .. n : data'[s[i]] = data[s[i]]
         /\ \A q \in Producers : Linked(q)' <=> Linked(q)
         /\ \A c \in Consumers : call'[c] = call[c]
<1>1. PICK m \in QueueNodes \ allocated : newNode(p, m)
  BY DEF enqueue_room
<1>2. /\ size < QueueCapacity /\ call[p].pc = "call" /\ enqueued[p] < Quota
      /\ call' = [call EXCEPT ![p].pc = "tail", ![p].node = m]
      /\ allocated' = allocated \cup {m}
      /\ data' = [data EXCEPT ![m] = <<p, enqueued[p] + 1>>]
      /\ next' = [next EXCEPT ![m] = NoNode]
      /\ UNCHANGED <<head, tail, size, enqueued, dequeued, team>>
  BY <1>1 DEF enqueue_room, newNode
<1>3. /\ p \in Users /\ call \in [Users -> QueueCalls] /\ enqueued[p] + 1 \in Nat
      /\ data \in [QueueNodes -> Values] /\ next \in [QueueNodes -> Nodes]
  BY UserKinds DEF LfqBase, LfqTypeOK
<1>4. OnlyCall(p) /\ call'[p].node = m /\ call'[p].pc = "tail"
  BY <1>2, <1>3 DEF OnlyCall, QueueCalls, ProducerPcs, Nodes
<1>5. /\ \A q \in Producers \ {p} : call'[q] = call[q]
      /\ \A c \in Consumers : call'[c] = call[c]
  BY <1>4, UserKinds DEF OnlyCall, Users
<1>6. /\ Held \subseteq allocated /\ n \in Nat \ {0} /\ s \in [1 .. n -> QueueNodes]
      /\ \A i \in 1 .. n : s[i] \in allocated
  BY DEF Queue
<1>7. /\ \A a \in QueueNodes \ {m} : data'[a] = data[a] /\ next'[a] = next[a]
      /\ data'[m] = <<p, enqueued[p] + 1>> /\ next'[m] = NoNode
  BY <1>2, <1>3
<1>8. /\ Holding(p)' /\ ~Holding(p) /\ ~Linked(p)' /\ ~Linked(p)
      /\ \A q \in Producers \ {p} : (Holding(q)' <=> Holding(q)) /\ (Linked(q)' <=> Linked(q))
  BY <1>2, <1>4, <1>5 DEF Holding, Linked
<1>9. Held' = Held \cup {m} /\ Gone' = Gone
  <2>1. Held' = Held \cup {m}
    BY <1>4, <1>5, <1>8 DEF Held
  <2>2. Gone' = Gone
    BY <1>5 DEF Gone, Removed
  <2> QED
    BY <2>1, <2>2
<1>10. LfqTypeOK'
  <2>1. data' \in [QueueNodes -> Values]
    <3>1. <<p, enqueued[p] + 1>> \in Values
      BY <1>3 DEF Values
    <3> QED
      BY <3>1, <1>2, <1>3
  <2>2. next' \in [QueueNodes -> Nodes]
    BY <1>2, <1>3 DEF Nodes
  <2>3. \A q \in Producers : call'[q].pc \in ProducerPcs
    BY <1>4, <1>5 DEF LfqBase, LfqTypeOK, ProducerPcs
  <2>4. \A c \in Consumers : call'[c].pc \in ConsumerPcs
    BY <1>5 DEF LfqBase, LfqTypeOK
  <2> QED
    BY <2>1, <2>2, <2>3, <2>4, <1>2, <1>4 DEF LfqBase, LfqTypeOK, OnlyCall
<1>11. IdleOK'
  <2>1. \A u \in Users \ team : call'[u] = call[u]
    BY <1>4 DEF OnlyCall
  <2> QED
    BY <2>1, <1>2 DEF LfqBase, IdleOK
<1>12. QuotaOK'
  BY <1>2, <1>5 DEF LfqBase, QuotaOK
<1>13. HeldOK'
  <2>1. \A q \in Producers : Holding(q) => call[q].node \in QueueNodes \ {m}
    <3>1. \A q \in Producers : Holding(q) => call[q].node \in Held
      BY DEF Held
    <3> QED
      BY <3>1, <1>6 DEF LfqBase, HeldOK
  <2>2. ASSUME NEW q \in Producers, Holding(q)'
        PROVE  /\ call'[q].node \in QueueNodes /\ next'[call'[q].node] = NoNode
               /\ data'[call'[q].node] = <<q, enqueued'[q] + 1>>
    <3>1. CASE q = p
      BY <3>1, <1>2, <1>4, <1>7
    <3>2. CASE q # p
      <4>1. Holding(q) /\ call'[q] = call[q]
        BY <2>2, <3>2, <1>5, <1>8
      <4>2. /\ call[q].node \in QueueNodes \ {m} /\ next[call[q].node] = NoNode
            /\ data[call[q].node] = <<q, enqueued[q] + 1>>
        BY <4>1, <2>1 DEF LfqBase, HeldOK
      <4>3. data'[call[q].node] = data[call[q].node] /\ next'[call[q].node] = next[call[q].node]
        BY <4>2, <1>7
      <4> QED
        BY <4>1, <4>2, <4>3, <1>2
    <3> QED
      BY <3>1, <3>2
  <2>3. ASSUME NEW q \in Producers, NEW r \in Producers, Holding(q)', Holding(r)',
               call'[q].node = call'[r].node
        PROVE  q = r
    BY <2>1, <2>3, <1>4, <1>5, <1>8 DEF LfqBase, HeldOK
  <2> QED
    BY <2>2, <2>3 DEF HeldOK
<1>14. \A i \in 1 .. n : s[i] \in QueueNodes \ {m}
  BY <1>6
<1>15. \A i \in 1 .. n : data'[s[i]] = data[s[i]] /\ next'[s[i]] = next[s[i]]
  BY <1>7, <1>14
<1>16. Queue(n, s)'
  <2>1. m \notin Gone
    BY DEF Queue
  <2>2. /\ allocated' = {s[i] : i \in 1 .. n} \cup Held' \cup Gone'
        /\ {s[i] : i \in 1 .. n} \cap Held' = {} /\ {s[i] : i \in 1 .. n} \cap Gone' = {}
        /\ Held' \cap Gone' = {}
    BY <2>1, <1>2, <1>9, <1>14 DEF Queue
  <2> QED
    BY <2>2, <1>2, <1>15 DEF Queue
<1>17. CASE team \subseteq Producers
  <2>1. TailLags(n, s) => TailLags(n, s)'
    <3> SUFFICES ASSUME NEW i \in 1 .. n, tail = s[i], \A q \in Producers : SawAt(q, n, s, i)
                 PROVE  TailLags(n, s)'
      BY DEF TailLags
    <3>1. SawAt(p, n, s, i)' /\ i \in i .. n
      BY <1>4, <1>6 DEF SawAt, SawTail
    <3>2. tail' = s[i]
      BY <1>2
    <3> QED
      BY <3>1, <3>2, <1>4, <1>6, LagsStep
  <2>2. Uncounted' = Uncounted /\ InCall' \subseteq Producers
    BY <1>8 DEF Uncounted, InCall
  <2>3. PICK a \in Nat, b \in Nat : a = Cardinality(InCall') /\ b = Cardinality(Producers) /\ a <= b
    BY <2>2, LfqAssumption, FS_Subset, FS_CardinalityType
  <2>4. size + a <= QueueCapacity + b - 1
    BY <2>3, <1>2, LfqAssumption DEF LfqBase, LfqTypeOK
  <2>5. ProducersCount(n) => ProducersCount(n)'
    BY <2>2, <2>3, <2>4, <1>2 DEF ProducersCount
  <2>6. OnlyProducers(n, s)'
    BY <2>1, <2>5, <1>17 DEF OnlyProducers
  <2>7. Working'
    BY <2>6, <1>2, <1>16, <1>17 DEF Working
  <2> QED
    BY <2>7, <1>2, <1>5, <1>8, <1>10, <1>11, <1>12, <1>13, <1>15, <1>16 DEF LfqBase
<1>18. CASE ~(team \subseteq Producers)
  <2>1. PICK q \in Producers, c \in Consumers :
          team \subseteq {q, c} /\ PairLinks(q, c, n, s) /\ PairCount(q, c, n)
    BY <1>18 DEF Pair
  <2>2. q = p
    BY <2>1, UserKinds
  <2>3. PairLinks(p, c, n, s)'
    <3>1. n > 1 => 2 \in 1 .. n
      BY <1>6
    <3>2. call'[c] = call[c] /\ tail' = tail /\ (n > 1 => data'[s[2]] = data[s[2]])
      BY <3>1, <1>2, <1>5, <1>15
    <3> QED
      BY <3>2, <2>1, <2>2, <1>2, <1>4 DEF PairLinks
  <2>4. PairCount(p, c, n)'
    <3>1. /\ ToCount(p) = 0 /\ ToCount(p)' = 0 /\ ToLink(p) = 0 /\ ToLink(p)' = 1
          /\ ToSubtract(c)' = ToSubtract(c) /\ ToReturn(c)' = ToReturn(c)
          /\ ToSubtract(c) \in 0 .. 1
      BY <1>5, <1>8 DEF ToCount, ToLink, ToSubtract, ToReturn, Removed
    <3>2. PICK x \in Nat : x = n - 1 + ToSubtract(c)
      BY <3>1, <1>6
    <3>3. /\ size = (x + SizeModulus) % SizeModulus /\ x <= QueueCapacity
          /\ size < QueueCapacity /\ SizeModulus \in Nat /\ SizeModulus > QueueCapacity
          /\ QueueCapacity \in Nat
      <4>1. Cardinality(Producers) \in Nat
        BY LfqAssumption, FS_CardinalityType
      <4> QED
        BY <4>1, <3>1, <3>2, <2>1, <2>2, <1>2, LfqAssumption DEF PairCount
    <3>4. x + 1 <= QueueCapacity
      BY <3>3
    <3> QED
      BY <3>1, <3>2, <3>4, <2>1, <2>2, <1>2, <1>6 DEF PairCount
  <2>5. Pair(n, s)'
    BY <2>1, <2>2, <2>3, <2>4, <1>2 DEF Pair
  <2>6. Working'
    BY <2>5, <1>2, <1>16, <1>18 DEF Working
  <2> QED
    BY <2>6, <1>2, <1>5, <1>8, <1>10, <1>11, <1>12, <1>13, <1>15, <1>16 DEF LfqBase
<1> QED
  BY <1>17, <1>18

(* The chain with one node more at its end.                                *)
Linking(n, s, m) == [j \in 1 .. n + 1 |-> IF j = n + 1 THEN m ELSE s[j]]

IsLinked(n, s, m, h, r) ==
  /\ r \in [1 .. h -> QueueNodes] /\ Apart(h, r) /\ r[h] = m
  /\ \A j \in 1 .. n : r[j] = s[j]
  /\ {r[j] : j \in 1 .. h} = {s[j] : j \in 1 .. n} \cup {m}

LEMMA LinkedChain ==
  ASSUME NEW n \in Nat, NEW h \in Nat, h = n + 1, NEW s \in [1 .. n -> QueueNodes],
         Apart(n, s), NEW m \in QueueNodes, m \notin {s[i] : i \in 1 .. n},
         NEW r, r = Linking(n, s, m)
  PROVE  IsLinked(n, s, m, h, r)
<1>1. \A j \in 1 .. h : j = h \/ j \in 1 .. n
  OBVIOUS
<1>2. h \in 1 .. h /\ r[h] = m
  BY DEF Linking
<1>3. \A j \in 1 .. n : j \in 1 .. h /\ r[j] = s[j]
  BY DEF Linking
<1>4. r \in [1 .. h -> QueueNodes]
  <2>1. \A j \in 1 .. h : r[j] \in QueueNodes
    BY <1>1, <1>2, <1>3
  <2>2. r = [j \in 1 .. h |-> r[j]]
    BY DEF Linking
  <2> QED
    BY <2>1, <2>2
<1>5. Apart(h, r)
  <2> SUFFICES ASSUME NEW i \in 1 .. h, NEW j \in 1 .. h, r[i] = r[j] PROVE i = j
    BY DEF Apart
  <2> QED
    BY <1>1, <1>2, <1>3 DEF Apart
<1>6. {r[j] : j \in 1 .. h} = {s[j] : j \in 1 .. n} \cup {m}
  <2>1. \A j \in 1 .. h : r[j] \in {s[i] : i \in 1 .. n} \cup {m}
    BY <1>1, <1>2, <1>3
  <2>2. \A i \in 1 .. n : s[i] \in {r[j] : j \in 1 .. h}
    <3> SUFFICES ASSUME NEW i \in 1 .. n PROVE s[i] \in {r[j] : j \in 1 .. h}
      OBVIOUS
    <3>1. i \in 1 .. h /\ s[i] = r[i]
      BY <1>3
    <3> QED
      BY <3>1
  <2> QED
    BY <2>1, <2>2, <1>2
<1> QED
  BY <1>2, <1>3, <1>4, <1>5, <1>6 DEF IsLinked

(* What a successful exchange of next does to the chain.                   *)
LinkStep(p, n, s, m, h, r) ==
  /\ m = call[p].node /\ Holding(p) /\ h = n + 1 /\ r = Linking(n, s, m)
  /\ call[p].pc = "link" /\ call'[p].pc = "swing" /\ OnlyCall(p)
  /\ call[p].old = s[n] /\ call'[p].old = s[n] /\ call'[p].node = m
  /\ next' = [next EXCEPT ![s[n]] = m]
  /\ UNCHANGED <<head, tail, size, allocated, data, team, enqueued, dequeued>>
  /\ m \in QueueNodes /\ IsLinked(n, s, m, h, r)

LEMMA LinkWorks ==
  ASSUME NEW p \in Producers, p \in team, UNCHANGED team, LfqBase, enqueue_link(p),
         next[call[p].old] = NoNode, NEW n, NEW s, Queue(n, s),
         IF team \subseteq Producers THEN OnlyProducers(n, s) ELSE Pair(n, s)
  PROVE  \E m, h, r : LinkStep(p, n, s, m, h, r)
<1>1. p \in Users /\ call \in [Users -> QueueCalls]
  BY UserKinds DEF LfqBase, LfqTypeOK
<1>2. call' = [call EXCEPT ![p].pc = "swing"] /\ call[p].pc = "link"
  BY DEF enqueue_link, Moves
<1>3. /\ OnlyCall(p) /\ call'[p].node = call[p].node /\ call'[p].old = call[p].old
      /\ call'[p].pc = "swing"
  BY <1>1, <1>2 DEF OnlyCall, QueueCalls, ProducerPcs
<1>4. /\ n \in Nat \ {0} /\ s \in [1 .. n -> QueueNodes] /\ Apart(n, s)
      /\ \A i \in 1 .. n : next[s[i]] = IF i < n THEN s[i + 1] ELSE NoNode
      /\ {s[i] : i \in 1 .. n} \cap Held = {}
  BY DEF Queue
<1>5. call[p].old = s[n]
  <2>1. PICK j \in 1 .. n : call[p].old = s[j]
    BY <1>2, OldInChain
  <2>2. j < n => j + 1 \in 1 .. n
    BY <1>4
  <2>3. j < n => s[j + 1] \in QueueNodes /\ next[s[j]] = s[j + 1]
    BY <2>2, <1>4
  <2>4. ~(j < n)
    BY <2>1, <2>3, LfqAssumption
  <2> QED
    BY <2>1, <2>4, <1>4
<1>6. PICK m : m = call[p].node
  OBVIOUS
<1>7. Holding(p) /\ m \in QueueNodes /\ m \in Held
  BY <1>2, <1>6 DEF LfqBase, HeldOK, Holding, Held
<1>8. PICK h \in Nat : h = n + 1
  BY <1>4
<1>9. PICK r : r = Linking(n, s, m)
  OBVIOUS
<1>10. m \notin {s[i] : i \in 1 .. n}
  BY <1>4, <1>7
<1>11. IsLinked(n, s, m, h, r)
  BY <1>4, <1>7, <1>8, <1>9, <1>10, LinkedChain
<1>12. /\ next' = [next EXCEPT ![s[n]] = m]
       /\ UNCHANGED <<head, tail, size, allocated, data, team, enqueued, dequeued>>
  BY <1>5, <1>6 DEF enqueue_link
<1>13. LinkStep(p, n, s, m, h, r)
  BY <1>2, <1>3, <1>5, <1>6, <1>7, <1>8, <1>9, <1>11, <1>12 DEF LinkStep
<1> QED
  BY <1>13

LEMMA EnqueueLink ==
  ASSUME NEW p \in Producers, p \in team, LfqBase, NEW n, NEW s, Queue(n, s),
         IF team \subseteq Producers THEN OnlyProducers(n, s) ELSE Pair(n, s),
         NEW m, NEW h, NEW r, LinkStep(p, n, s, m, h, r)
  PROVE  LfqBase' /\ Queue(h, r)' /\ Working'
<1>1. /\ m = call[p].node /\ Holding(p) /\ h = n + 1
      /\ call[p].pc = "link" /\ call'[p].pc = "swing" /\ OnlyCall(p)
      /\ call[p].old = s[n] /\ call'[p].old = s[n] /\ call'[p].node = m
      /\ next' = [next EXCEPT ![s[n]] = m] /\ m \in QueueNodes
      /\ UNCHANGED <<head, tail, size, allocated, data, team, enqueued, dequeued>>
  BY DEF LinkStep
<1>2. /\ r \in [1 .. h -> QueueNodes] /\ Apart(h, r) /\ r[h] = m
      /\ \A j \in 1 .. n : r[j] = s[j]
      /\ {r[j] : j \in 1 .. h} = {s[j] : j \in 1 .. n} \cup {m}
  BY DEF LinkStep, IsLinked
<1>3. /\ n \in Nat \ {0} /\ s \in [1 .. n -> QueueNodes] /\ Apart(n, s) /\ head = s[1]
      /\ \A i \in 1 .. n : next[s[i]] = IF i < n THEN s[i + 1] ELSE NoNode
  BY DEF Queue
<1>4. h \in Nat \ {0} /\ n \in 1 .. n /\ n \in 1 .. h /\ h \in 1 .. h /\ 1 \in 1 .. n
  BY <1>1, <1>3
<1>5. /\ \A q \in Producers \ {p} : call'[q] = call[q]
      /\ \A c \in Consumers : call'[c] = call[c]
  BY <1>1, UserKinds DEF OnlyCall, Users
<1>6. /\ ~Holding(p)' /\ Holding(p) /\ Linked(p)' /\ ~Linked(p)
      /\ \A q \in Producers \ {p} : (Holding(q)' <=> Holding(q)) /\ (Linked(q)' <=> Linked(q))
  BY <1>1, <1>5 DEF Holding, Linked
<1>7. /\ Held = {call[q].node : q \in {x \in Producers : Holding(x)}}
      /\ Held' = Held \ {m} /\ m \in Held /\ Gone' = Gone
  <2>1. \A q \in Producers \ {p} : Holding(q) => call[q].node # m
    BY <1>1 DEF LfqBase, HeldOK
  <2>2. Held' = Held \ {m} /\ m \in Held
    BY <2>1, <1>1, <1>5, <1>6 DEF Held
  <2>3. Gone' = Gone
    BY <1>5 DEF Gone, Removed
  <2> QED
    BY <2>2, <2>3 DEF Held
<1>8. next \in [QueueNodes -> Nodes] /\ s[n] \in QueueNodes /\ s[n] \notin Held
  <2>1. s[n] \in {s[i] : i \in 1 .. n}
    BY <1>4
  <2> QED
    BY <2>1, <1>3, <1>4 DEF LfqBase, LfqTypeOK, Queue
<1>9. next'[s[n]] = m /\ \A a \in QueueNodes \ {s[n]} : next'[a] = next[a]
  BY <1>1, <1>8
<1>10. LfqTypeOK'
  <2>1. next' \in [QueueNodes -> Nodes]
    BY <1>1, <1>8 DEF Nodes
  <2>2. \A q \in Producers : call'[q].pc \in ProducerPcs
    BY <1>1, <1>5 DEF LfqBase, LfqTypeOK, ProducerPcs
  <2>3. \A c \in Consumers : call'[c].pc \in ConsumerPcs
    BY <1>5 DEF LfqBase, LfqTypeOK
  <2> QED
    BY <2>1, <2>2, <2>3, <1>1 DEF LfqBase, LfqTypeOK, OnlyCall
<1>11. IdleOK'
  <2>1. \A u \in Users \ team : call'[u] = call[u]
    BY <1>1 DEF OnlyCall
  <2> QED
    BY <2>1, <1>1 DEF LfqBase, IdleOK
<1>12. QuotaOK'
  BY <1>1, <1>5 DEF LfqBase, QuotaOK
<1>13. HeldOK'
  <2>1. ASSUME NEW q \in Producers, Holding(q)'
        PROVE  /\ call'[q].node \in QueueNodes /\ next'[call'[q].node] = NoNode
               /\ data'[call'[q].node] = <<q, enqueued'[q] + 1>>
    <3>1. q # p /\ Holding(q) /\ call'[q] = call[q]
      BY <2>1, <1>5, <1>6
    <3>2. call[q].node \in Held
      BY <3>1, <1>7
    <3>3. /\ call[q].node \in QueueNodes \ {s[n]} /\ next[call[q].node] = NoNode
          /\ data[call[q].node] = <<q, enqueued[q] + 1>>
      BY <3>1, <3>2, <1>8 DEF LfqBase, HeldOK
    <3> QED
      BY <3>1, <3>3, <1>1, <1>9
  <2>2. ASSUME NEW q \in Producers, NEW x \in Producers, Holding(q)', Holding(x)',
               call'[q].node = call'[x].node
        PROVE  q = x
    BY <2>2, <1>5, <1>6 DEF LfqBase, HeldOK
  <2> QED
    BY <2>1, <2>2 DEF HeldOK
<1>14. Queue(h, r)'
  <2>1. head' = r[1]
    BY <1>1, <1>2, <1>3, <1>4
  <2>2. ASSUME NEW i \in 1 .. h PROVE next'[r[i]] = IF i < h THEN r[i + 1] ELSE NoNode
    <3>1. CASE i = h
      <4>1. m # s[n] /\ next[m] = NoNode
        BY <1>1, <1>7, <1>8 DEF LfqBase, HeldOK
      <4> QED
        BY <4>1, <3>1, <1>1, <1>2, <1>9
    <3>2. CASE i = n
      BY <3>2, <1>1, <1>2, <1>3, <1>4, <1>9
    <3>3. CASE i < n
      <4>1. i \in 1 .. n /\ i + 1 \in 1 .. n /\ i < h
        BY <3>3, <1>1, <1>3
      <4>2. s[i] # s[n] /\ s[i] \in QueueNodes
        BY <3>3, <4>1, <1>3, <1>4 DEF Apart
      <4>3. r[i] = s[i] /\ r[i + 1] = s[i + 1] /\ next[s[i]] = s[i + 1]
        BY <4>1, <3>3, <1>2, <1>3
      <4> QED
        BY <4>1, <4>2, <4>3, <1>9
    <3> QED
      BY <3>1, <3>2, <3>3, <1>1, <1>3
  <2>3. /\ allocated' = {r[i] : i \in 1 .. h} \cup Held' \cup Gone'
        /\ {r[i] : i \in 1 .. h} \cap Held' = {} /\ {r[i] : i \in 1 .. h} \cap Gone' = {}
        /\ Held' \cap Gone' = {}
    <3>1. /\ allocated = {s[i] : i \in 1 .. n} \cup Held \cup Gone
          /\ {s[i] : i \in 1 .. n} \cap Held = {} /\ {s[i] : i \in 1 .. n} \cap Gone = {}
          /\ Held \cap Gone = {}
      BY DEF Queue
    <3> QED
      BY <3>1, <1>1, <1>2, <1>7
  <2> QED
    BY <2>1, <2>2, <2>3, <1>2, <1>4 DEF Queue
<1>15. CASE team \subseteq Producers
  <2>1. PICK i \in 1 .. n : tail = s[i] /\ \A q \in Producers : SawAt(q, n, s, i)
    BY <1>15 DEF OnlyProducers, TailLags
  <2>2. i \in 1 .. h /\ tail' = r[i]
    BY <2>1, <1>1, <1>2, <1>3
  <2>3. ASSUME NEW q \in Producers \ {p} PROVE SawAt(q, h, r, i)'
    <3> SUFFICES ASSUME SawTail(q)'
                 PROVE  \E j \in 1 .. i :
                          /\ call'[q].old = r[j]
                          /\ call'[q].pc = "help" => j < h /\ call'[q].succ = r[j + 1]
                          /\ call'[q].pc = "swing" => j < h /\ call'[q].node = r[j + 1]
      BY DEF SawAt
    <3>1. call'[q] = call[q] /\ SawTail(q) /\ SawAt(q, n, s, i)
      BY <2>1, <1>5 DEF SawTail
    <3>2. PICK j \in 1 .. i : /\ call[q].old = s[j]
                              /\ call[q].pc = "help" => j < n /\ call[q].succ = s[j + 1]
                              /\ call[q].pc = "swing" => j < n /\ call[q].node = s[j + 1]
      BY <3>1 DEF SawAt
    <3>3. j \in 1 .. n /\ r[j] = s[j] /\ (j < n => j < h /\ r[j + 1] = s[j + 1])
      <4>1. j \in 1 .. n /\ (j < n => j < h /\ j + 1 \in 1 .. n)
        BY <1>1, <1>3
      <4> QED
        BY <4>1, <1>2
    <3> QED
      BY <3>1, <3>2, <3>3
  <2>4. SawAt(p, h, r, i)'
    <3>1. PICK j \in 1 .. i : call[p].old = s[j]
      BY <2>1, <1>1 DEF SawAt, SawTail
    <3>2. j = n
      <4>1. j \in 1 .. n
        BY <1>3
      <4> QED
        BY <4>1, <3>1, <1>1, <1>3, <1>4 DEF Apart
    <3>3. j < h /\ r[j] = s[n] /\ r[j + 1] = m
      BY <3>2, <1>1, <1>2, <1>3, <1>4
    <3> QED
      BY <3>3, <1>1 DEF SawAt
  <2>5. TailLags(h, r)'
    BY <2>2, <2>3, <2>4 DEF TailLags
  <2>6. Uncounted' = Uncounted \cup {p} /\ p \notin Uncounted /\ InCall' = InCall
    BY <1>1, <1>5, <1>6 DEF Uncounted, InCall
  <2>7. IsFiniteSet(Uncounted)
    BY LfqAssumption, FS_Subset DEF Uncounted
  <2>8. Cardinality(Uncounted') = Cardinality(Uncounted) + 1 /\ Cardinality(Uncounted) \in Nat
    BY <2>6, <2>7, FS_AddElement, FS_CardinalityType
  <2>9. ProducersCount(h)'
    <3>1. ProducersCount(n)
      BY <1>15 DEF OnlyProducers
    <3>2. PICK x \in Nat : x = Cardinality(Uncounted)
      BY <2>8
    <3>3. size \in Nat /\ n - 1 = size + x
      BY <3>1, <3>2 DEF LfqBase, LfqTypeOK, ProducersCount
    <3>4. h - 1 = size + (x + 1)
      BY <3>3, <1>1, <1>3
    <3> QED
      BY <3>1, <3>2, <3>4, <2>6, <2>8, <1>1 DEF ProducersCount
  <2>10. OnlyProducers(h, r)'
    BY <2>5, <2>9 DEF OnlyProducers
  <2>11. Working'
    BY <2>10, <1>1, <1>14, <1>15 DEF Working
  <2> QED
    BY <2>11, <1>10, <1>11, <1>12, <1>13, <1>14 DEF LfqBase
<1>16. CASE ~(team \subseteq Producers)
  <2>1. PICK q \in Producers, c \in Consumers :
          team \subseteq {q, c} /\ PairLinks(q, c, n, s) /\ PairCount(q, c, n)
    BY <1>16 DEF Pair
  <2>2. q = p
    BY <2>1, UserKinds
  <2>3. PairLinks(p, c, h, r)'
    <3>1. /\ call'[c] = call[c] /\ tail' = tail /\ data' = data /\ r[1] = s[1]
          /\ n > 1 => h > 1 /\ r[2] = s[2]
      <4>1. n > 1 => h > 1 /\ 2 \in 1 .. n
        BY <1>1, <1>3
      <4> QED
        BY <4>1, <1>1, <1>2, <1>4, <1>5
    <3> QED
      BY <3>1, <2>1, <2>2, <1>1, <1>2 DEF PairLinks
  <2>4. PairCount(p, c, h)'
    <3>1. /\ ToCount(p) = 0 /\ ToCount(p)' = 1 /\ ToLink(p) = 1 /\ ToLink(p)' = 0
          /\ ToSubtract(c)' = ToSubtract(c) /\ ToReturn(c)' = ToReturn(c)
          /\ ToSubtract(c) \in 0 .. 1 /\ ToReturn(c) \in 0 .. 1
      BY <1>5, <1>6 DEF ToCount, ToLink, ToSubtract, ToReturn, Removed
    <3>2. PICK a \in 0 .. 1, b \in 0 .. 1 : a = ToSubtract(c) /\ b = ToReturn(c)
      BY <3>1
    <3>3. PICK M \in Nat, Q \in Nat, d \in Nat, e \in Nat :
            M = SizeModulus /\ Q = QueueCapacity /\ d = Len(dequeued[c]) /\ e = enqueued[p]
      BY LfqAssumption, LenProperties DEF LfqBase, LfqTypeOK
    <3>4. /\ size = (n - 1 + a + M - 0) % M /\ n - 1 + a + 1 <= Q
          /\ n - 1 + d + b = e + 0
      BY <3>1, <3>2, <3>3, <2>1, <2>2 DEF PairCount
    <3>5. /\ size = (h - 1 + a + M - 1) % M /\ h - 1 + a + 0 <= Q
          /\ h - 1 + d + b = e + 1
      <4>1. n - 1 + a + M - 0 = h - 1 + a + M - 1
        BY <1>1, <1>3
      <4>2. size = (h - 1 + a + M - 1) % M
        BY <4>1, <3>4
      <4>3. n - 1 + a + 1 <= Q /\ n - 1 + d + b = e + 0
        BY <3>4
      <4>4. h - 1 + a + 0 <= Q /\ h - 1 + d + b = e + 1
        BY <4>3, <1>1, <1>3
      <4> QED
        BY <4>2, <4>4
    <3> QED
      BY <3>1, <3>2, <3>3, <3>5, <1>1 DEF PairCount
  <2>5. Pair(h, r)'
    BY <2>1, <2>2, <2>3, <2>4, <1>1 DEF Pair
  <2>6. Working'
    BY <2>5, <1>1, <1>14, <1>16 DEF Working
  <2> QED
    BY <2>6, <1>10, <1>11, <1>12, <1>13, <1>14 DEF LfqBase
<1> QED
  BY <1>15, <1>16

LEMMA EnqueueCount ==
  ASSUME NEW p \in Producers, p \in team, UNCHANGED team, LfqBase, enqueue_count(p),
         NEW n, NEW s, Queue(n, s),
         IF team \subseteq Producers THEN OnlyProducers(n, s) ELSE Pair(n, s)
  PROVE  /\ LfqBase' /\ Queue(n, s)' /\ Working' /\ UNCHANGED <<data, dequeued>>
         /\ Linked(p) /\ ~Linked(p)' /\ enqueued' = [enqueued EXCEPT ![p] = @ + 1]
         /\ \A q \in Producers \ {p} : call'[q] = call[q]
         /\ \A c \in Consumers : call'[c] = call[c]
<1>1. p \in Users /\ call \in [Users -> QueueCalls] /\ enqueued \in [Producers -> Nat]
  BY UserKinds DEF LfqBase, LfqTypeOK
<1>2. /\ call[p].pc = "count" /\ call' = [call EXCEPT ![p].pc = "call"]
      /\ size' = (size + 1) % SizeModulus /\ enqueued' = [enqueued EXCEPT ![p] = @ + 1]
      /\ UNCHANGED <<head, tail, allocated, data, next, dequeued, team>>
  BY DEF enqueue_count, Moves, nodevars
<1>3. OnlyCall(p) /\ call'[p].node = call[p].node /\ call'[p].pc = "call"
  BY <1>1, <1>2 DEF OnlyCall, QueueCalls, ProducerPcs
<1>4. /\ \A q \in Producers \ {p} : call'[q] = call[q] /\ enqueued'[q] = enqueued[q]
      /\ \A c \in Consumers : call'[c] = call[c]
      /\ enqueued'[p] = enqueued[p] + 1 /\ enqueued' \in [Producers -> Nat]
  BY <1>1, <1>2, <1>3, UserKinds DEF OnlyCall, Users
<1>5. /\ ~Holding(p) /\ ~Holding(p)' /\ Linked(p) /\ ~Linked(p)'
      /\ \A q \in Producers \ {p} : (Holding(q)' <=> Holding(q)) /\ (Linked(q)' <=> Linked(q))
  BY <1>2, <1>3, <1>4 DEF Holding, Linked
<1>6. Held' = Held /\ Gone' = Gone
  <2>1. Held' = Held
    BY <1>4, <1>5 DEF Held
  <2>2. Gone' = Gone
    BY <1>4 DEF Gone, Removed
  <2> QED
    BY <2>1, <2>2
<1>7. Queue(n, s)'
  BY <1>2, <1>6, QueueKept
<1>8. PICK M \in Nat, Q \in Nat, b \in Nat :
        M = SizeModulus /\ Q = QueueCapacity /\ b = Cardinality(Producers) /\ M > Q + b
  BY LfqAssumption, FS_CardinalityType
<1>9. size \in Nat /\ size < M /\ size' = (size + 1) % M
  BY <1>2, <1>8 DEF LfqBase, LfqTypeOK
<1>10. LfqTypeOK'
  <2>1. size' \in 0 .. SizeModulus - 1
    BY <1>8, <1>9
  <2>2. \A q \in Producers : call'[q].pc \in ProducerPcs
    BY <1>3, <1>4 DEF LfqBase, LfqTypeOK, ProducerPcs
  <2>3. \A c \in Consumers : call'[c].pc \in ConsumerPcs
    BY <1>4 DEF LfqBase, LfqTypeOK
  <2> QED
    BY <2>1, <2>2, <2>3, <1>2, <1>3, <1>4 DEF LfqBase, LfqTypeOK, OnlyCall
<1>11. IdleOK'
  <2>1. \A u \in Users \ team : call'[u] = call[u] /\ (u \in Producers => enqueued'[u] = enqueued[u])
    BY <1>3, <1>4 DEF OnlyCall
  <2> QED
    BY <2>1, <1>2 DEF LfqBase, IdleOK
<1>12. QuotaOK'
  BY <1>2, <1>3, <1>4 DEF LfqBase, QuotaOK
<1>13. HeldOK'
  <2>1. \A q \in Producers : Holding(q)' => Holding(q) /\ q # p
    BY <1>5
  <2> QED
    BY <2>1, <1>2, <1>4 DEF LfqBase, HeldOK
<1>14. n \in Nat \ {0}
  BY DEF Queue
<1>15. CASE team \subseteq Producers
  <2>1. TailLags(n, s) => TailLags(n, s)'
    <3> SUFFICES ASSUME NEW i \in 1 .. n, tail = s[i], \A q \in Producers : SawAt(q, n, s, i)
                 PROVE  TailLags(n, s)'
      BY DEF TailLags
    <3>1. SawAt(p, n, s, i)' /\ i \in i .. n
      BY <1>3, <1>14 DEF SawAt, SawTail
    <3>2. tail' = s[i]
      BY <1>2
    <3> QED
      BY <3>1, <3>2, <1>3, <1>14, LagsStep
  <2>2. /\ Uncounted' = Uncounted \ {p} /\ p \in Uncounted
        /\ InCall' = InCall \ {p} /\ p \in InCall
    BY <1>2, <1>3, <1>4, <1>5 DEF Uncounted, InCall
  <2>3. IsFiniteSet(Uncounted) /\ IsFiniteSet(InCall)
    BY LfqAssumption, FS_Subset DEF Uncounted, InCall
  <2>4. PICK x \in Nat, y \in Nat : x = Cardinality(Uncounted) /\ y = Cardinality(InCall)
    BY <2>3, FS_CardinalityType
  <2>5. Cardinality(Uncounted') = x - 1 /\ Cardinality(InCall') = y - 1
    BY <2>2, <2>3, <2>4, FS_RemoveElement
  <2>6. ProducersCount(n)
    BY <1>15 DEF OnlyProducers
  <2>7. n - 1 = size + x /\ size + y <= Q + b - 1
    BY <2>4, <2>6, <1>8 DEF ProducersCount
  <2>8. y > 0
    BY <2>2, <2>3, <2>4, FS_EmptySet
  <2>9. size' = size + 1
    BY <2>7, <2>8, <1>8, <1>9
  <2>10. n - 1 = size' + (x - 1) /\ size' + (y - 1) <= Q + b - 1
    BY <2>7, <2>9, <1>9, <1>14
  <2>11. ProducersCount(n)'
    BY <2>5, <2>10, <1>8 DEF ProducersCount
  <2>12. OnlyProducers(n, s)'
    BY <2>1, <2>11, <1>15 DEF OnlyProducers
  <2>13. Working'
    BY <2>12, <1>2, <1>7, <1>15 DEF Working
  <2> QED
    BY <2>13, <1>2, <1>4, <1>5, <1>7, <1>10, <1>11, <1>12, <1>13 DEF LfqBase
<1>16. CASE ~(team \subseteq Producers)
  <2>1. PICK q \in Producers, c \in Consumers :
          team \subseteq {q, c} /\ PairLinks(q, c, n, s) /\ PairCount(q, c, n)
    BY <1>16 DEF Pair
  <2>2. q = p
    BY <2>1, UserKinds
  <2>3. PairLinks(p, c, n, s)'
    BY <2>1, <2>2, <1>2, <1>3, <1>4 DEF PairLinks
  <2>4. PairCount(p, c, n)'
    <3>1. /\ ToCount(p) = 1 /\ ToCount(p)' = 0 /\ ToLink(p) = 0 /\ ToLink(p)' = 0
          /\ ToSubtract(c)' = ToSubtract(c) /\ ToReturn(c)' = ToReturn(c)
          /\ ToSubtract(c) \in 0 .. 1 /\ ToReturn(c) \in 0 .. 1
      BY <1>4, <1>5 DEF ToCount, ToLink, ToSubtract, ToReturn, Removed
    <3>2. PICK x \in Nat, r \in 0 .. 1 : x = n - 1 + ToSubtract(c) /\ r = ToReturn(c)
      BY <3>1, <1>14
    <3>3. PICK d \in Nat, e \in Nat : d = Len(dequeued[c]) /\ e = enqueued[p]
      BY LenProperties DEF LfqBase, LfqTypeOK
    <3>4. size = (x + M - 1) % M /\ x <= Q /\ n - 1 + d + r = e + 1
      BY <3>1, <3>2, <3>3, <2>1, <2>2, <1>8 DEF PairCount
    <3>5. x < M /\ M > 0
      BY <3>4, <1>8
    <3>6. size' = (x + M) % M
      <4>1. CASE x = 0
        <5>1. size = M - 1
          BY <4>1, <3>4, <3>5
        <5> QED
          BY <5>1, <4>1, <3>5, <1>9
      <4>2. CASE x > 0
        <5>1. size = x - 1
          BY <4>2, <3>4, <3>5
        <5> QED
          BY <5>1, <3>5, <1>9
      <4> QED
        BY <4>1, <4>2
    <3>7. size' = (x + M - 0) % M /\ x + 0 <= Q /\ n - 1 + d + r = (e + 1) + 0
      BY <3>4, <3>6, <1>14
    <3> QED
      BY <3>1, <3>2, <3>3, <3>7, <1>2, <1>4, <1>8 DEF PairCount
  <2>5. Pair(n, s)'
    BY <2>1, <2>2, <2>3, <2>4, <1>2 DEF Pair
  <2>6. Working'
    BY <2>5, <1>2, <1>7, <1>16 DEF Working
  <2> QED
    BY <2>6, <1>2, <1>4, <1>5, <1>7, <1>10, <1>11, <1>12, <1>13 DEF LfqBase
<1> QED
  BY <1>15, <1>16

-----------------------------------------------------------------------------
(* A consumer in the team is the one of a pair.                            *)
LEMMA ConsumerInPair ==
  ASSUME NEW c \in Consumers, c \in team, LfqBase, NEW n, NEW s,
         IF team \subseteq Producers THEN OnlyProducers(n, s) ELSE Pair(n, s)
  PROVE  /\ ~(team \subseteq Producers)
         /\ \E p \in Producers :
              team \subseteq {p, c} /\ PairLinks(p, c, n, s) /\ PairCount(p, c, n)
         /\ \A d \in Consumers \ {c} : call[d].pc = "call"
<1>1. c \notin Producers
  BY LfqAssumption
<1>2. ~(team \subseteq Producers)
  BY <1>1
<1>3. PICK p \in Producers, d \in Consumers :
        team \subseteq {p, d} /\ PairLinks(p, d, n, s) /\ PairCount(p, d, n)
  BY <1>2 DEF Pair
<1>4. d = c
  BY <1>1, <1>3
<1>5. \A x \in Consumers \ {c} : x \in Users \ team
  BY <1>3, <1>4, LfqAssumption DEF Users
<1> QED
  BY <1>2, <1>3, <1>4, <1>5 DEF LfqBase, IdleOK

(* A step of dequeue that takes nothing out.                               *)
CQuiet(c) ==
  /\ UNCHANGED <<head, tail, size, allocated, data, next, team, enqueued, dequeued>>
  /\ OnlyCall(c) /\ ~Removed(c) /\ ~Removed(c)'
  /\ call'[c].pc \in ConsumerPcs
  /\ call'[c].pc # "call" => Len(dequeued[c]) < Quota

LEMMA QuietDequeue ==
  ASSUME NEW c \in Consumers, c \in team, CQuiet(c), LfqBase, NEW n, NEW s, Queue(n, s),
         IF team \subseteq Producers THEN OnlyProducers(n, s) ELSE Pair(n, s),
         \A p \in Producers : PairLinks(p, c, n, s) => PairLinks(p, c, n, s)'
  PROVE  LfqBase' /\ Queue(n, s)' /\ Working' /\ \A p \in Producers : call'[p] = call[p]
<1>1. /\ UNCHANGED <<head, tail, size, allocated, data, next, team, enqueued, dequeued>>
      /\ OnlyCall(c) /\ ~Removed(c) /\ ~Removed(c)' /\ call'[c].pc \in ConsumerPcs
      /\ call'[c].pc # "call" => Len(dequeued[c]) < Quota
  BY DEF CQuiet
<1>2. /\ \A p \in Producers : call'[p] = call[p]
      /\ \A d \in Consumers \ {c} : call'[d] = call[d]
  BY <1>1, LfqAssumption DEF OnlyCall, Users
<1>3. Held' = Held /\ Gone' = Gone
  <2>1. Held' = Held
    BY <1>2 DEF Held, Holding
  <2>2. \A d \in Consumers : Removed(d)' <=> Removed(d)
    BY <1>1, <1>2 DEF Removed
  <2>3. \A d \in Consumers : Removed(d) => call'[d] = call[d]
    BY <1>1, <1>2
  <2> QED
    BY <2>1, <2>2, <2>3 DEF Gone
<1>4. Queue(n, s)'
  BY <1>1, <1>3, QueueKept
<1>5. LfqTypeOK'
  <2>1. \A p \in Producers : call'[p].pc \in ProducerPcs
    BY <1>2 DEF LfqBase, LfqTypeOK
  <2>2. \A d \in Consumers : call'[d].pc \in ConsumerPcs
    BY <1>1, <1>2 DEF LfqBase, LfqTypeOK
  <2> QED
    BY <2>1, <2>2, <1>1 DEF LfqBase, LfqTypeOK, OnlyCall
<1>6. IdleOK'
  <2>1. \A u \in Users \ team : call'[u] = call[u]
    BY <1>1 DEF OnlyCall
  <2> QED
    BY <2>1, <1>1 DEF LfqBase, IdleOK
<1>7. QuotaOK'
  BY <1>1, <1>2 DEF LfqBase, QuotaOK
<1>8. HeldOK'
  <2>1. \A p \in Producers : Holding(p)' <=> Holding(p)
    BY <1>2 DEF Holding
  <2> QED
    BY <2>1, <1>1, <1>2 DEF LfqBase, HeldOK
<1>9. PICK p \in Producers :
        team \subseteq {p, c} /\ PairLinks(p, c, n, s) /\ PairCount(p, c, n)
  BY ConsumerInPair
<1>10. PairCount(p, c, n)'
  <2>1. /\ ToCount(p)' = ToCount(p) /\ ToLink(p)' = ToLink(p)
        /\ ToSubtract(c)' = ToSubtract(c) /\ ToReturn(c)' = ToReturn(c)
    BY <1>1, <1>2 DEF ToCount, ToLink, ToSubtract, ToReturn, Removed, Linked, Holding
  <2> QED
    BY <2>1, <1>1, <1>9 DEF PairCount
<1>11. Pair(n, s)'
  BY <1>1, <1>9, <1>10 DEF Pair
<1>12. ~(team' \subseteq Producers)
  BY <1>1, ConsumerInPair
<1> QED
  BY <1>2, <1>4, <1>5, <1>6, <1>7, <1>8, <1>11, <1>12 DEF LfqBase, Working

(* The steps of dequeue up to the exchange of head.                        *)
LEMMA DequeueQuiet ==
  ASSUME NEW c \in Consumers, c \in team, UNCHANGED team, LfqBase,
         \/ dequeue_head(c) \/ dequeue_next(c) \/ dequeue_recheck(c) \/ dequeue_read(c)
         \/ dequeue_cas(c) /\ head # call[c].old,
         NEW n, NEW s, Queue(n, s),
         IF team \subseteq Producers THEN OnlyProducers(n, s) ELSE Pair(n, s)
  PROVE  CQuiet(c) /\ LfqBase' /\ Queue(n, s)' /\ Working'
         /\ \A p \in Producers : call'[p] = call[p]
<1>1. /\ c \in Users /\ call \in [Users -> QueueCalls] /\ head \in Nodes
      /\ next \in [QueueNodes -> Nodes] /\ data \in [QueueNodes -> Values]
  BY DEF LfqBase, LfqTypeOK, Users
<1>2. PICK p \in Producers :
        team \subseteq {p, c} /\ PairLinks(p, c, n, s) /\ PairCount(p, c, n)
  BY ConsumerInPair
<1>3. /\ n \in Nat \ {0} /\ s \in [1 .. n -> QueueNodes] /\ head = s[1] /\ 1 \in 1 .. n
      /\ next[s[1]] = IF 1 < n THEN s[2] ELSE NoNode
      /\ n > 1 => s[2] \in QueueNodes
  BY DEF Queue
<1>4. call[c].pc # "call" => Len(dequeued[c]) < Quota
  BY DEF LfqBase, QuotaOK
<1>5. ASSUME CQuiet(c), \A q \in Producers : PairLinks(q, c, n, s) => PairLinks(q, c, n, s)'
      PROVE  CQuiet(c) /\ LfqBase' /\ Queue(n, s)' /\ Working'
             /\ \A q \in Producers : call'[q] = call[q]
  BY <1>5, QuietDequeue
<1>6. \A q \in Producers : q \in Users \ {c}
  BY LfqAssumption DEF Users
<1>7. CASE dequeue_head(c)
  <2>1. /\ call[c].pc = "call" /\ Len(dequeued[c]) < Quota
        /\ call' = [call EXCEPT ![c].pc = "next", ![c].old = head]
    BY <1>7 DEF dequeue_head
  <2>2. OnlyCall(c) /\ call'[c].pc = "next" /\ call'[c].old = head
    BY <2>1, <1>1 DEF OnlyCall, QueueCalls, ConsumerPcs
  <2>3. CQuiet(c)
    BY <2>1, <2>2, <1>7 DEF CQuiet, Removed, ConsumerPcs, dequeue_head, nodevars
  <2>4. \A q \in Producers : PairLinks(q, c, n, s) => PairLinks(q, c, n, s)'
    BY <2>2, <2>3, <1>3, <1>6 DEF PairLinks, CQuiet, OnlyCall
  <2> QED
    BY <2>3, <2>4, <1>5
<1>8. CASE dequeue_next(c)
  <2>1. PICK m \in Nodes : m = next[call[c].old]
    BY <1>1, <1>2, <1>3, <1>8 DEF dequeue_next, PairLinks
  <2>2. call[c].pc = "next" /\ call' = [call EXCEPT ![c].pc = "recheck", ![c].succ = m]
    BY <2>1, <1>8 DEF dequeue_next
  <2>3. OnlyCall(c) /\ call'[c].pc = "recheck" /\ call'[c].old = call[c].old /\ call'[c].succ = m
    BY <2>2, <1>1 DEF OnlyCall, QueueCalls, ConsumerPcs
  <2>4. CQuiet(c)
    BY <2>2, <2>3, <1>4, <1>8 DEF CQuiet, Removed, ConsumerPcs, dequeue_next, nodevars
  <2>5. \A q \in Producers : PairLinks(q, c, n, s) => PairLinks(q, c, n, s)'
    BY <2>1, <2>2, <2>3, <2>4, <1>3, <1>6 DEF PairLinks, CQuiet, OnlyCall
  <2> QED
    BY <2>4, <2>5, <1>5
<1>9. CASE dequeue_recheck(c)
  <2>1. PICK b \in {"read", "call"} :
          b = IF call[c].old = head /\ call[c].succ # NoNode THEN "read" ELSE "call"
    OBVIOUS
  <2>2. call[c].pc = "recheck" /\ call' = [call EXCEPT ![c].pc = b]
    BY <2>1, <1>9 DEF dequeue_recheck, Moves
  <2>3. /\ OnlyCall(c) /\ call'[c].pc = b /\ call'[c].old = call[c].old
        /\ call'[c].succ = call[c].succ
    BY <2>2, <1>1 DEF OnlyCall, QueueCalls, ConsumerPcs, ProducerPcs
  <2>4. CQuiet(c)
    BY <2>2, <2>3, <1>4, <1>9 DEF CQuiet, Removed, ConsumerPcs, dequeue_recheck, nodevars
  <2>5. \A q \in Producers : PairLinks(q, c, n, s) => PairLinks(q, c, n, s)'
    BY <2>1, <2>2, <2>3, <2>4, <1>6 DEF PairLinks, CQuiet, OnlyCall
  <2> QED
    BY <2>4, <2>5, <1>5
<1>10. CASE dequeue_read(c)
  <2>1. call[c].pc = "read" /\ n > 1 /\ call[c].succ = s[2]
    BY <1>2, <1>10 DEF dequeue_read, PairLinks
  <2>2. PICK v \in Values : v = data[s[2]]
    BY <2>1, <1>1, <1>3
  <2>3. call' = [call EXCEPT ![c].pc = "cas", ![c].result = v]
    BY <2>1, <2>2, <1>10 DEF dequeue_read
  <2>4. /\ OnlyCall(c) /\ call'[c].pc = "cas" /\ call'[c].old = call[c].old
        /\ call'[c].succ = call[c].succ /\ call'[c].result = v
    BY <2>3, <1>1 DEF OnlyCall, QueueCalls, ConsumerPcs
  <2>5. CQuiet(c)
    BY <2>1, <2>4, <1>4, <1>10 DEF CQuiet, Removed, ConsumerPcs, dequeue_read, nodevars
  <2>6. \A q \in Producers : PairLinks(q, c, n, s) => PairLinks(q, c, n, s)'
    BY <2>1, <2>2, <2>4, <2>5, <1>6 DEF PairLinks, CQuiet, OnlyCall
  <2> QED
    BY <2>5, <2>6, <1>5
<1>11. CASE dequeue_cas(c) /\ head # call[c].old
  <2>1. call[c].pc = "cas"
    BY <1>11 DEF dequeue_cas, Moves
  <2> QED
    BY <2>1, <1>2, <1>3, <1>11 DEF PairLinks
<1> QED
  BY <1>7, <1>8, <1>9, <1>10, <1>11

(* The chain without its first node, the old dummy.                        *)
Rest(n, s) == [j \in 1 .. n - 1 |-> s[j + 1]]

IsRest(n, s, h, r) ==
  /\ r \in [1 .. h -> QueueNodes] /\ Apart(h, r)
  /\ \A j \in 1 .. h : j + 1 \in 1 .. n /\ r[j] = s[j + 1]
  /\ {r[j] : j \in 1 .. h} = {s[j] : j \in 1 .. n} \ {s[1]}

LEMMA RestChain ==
  ASSUME NEW n \in Nat \ {0}, NEW h \in Nat, h = n - 1, NEW s \in [1 .. n -> QueueNodes],
         Apart(n, s), NEW r, r = Rest(n, s)
  PROVE  IsRest(n, s, h, r)
<1>1. \A j \in 1 .. h : j + 1 \in 1 .. n /\ j + 1 # 1
  OBVIOUS
<1>2. \A i \in 1 .. n : i = 1 \/ \E j \in 1 .. h : i = j + 1
  <2>1. \A i \in 1 .. n : i = 1 \/ (i - 1 \in 1 .. h /\ i = (i - 1) + 1)
    OBVIOUS
  <2> QED
    BY <2>1
<1>3. \A j \in 1 .. h : r[j] = s[j + 1]
  BY DEF Rest
<1>4. r \in [1 .. h -> QueueNodes]
  <2>1. r = [j \in 1 .. h |-> r[j]]
    BY DEF Rest
  <2> QED
    BY <2>1, <1>1, <1>3
<1>5. Apart(h, r)
  <2> SUFFICES ASSUME NEW i \in 1 .. h, NEW j \in 1 .. h, r[i] = r[j] PROVE i = j
    BY DEF Apart
  <2>1. i + 1 = j + 1
    BY <1>1, <1>3 DEF Apart
  <2> QED
    BY <2>1
<1>6. {r[j] : j \in 1 .. h} = {s[j] : j \in 1 .. n} \ {s[1]}
  <2>1. 1 \in 1 .. n
    OBVIOUS
  <2>2. \A j \in 1 .. h : r[j] \in {s[i] : i \in 1 .. n} \ {s[1]}
    BY <2>1, <1>1, <1>3 DEF Apart
  <2>3. \A i \in 1 .. n : s[i] # s[1] => s[i] \in {r[j] : j \in 1 .. h}
    <3> SUFFICES ASSUME NEW i \in 1 .. n, i # 1 PROVE s[i] \in {r[j] : j \in 1 .. h}
      OBVIOUS
    <3>1. PICK j \in 1 .. h : i = j + 1
      BY <1>2
    <3>2. s[i] = r[j]
      BY <3>1, <1>3
    <3> QED
      BY <3>2
  <2> QED
    BY <2>2, <2>3
<1> QED
  BY <1>1, <1>3, <1>4, <1>5, <1>6 DEF IsRest

(* What a successful exchange of head does.                                *)
TakeStep(c, n, s, h, r) ==
  /\ n > 1 /\ h = n - 1 /\ r = Rest(n, s) /\ IsRest(n, s, h, r)
  /\ call[c].pc = "cas" /\ call'[c].pc = "sub" /\ OnlyCall(c)
  /\ call'[c].old = s[1] /\ call'[c].result = data[s[2]]
  /\ head' = s[2] /\ h \in Nat \ {0}
  /\ UNCHANGED <<tail, size, allocated, data, next, team, enqueued, dequeued>>

LEMMA TakeWorks ==
  ASSUME NEW c \in Consumers, c \in team, UNCHANGED team, LfqBase, dequeue_cas(c),
         head = call[c].old, NEW n, NEW s, Queue(n, s),
         IF team \subseteq Producers THEN OnlyProducers(n, s) ELSE Pair(n, s)
  PROVE  \E h, r : TakeStep(c, n, s, h, r)
<1>1. c \in Users /\ call \in [Users -> QueueCalls]
  BY DEF LfqBase, LfqTypeOK, Users
<1>2. call[c].pc = "cas" /\ call' = [call EXCEPT ![c].pc = "sub"] /\ head' = call[c].succ
  BY DEF dequeue_cas, Moves
<1>3. /\ OnlyCall(c) /\ call'[c].pc = "sub" /\ call'[c].old = call[c].old
      /\ call'[c].result = call[c].result
  BY <1>1, <1>2 DEF OnlyCall, QueueCalls, ConsumerPcs
<1>4. PICK p \in Producers : PairLinks(p, c, n, s)
  BY ConsumerInPair
<1>5. call[c].old = s[1] /\ n > 1 /\ call[c].succ = s[2] /\ call[c].result = data[s[2]]
  BY <1>2, <1>4 DEF PairLinks
<1>6. n \in Nat \ {0} /\ s \in [1 .. n -> QueueNodes] /\ Apart(n, s)
  BY DEF Queue
<1>7. PICK h \in Nat \ {0} : h = n - 1
  BY <1>5, <1>6
<1>8. PICK r : r = Rest(n, s)
  OBVIOUS
<1>9. IsRest(n, s, h, r)
  BY <1>6, <1>7, <1>8, RestChain
<1>10. TakeStep(c, n, s, h, r)
  BY <1>2, <1>3, <1>5, <1>7, <1>8, <1>9 DEF TakeStep, dequeue_cas, nodevars
<1> QED
  BY <1>10

LEMMA DequeueTake ==
  ASSUME NEW c \in Consumers, c \in team, LfqBase, NEW n, NEW s, Queue(n, s),
         IF team \subseteq Producers THEN OnlyProducers(n, s) ELSE Pair(n, s),
         NEW h, NEW r, TakeStep(c, n, s, h, r)
  PROVE  LfqBase' /\ Queue(h, r)' /\ Working' /\ \A p \in Producers : call'[p] = call[p]
<1>1. /\ n > 1 /\ h = n - 1 /\ h \in Nat \ {0}
      /\ call[c].pc = "cas" /\ call'[c].pc = "sub" /\ OnlyCall(c)
      /\ call'[c].old = s[1] /\ call'[c].result = data[s[2]] /\ head' = s[2]
      /\ UNCHANGED <<tail, size, allocated, data, next, team, enqueued, dequeued>>
  BY DEF TakeStep
<1>2. /\ r \in [1 .. h -> QueueNodes] /\ Apart(h, r)
      /\ \A j \in 1 .. h : j + 1 \in 1 .. n /\ r[j] = s[j + 1]
      /\ {r[j] : j \in 1 .. h} = {s[j] : j \in 1 .. n} \ {s[1]}
  BY DEF TakeStep, IsRest
<1>3. /\ n \in Nat \ {0} /\ s \in [1 .. n -> QueueNodes] /\ Apart(n, s)
      /\ \A i \in 1 .. n : next[s[i]] = IF i < n THEN s[i + 1] ELSE NoNode
  BY DEF Queue
<1>4. 1 \in 1 .. h /\ h \in 1 .. h /\ 1 \in 1 .. n /\ 2 \in 1 .. n /\ h + 1 = n
  BY <1>1, <1>3
<1>5. /\ \A p \in Producers : call'[p] = call[p]
      /\ \A d \in Consumers \ {c} : call'[d] = call[d] /\ ~Removed(d)
  <2>1. \A d \in Consumers \ {c} : call[d].pc = "call"
    BY ConsumerInPair
  <2> QED
    BY <2>1, <1>1, LfqAssumption DEF OnlyCall, Users, Removed
<1>6. Held' = Held /\ Gone = {} /\ Gone' = {s[1]}
  <2>1. Held' = Held
    BY <1>5 DEF Held, Holding
  <2>2. ~Removed(c) /\ Removed(c)' /\ \A d \in Consumers \ {c} : ~Removed(d) /\ ~Removed(d)'
    BY <1>1, <1>5 DEF Removed
  <2>3. Gone = {}
    BY <2>2 DEF Gone
  <2>4. Gone' = {s[1]}
    BY <2>2, <1>1 DEF Gone
  <2> QED
    BY <2>1, <2>3, <2>4
<1>7. Queue(h, r)'
  <2>1. head' = r[1]
    BY <1>1, <1>2, <1>4
  <2>2. ASSUME NEW i \in 1 .. h PROVE next'[r[i]] = IF i < h THEN r[i + 1] ELSE NoNode
    <3>1. i + 1 \in 1 .. n /\ r[i] = s[i + 1]
      BY <1>2
    <3>2. next'[r[i]] = IF i + 1 < n THEN s[i + 1 + 1] ELSE NoNode
      BY <3>1, <1>1, <1>3
    <3>3. CASE i < h
      <4>1. i + 1 \in 1 .. h /\ i + 1 < n
        BY <3>3, <1>1, <1>3
      <4> QED
        BY <4>1, <3>2, <3>3, <1>2
    <3>4. CASE ~(i < h)
      <4>1. ~(i + 1 < n)
        BY <3>4, <1>1, <1>3
      <4> QED
        BY <4>1, <3>2, <3>4
    <3> QED
      BY <3>3, <3>4
  <2>3. /\ allocated' = {r[i] : i \in 1 .. h} \cup Held' \cup Gone'
        /\ {r[i] : i \in 1 .. h} \cap Held' = {} /\ {r[i] : i \in 1 .. h} \cap Gone' = {}
        /\ Held' \cap Gone' = {}
    <3>1. /\ allocated = {s[i] : i \in 1 .. n} \cup Held \cup Gone
          /\ {s[i] : i \in 1 .. n} \cap Held = {}
      BY DEF Queue
    <3>2. s[1] \in {s[i] : i \in 1 .. n}
      BY <1>4
    <3> QED
      BY <3>1, <3>2, <1>1, <1>2, <1>6
  <2> QED
    BY <2>1, <2>2, <2>3, <1>1, <1>2 DEF Queue
<1>8. LfqTypeOK'
  <2>1. \A p \in Producers : call'[p].pc \in ProducerPcs
    BY <1>5 DEF LfqBase, LfqTypeOK
  <2>2. \A d \in Consumers : call'[d].pc \in ConsumerPcs
    BY <1>1, <1>5 DEF LfqBase, LfqTypeOK, ConsumerPcs
  <2>3. head' \in Nodes
    BY <1>1, <1>3, <1>4 DEF Nodes
  <2> QED
    BY <2>1, <2>2, <2>3, <1>1 DEF LfqBase, LfqTypeOK, OnlyCall
<1>9. IdleOK'
  <2>1. \A u \in Users \ team : call'[u] = call[u]
    BY <1>1 DEF OnlyCall
  <2> QED
    BY <2>1, <1>1 DEF LfqBase, IdleOK
<1>10. QuotaOK'
  BY <1>1, <1>5 DEF LfqBase, QuotaOK
<1>11. HeldOK'
  <2>1. \A p \in Producers : Holding(p)' <=> Holding(p)
    BY <1>5 DEF Holding
  <2> QED
    BY <2>1, <1>1, <1>5 DEF LfqBase, HeldOK
<1>12. PICK p \in Producers :
         team \subseteq {p, c} /\ PairLinks(p, c, n, s) /\ PairCount(p, c, n)
  BY ConsumerInPair
<1>13. PairLinks(p, c, h, r)'
  <2>1. r[h] = s[n] /\ call'[p] = call[p] /\ tail' = tail
    BY <1>1, <1>2, <1>4, <1>5
  <2> QED
    BY <2>1, <1>1, <1>12 DEF PairLinks
<1>14. PairCount(p, c, h)'
  <2>1. /\ ToCount(p)' = ToCount(p) /\ ToLink(p)' = ToLink(p)
        /\ ToSubtract(c) = 0 /\ ToSubtract(c)' = 1 /\ ToReturn(c) = 0 /\ ToReturn(c)' = 1
        /\ ToCount(p) \in 0 .. 1 /\ ToLink(p) \in 0 .. 1
    BY <1>1, <1>5 DEF ToCount, ToLink, ToSubtract, ToReturn, Removed, Linked, Holding
  <2>2. PICK a \in 0 .. 1, b \in 0 .. 1 : a = ToCount(p) /\ b = ToLink(p)
    BY <2>1
  <2>3. PICK M \in Nat, Q \in Nat, d \in Nat, e \in Nat :
          M = SizeModulus /\ Q = QueueCapacity /\ d = Len(dequeued[c]) /\ e = enqueued[p]
    BY LfqAssumption, LenProperties DEF LfqBase, LfqTypeOK
  <2>4. /\ size = (n - 1 + 0 + M - a) % M /\ n - 1 + 0 + b <= Q
        /\ n - 1 + d + 0 = e + a
    BY <2>1, <2>2, <2>3, <1>12 DEF PairCount
  <2>5. /\ size = (h - 1 + 1 + M - a) % M /\ h - 1 + 1 + b <= Q
        /\ h - 1 + d + 1 = e + a
    <3>1. n - 1 + 0 + M - a = h - 1 + 1 + M - a
      BY <1>1, <1>3
    <3> QED
      BY <3>1, <2>4, <1>1, <1>3
  <2> QED
    BY <2>1, <2>2, <2>3, <2>5, <1>1 DEF PairCount
<1>15. Pair(h, r)'
  BY <1>1, <1>12, <1>13, <1>14 DEF Pair
<1>16. ~(team' \subseteq Producers)
  BY <1>1, ConsumerInPair
<1> QED
  BY <1>5, <1>7, <1>8, <1>9, <1>10, <1>11, <1>15, <1>16 DEF LfqBase, Working

LEMMA DequeueSub ==
  ASSUME NEW c \in Consumers, c \in team, UNCHANGED team, LfqBase, dequeue_sub(c),
         NEW n, NEW s, Queue(n, s),
         IF team \subseteq Producers THEN OnlyProducers(n, s) ELSE Pair(n, s)
  PROVE  /\ LfqBase' /\ Queue(n, s)' /\ Working' /\ UNCHANGED <<data, enqueued, dequeued>>
         /\ call'[c].result = call[c].result /\ Removed(c) /\ Removed(c)'
         /\ \A p \in Producers : call'[p] = call[p]
         /\ \A d \in Consumers \ {c} : call'[d] = call[d]
<1>1. c \in Users /\ call \in [Users -> QueueCalls]
  BY DEF LfqBase, LfqTypeOK, Users
<1>2. /\ call[c].pc = "sub" /\ call' = [call EXCEPT ![c].pc = "delete"]
      /\ size' = (size + SizeModulus - 1) % SizeModulus
      /\ UNCHANGED <<head, tail, allocated, data, next, enqueued, dequeued, team>>
  BY DEF dequeue_sub, Moves, nodevars
<1>3. /\ OnlyCall(c) /\ call'[c].pc = "delete" /\ call'[c].old = call[c].old
      /\ call'[c].result = call[c].result
  BY <1>1, <1>2 DEF OnlyCall, QueueCalls, ConsumerPcs
<1>4. /\ \A p \in Producers : call'[p] = call[p]
      /\ \A d \in Consumers \ {c} : call'[d] = call[d]
  BY <1>3, LfqAssumption DEF OnlyCall, Users
<1>5. Held' = Held /\ Gone' = Gone /\ Removed(c) /\ Removed(c)'
  <2>1. Held' = Held
    BY <1>4 DEF Held, Holding
  <2>2. \A d \in Consumers : (Removed(d)' <=> Removed(d)) /\ call'[d].old = call[d].old
    BY <1>2, <1>3, <1>4 DEF Removed
  <2> QED
    BY <2>1, <2>2, <1>2 DEF Gone, Removed
<1>6. Queue(n, s)' /\ n \in Nat \ {0}
  BY <1>2, <1>5, QueueKept DEF Queue
<1>7. PICK M \in Nat, Q \in Nat, w \in Nat :
        M = SizeModulus /\ Q = QueueCapacity /\ w = Cardinality(Producers) /\ M > Q + w
  BY LfqAssumption, FS_CardinalityType
<1>8. size \in Nat /\ size < M /\ size' = (size + M - 1) % M /\ size' \in 0 .. M - 1
  <2>1. size \in Nat /\ size < M /\ size' = (size + M - 1) % M
    BY <1>2, <1>7 DEF LfqBase, LfqTypeOK
  <2> QED
    BY <2>1
<1>9. LfqTypeOK'
  <2>1. \A p \in Producers : call'[p].pc \in ProducerPcs
    BY <1>4 DEF LfqBase, LfqTypeOK
  <2>2. \A d \in Consumers : call'[d].pc \in ConsumerPcs
    BY <1>3, <1>4 DEF LfqBase, LfqTypeOK, ConsumerPcs
  <2> QED
    BY <2>1, <2>2, <1>2, <1>3, <1>7, <1>8 DEF LfqBase, LfqTypeOK, OnlyCall
<1>10. IdleOK'
  <2>1. \A u \in Users \ team : call'[u] = call[u]
    BY <1>3 DEF OnlyCall
  <2> QED
    BY <2>1, <1>2 DEF LfqBase, IdleOK
<1>11. QuotaOK'
  BY <1>2, <1>3, <1>4 DEF LfqBase, QuotaOK
<1>12. HeldOK'
  <2>1. \A p \in Producers : Holding(p)' <=> Holding(p)
    BY <1>4 DEF Holding
  <2> QED
    BY <2>1, <1>2, <1>4 DEF LfqBase, HeldOK
<1>13. PICK p \in Producers :
         team \subseteq {p, c} /\ PairLinks(p, c, n, s) /\ PairCount(p, c, n)
  BY ConsumerInPair
<1>14. PairLinks(p, c, n, s)'
  BY <1>2, <1>3, <1>4, <1>13 DEF PairLinks
<1>15. PairCount(p, c, n)'
  <2>1. /\ ToCount(p)' = ToCount(p) /\ ToLink(p)' = ToLink(p)
        /\ ToSubtract(c) = 1 /\ ToSubtract(c)' = 0 /\ ToReturn(c)' = ToReturn(c)
        /\ ToCount(p) \in 0 .. 1 /\ ToLink(p) \in 0 .. 1
    BY <1>2, <1>3, <1>4 DEF ToCount, ToLink, ToSubtract, ToReturn, Removed, Linked, Holding
  <2>2. PICK a \in 0 .. 1, b \in 0 .. 1, x \in Nat : a = ToCount(p) /\ b = ToLink(p) /\ x = n - 1
    BY <2>1, <1>6
  <2>3. size = (x + 1 + M - a) % M /\ x + 1 + b <= Q
    BY <2>1, <2>2, <1>7, <1>13 DEF PairCount
  <2>4. x + 1 < M /\ M > 0
    BY <2>3, <1>7
  <2>5. size' = (x + M - a) % M
    <3>1. size = (IF x + 1 - a < 0 THEN x + 1 + M - a ELSE x + 1 - a)
      BY <2>3, <2>4
    <3>2. size = x + 1 - a
      BY <3>1
    <3>3. size' = IF x < a THEN x + M - a ELSE x - a
      BY <3>2, <2>4, <1>8
    <3> QED
      BY <3>3, <2>4
  <2>6. size' = (x + 0 + M - a) % M /\ x + 0 + b <= Q
    BY <2>3, <2>5, <1>7
  <2> QED
    BY <2>1, <2>2, <2>6, <1>2, <1>7, <1>13 DEF PairCount
<1>16. Pair(n, s)'
  BY <1>2, <1>13, <1>14, <1>15 DEF Pair
<1>17. ~(team' \subseteq Producers)
  BY <1>2, ConsumerInPair
<1> QED
  BY <1>2, <1>3, <1>4, <1>5, <1>6, <1>9, <1>10, <1>11, <1>12, <1>16, <1>17 DEF LfqBase, Working

LEMMA DequeueDelete ==
  ASSUME NEW c \in Consumers, c \in team, UNCHANGED team, LfqBase, dequeue_delete(c),
         NEW n, NEW s, Queue(n, s),
         IF team \subseteq Producers THEN OnlyProducers(n, s) ELSE Pair(n, s)
  PROVE  /\ LfqBase' /\ Queue(n, s)' /\ Working' /\ UNCHANGED <<data, enqueued>>
         /\ dequeued' = [dequeued EXCEPT ![c] = Append(@, call[c].result)]
         /\ Removed(c) /\ ~Removed(c)'
         /\ \A p \in Producers : call'[p] = call[p]
         /\ \A d \in Consumers \ {c} : call'[d] = call[d]
<1>1. c \in Users /\ call \in [Users -> QueueCalls] /\ dequeued \in [Consumers -> Seq(Values)]
  BY DEF LfqBase, LfqTypeOK, Users
<1>2. /\ call[c].pc = "delete" /\ call' = [call EXCEPT ![c].pc = "call"]
      /\ allocated' = allocated \ {call[c].old}
      /\ dequeued' = [dequeued EXCEPT ![c] = Append(@, call[c].result)]
      /\ UNCHANGED <<head, tail, size, data, next, enqueued, team>>
  BY DEF dequeue_delete, deletes, Moves
<1>3. OnlyCall(c) /\ call'[c].pc = "call"
  BY <1>1, <1>2 DEF OnlyCall, QueueCalls, ConsumerPcs
<1>4. /\ \A p \in Producers : call'[p] = call[p]
      /\ \A d \in Consumers \ {c} : call'[d] = call[d] /\ ~Removed(d)
  <2>1. \A d \in Consumers \ {c} : call[d].pc = "call"
    BY ConsumerInPair
  <2> QED
    BY <2>1, <1>3, LfqAssumption DEF OnlyCall, Users, Removed
<1>5. Held' = Held /\ Gone = {call[c].old} /\ Gone' = {} /\ Removed(c) /\ ~Removed(c)'
  <2>1. Held' = Held
    BY <1>4 DEF Held, Holding
  <2>2. Removed(c) /\ ~Removed(c)' /\ \A d \in Consumers \ {c} : ~Removed(d) /\ ~Removed(d)'
    BY <1>2, <1>3, <1>4 DEF Removed
  <2>3. Gone = {call[c].old}
    BY <2>2 DEF Gone
  <2>4. Gone' = {}
    BY <2>2 DEF Gone
  <2> QED
    BY <2>1, <2>2, <2>3, <2>4
<1>6. Queue(n, s)' /\ n \in Nat \ {0}
  <2>1. /\ allocated' = {s[i] : i \in 1 .. n} \cup Held' \cup Gone'
        /\ {s[i] : i \in 1 .. n} \cap Held' = {} /\ {s[i] : i \in 1 .. n} \cap Gone' = {}
        /\ Held' \cap Gone' = {}
    BY <1>2, <1>5 DEF Queue
  <2> QED
    BY <2>1, <1>2 DEF Queue
<1>7. PICK v \in Values, D \in Seq(Values) : v = call[c].result /\ D = dequeued[c]
  BY <1>1 DEF QueueCalls
<1>8. /\ dequeued' \in [Consumers -> Seq(Values)] /\ dequeued'[c] = Append(D, v)
      /\ \A d \in Consumers \ {c} : dequeued'[d] = dequeued[d]
  <2>1. Append(D, v) \in Seq(Values)
    OBVIOUS
  <2> QED
    BY <2>1, <1>1, <1>2, <1>7
<1>9. LfqTypeOK'
  <2>1. \A p \in Producers : call'[p].pc \in ProducerPcs
    BY <1>4 DEF LfqBase, LfqTypeOK
  <2>2. \A d \in Consumers : call'[d].pc \in ConsumerPcs
    BY <1>3, <1>4 DEF LfqBase, LfqTypeOK, ConsumerPcs
  <2> QED
    BY <2>1, <2>2, <1>2, <1>3, <1>8 DEF LfqBase, LfqTypeOK, OnlyCall
<1>10. IdleOK'
  <2>1. \A u \in Users \ team : call'[u] = call[u] /\ (u \in Consumers => dequeued'[u] = dequeued[u])
    BY <1>3, <1>8 DEF OnlyCall
  <2> QED
    BY <2>1, <1>2 DEF LfqBase, IdleOK
<1>11. QuotaOK'
  BY <1>2, <1>3, <1>4, <1>8 DEF LfqBase, QuotaOK
<1>12. HeldOK'
  <2>1. \A p \in Producers : Holding(p)' <=> Holding(p)
    BY <1>4 DEF Holding
  <2> QED
    BY <2>1, <1>2, <1>4 DEF LfqBase, HeldOK
<1>13. PICK p \in Producers :
         team \subseteq {p, c} /\ PairLinks(p, c, n, s) /\ PairCount(p, c, n)
  BY ConsumerInPair
<1>14. PairLinks(p, c, n, s)'
  BY <1>2, <1>3, <1>4, <1>13 DEF PairLinks
<1>15. PairCount(p, c, n)'
  <2>1. /\ ToCount(p)' = ToCount(p) /\ ToLink(p)' = ToLink(p)
        /\ ToSubtract(c) = 0 /\ ToSubtract(c)' = 0 /\ ToReturn(c) = 1 /\ ToReturn(c)' = 0
        /\ ToCount(p) \in 0 .. 1
    BY <1>2, <1>3, <1>4 DEF ToCount, ToLink, ToSubtract, ToReturn, Removed, Linked, Holding
  <2>2. Len(Append(D, v)) = Len(D) + 1 /\ Len(D) \in Nat
    OBVIOUS
  <2>3. PICK d \in Nat, e \in Nat, a \in 0 .. 1 :
          d = Len(D) /\ e = enqueued[p] /\ a = ToCount(p)
    BY <2>1, <2>2 DEF LfqBase, LfqTypeOK
  <2>4. n - 1 + d + 1 = e + a
    BY <2>1, <2>3, <1>7, <1>13 DEF PairCount
  <2>5. n - 1 + (d + 1) + 0 = e + a
    BY <2>4, <1>6
  <2>6. Len(dequeued'[c]) = d + 1
    BY <2>2, <2>3, <1>8
  <2> QED
    BY <2>1, <2>3, <2>5, <2>6, <1>2, <1>13 DEF PairCount
<1>16. Pair(n, s)'
  BY <1>2, <1>13, <1>14, <1>15 DEF Pair
<1>17. ~(team' \subseteq Producers)
  BY <1>2, ConsumerInPair
<1> QED
  BY <1>2, <1>4, <1>5, <1>6, <1>9, <1>10, <1>11, <1>12, <1>16, <1>17 DEF LfqBase, Working

-----------------------------------------------------------------------------
(* The chain of nodes from head on is the chain of the invariant.          *)

(* A chain has at most as many nodes as there are addresses.               *)
LEMMA QueueFits ==
  ASSUME NEW n \in Nat, NEW s \in [1 .. n -> QueueNodes], Apart(n, s)
  PROVE  n <= Cardinality(QueueNodes) /\ Cardinality(QueueNodes) \in Nat
<1>1. IsFiniteSet(QueueNodes) /\ Cardinality(QueueNodes) \in Nat
  BY LfqAssumption, FS_CardinalityType
<1>2. IsFiniteSet(1 .. n) /\ Cardinality(1 .. n) = n
  <2>1. IsFiniteSet(1 .. n) /\ Cardinality(1 .. n) = IF 1 > n THEN 0 ELSE n - 1 + 1
    BY FS_Interval
  <2> QED
    BY <2>1
<1>3. s \in Injection(1 .. n, QueueNodes)
  BY DEF Injection, IsInjective, Apart
<1>4. Cardinality(1 .. n) <= Cardinality(QueueNodes)
  BY <1>1, <1>3, FS_Injection
<1> QED
  BY <1>1, <1>2, <1>4

(* The k-th node of a chain, or none past its end.                         *)
NodeAt(n, s, k) == IF k <= n THEN s[k] ELSE NoNode

(* The equation that defines Reach has a solution for a chain.             *)
LEMMA ReachEquation ==
  ASSUME NEW n, NEW s, Queue(n, s)
  PROVE  Reach = [k \in 1 .. Cardinality(QueueNodes) + 1 |->
                    IF k = 1 THEN head
                    ELSE IF Reach[k - 1] = NoNode THEN NoNode ELSE next[Reach[k - 1]]]
<1>1. /\ n \in Nat \ {0} /\ s \in [1 .. n -> QueueNodes] /\ head = s[1]
      /\ \A i \in 1 .. n : next[s[i]] = IF i < n THEN s[i + 1] ELSE NoNode
  BY DEF Queue
<1>2. PICK N \in Nat : N = Cardinality(QueueNodes) + 1
  BY LfqAssumption, FS_CardinalityType
<1>3. PICK g : g = [k \in 1 .. N |-> NodeAt(n, s, k)]
  OBVIOUS
<1>4. \A k \in 1 .. N : k # 1 => k - 1 \in 1 .. N /\ (k - 1) + 1 = k
  OBVIOUS
<1>5. \A k \in 1 .. N : g[k] = IF k = 1 THEN head
                               ELSE IF g[k - 1] = NoNode THEN NoNode ELSE next[g[k - 1]]
  <2> SUFFICES ASSUME NEW k \in 1 .. N
               PROVE  g[k] = IF k = 1 THEN head
                             ELSE IF g[k - 1] = NoNode THEN NoNode ELSE next[g[k - 1]]
    OBVIOUS
  <2>1. CASE k = 1
    BY <2>1, <1>1, <1>3 DEF NodeAt
  <2>2. CASE k # 1
    <3>1. PICK j \in 1 .. N : j = k - 1 /\ k = j + 1
      BY <2>2, <1>4
    <3>2. g[k] = NodeAt(n, s, k) /\ g[j] = NodeAt(n, s, j)
      BY <1>3
    <3>3. CASE j <= n
      <4>1. j \in 1 .. n /\ s[j] \in QueueNodes
        BY <3>3, <1>1
      <4>2. g[j] = s[j] /\ s[j] # NoNode
        BY <4>1, <3>2, <3>3, LfqAssumption DEF NodeAt
      <4>3. NodeAt(n, s, k) = IF j < n THEN s[j + 1] ELSE NoNode
        BY <3>1, <1>1 DEF NodeAt
      <4>4. next[s[j]] = IF j < n THEN s[j + 1] ELSE NoNode
        BY <4>1, <1>1
      <4> QED
        BY <4>2, <4>3, <4>4, <3>1, <3>2, <2>2
    <3>4. CASE ~(j <= n)
      <4>1. ~(k <= n)
        BY <3>1, <3>4, <1>1
      <4> QED
        BY <4>1, <3>1, <3>2, <3>4, <2>2 DEF NodeAt
    <3> QED
      BY <3>3, <3>4
  <2> QED
    BY <2>1, <2>2
<1>6. g = [k \in 1 .. N |-> IF k = 1 THEN head
                            ELSE IF g[k - 1] = NoNode THEN NoNode ELSE next[g[k - 1]]]
  <2>1. g = [k \in 1 .. N |-> g[k]]
    BY <1>3
  <2> QED
    BY <2>1, <1>5
<1> QED
  BY <1>2, <1>6 DEF Reach

(* The walk from head meets the nodes of the chain in their order.         *)
LEMMA ReachesChain ==
  ASSUME NEW n, NEW s, Queue(n, s)
  PROVE  /\ DOMAIN Reach = 1 .. Cardinality(QueueNodes) + 1
         /\ \A k \in DOMAIN Reach : Reach[k] = NodeAt(n, s, k)
<1>1. /\ n \in Nat \ {0} /\ s \in [1 .. n -> QueueNodes] /\ head = s[1]
      /\ \A i \in 1 .. n : next[s[i]] = IF i < n THEN s[i + 1] ELSE NoNode
  BY DEF Queue
<1>2. PICK N \in Nat : N = Cardinality(QueueNodes) + 1
  BY LfqAssumption, FS_CardinalityType
<1>3. PICK f : f = Reach
  OBVIOUS
<1>4. f = [k \in 1 .. N |-> IF k = 1 THEN head
                            ELSE IF f[k - 1] = NoNode THEN NoNode ELSE next[f[k - 1]]]
  BY <1>2, <1>3, ReachEquation
<1>5. \A k \in 1 .. N : k # 1 => k - 1 \in 1 .. N /\ (k - 1) + 1 = k
  OBVIOUS
<1>6. ASSUME NEW k \in 1 .. N, NEW j \in 1 .. N, k = j + 1, f[j] = NodeAt(n, s, j)
      PROVE  f[k] = NodeAt(n, s, k)
  <2>1. f[k] = IF f[j] = NoNode THEN NoNode ELSE next[f[j]]
    BY <1>4, <1>6
  <2>2. CASE j <= n
    <3>1. j \in 1 .. n /\ s[j] \in QueueNodes
      BY <2>2, <1>1
    <3>2. f[j] = s[j] /\ s[j] # NoNode
      BY <3>1, <2>2, <1>6, LfqAssumption DEF NodeAt
    <3>3. NodeAt(n, s, k) = IF j < n THEN s[j + 1] ELSE NoNode
      BY <1>1, <1>6 DEF NodeAt
    <3>4. next[s[j]] = IF j < n THEN s[j + 1] ELSE NoNode
      BY <3>1, <1>1
    <3> QED
      BY <2>1, <3>2, <3>3, <3>4
  <2>3. CASE ~(j <= n)
    <3>1. ~(k <= n)
      BY <2>3, <1>1, <1>6
    <3> QED
      BY <2>1, <2>3, <3>1, <1>6 DEF NodeAt
  <2> QED
    BY <2>2, <2>3
<1>7. \A k \in 1 .. N : f[k] = NodeAt(n, s, k)
  <2> SUFFICES ASSUME NEW x \in 1 .. N, f[x] # NodeAt(n, s, x) PROVE FALSE
    OBVIOUS
  <2>1. PICK T : T = {k \in 1 .. N : f[k] # NodeAt(n, s, k)}
    OBVIOUS
  <2>2. T \subseteq Nat /\ T # {}
    BY <2>1
  <2>3. PICK m \in T : \A k \in T : m <= k
    BY <2>2, Smallest
  <2>4. m \in 1 .. N /\ f[m] # NodeAt(n, s, m)
    BY <2>1
  <2>5. m # 1
    <3>1. 1 \in 1 .. N => f[1] = head
      BY <1>4
    <3>2. NodeAt(n, s, 1) = head
      BY <1>1 DEF NodeAt
    <3> QED
      BY <3>1, <3>2, <2>4
  <2>6. PICK j \in 1 .. N : m = j + 1
    BY <2>4, <2>5, <1>5
  <2>7. f[j] = NodeAt(n, s, j)
    BY <2>1, <2>3, <2>6
  <2> QED
    BY <2>4, <2>6, <2>7, <1>6
<1>8. DOMAIN f = 1 .. N
  BY <1>4
<1> QED
  BY <1>2, <1>3, <1>7, <1>8

LEMMA ChainIs ==
  ASSUME NEW n, NEW s
  PROVE  Queue(n, s) => Chain = s /\ Len(Chain) = n /\ DOMAIN Chain = 1 .. n
<1> SUFFICES ASSUME Queue(n, s) PROVE Chain = s /\ Len(Chain) = n /\ DOMAIN Chain = 1 .. n
  OBVIOUS
<1>1. n \in Nat \ {0} /\ s \in [1 .. n -> QueueNodes] /\ Apart(n, s)
  BY DEF Queue
<1>2. PICK N \in Nat : N = Cardinality(QueueNodes) + 1 /\ n < N
  <2>1. n <= Cardinality(QueueNodes) /\ Cardinality(QueueNodes) \in Nat
    BY <1>1, QueueFits
  <2> QED
    BY <2>1, <1>1
<1>3. DOMAIN Reach = 1 .. N /\ \A k \in 1 .. N : Reach[k] = NodeAt(n, s, k)
  BY <1>2, ReachesChain
<1>4. ASSUME NEW k \in 1 .. N PROVE Reach[k] # NoNode <=> k \in 1 .. n
  <2>1. k <= n => s[k] \in QueueNodes
    BY <1>1
  <2> QED
    BY <2>1, <1>1, <1>3, LfqAssumption DEF NodeAt
<1>5. {j \in DOMAIN Reach : Reach[j] # NoNode} = 1 .. n
  BY <1>1, <1>2, <1>3, <1>4
<1>6. Cardinality(1 .. n) = n
  <2>1. Cardinality(1 .. n) = IF 1 > n THEN 0 ELSE n - 1 + 1
    BY <1>1, FS_Interval
  <2> QED
    BY <2>1, <1>1
<1>7. Chain = [k \in 1 .. n |-> Reach[k]]
  BY <1>5, <1>6 DEF Chain
<1>8. \A k \in 1 .. n : Reach[k] = s[k]
  BY <1>1, <1>2, <1>3 DEF NodeAt
<1>9. Chain = s
  BY <1>1, <1>7, <1>8
<1>10. Len(s) = n /\ DOMAIN s = 1 .. n
  BY <1>1
<1> QED
  BY <1>9, <1>10

LEMMA ChainWillBe ==
  ASSUME NEW n, NEW s
  PROVE  (Queue(n, s) => Chain = s /\ Len(Chain) = n /\ DOMAIN Chain = 1 .. n)'
<1>1. Queue(n, s) => Chain = s /\ Len(Chain) = n /\ DOMAIN Chain = 1 .. n
  BY ChainIs
<1> QED
  BY <1>1, PTL

-----------------------------------------------------------------------------
(* The invariant of the queue.                                             *)

LEMMA LfqInitInv == TeamsSound /\ LfqInit => LfqInv
<1> SUFFICES ASSUME TeamsSound, LfqInit PROVE LfqInv
  OBVIOUS
<1>1. PICK a \in QueueNodes : head = a /\ tail = a /\ allocated = {a}
  BY DEF LfqInit
<1>2. PICK s : s = [i \in 1 .. 1 |-> a]
  OBVIOUS
<1>3. /\ s \in [1 .. 1 -> QueueNodes] /\ s[1] = a /\ 1 \in 1 .. 1
      /\ \A i \in 1 .. 1 : i = 1
  BY <1>2
<1>4. /\ size = 0 /\ team \in Teams /\ data = [m \in QueueNodes |-> NoNode] /\ next = data
      /\ enqueued = [p \in Producers |-> 0] /\ dequeued = [c \in Consumers |-> <<>>]
  BY DEF LfqInit
<1>5. /\ call \in [Users -> QueueCalls]
      /\ \A th \in Users : call[th].pc = "call"
  BY DEF LfqInit, Users, QueueCalls, ProducerPcs, Nodes, Values
<1>6. /\ \A p \in Producers : ~Holding(p) /\ ~Linked(p) /\ call[p].pc = "call"
      /\ \A c \in Consumers : ~Removed(c) /\ call[c].pc = "call"
  BY <1>5 DEF Users, Holding, Linked, Removed
<1>7. LfqTypeOK
  <2>1. head \in Nodes /\ tail \in QueueNodes /\ size \in 0 .. SizeModulus - 1
    <3>1. PICK N \in Nat : N = Cardinality(Producers)
      BY LfqAssumption, FS_CardinalityType
    <3>2. SizeModulus \in Nat /\ SizeModulus > 0
      BY <3>1, LfqAssumption
    <3> QED
      BY <3>2, <1>1, <1>4 DEF Nodes
  <2>2. data \in [QueueNodes -> Values] /\ next \in [QueueNodes -> Nodes]
    BY <1>4 DEF Values, Nodes
  <2>3. enqueued \in [Producers -> Nat] /\ dequeued \in [Consumers -> Seq(Values)]
    BY <1>4
  <2> QED
    BY <2>1, <2>2, <2>3, <1>1, <1>4, <1>5, <1>6 DEF LfqTypeOK, ProducerPcs, ConsumerPcs
<1>8. IdleOK /\ QuotaOK /\ HeldOK
  BY <1>4, <1>5, <1>6 DEF IdleOK, QuotaOK, HeldOK
<1>9. Held = {} /\ Gone = {} /\ InCall = {} /\ Uncounted = {}
  BY <1>6 DEF Held, Gone, InCall, Uncounted
<1>10. Queue(1, s)
  <2>1. Apart(1, s)
    BY <1>3 DEF Apart
  <2>2. {s[i] : i \in 1 .. 1} = {a}
    BY <1>3
  <2>3. \A i \in 1 .. 1 : next[s[i]] = NoNode /\ ~(i < 1)
    BY <1>3, <1>4
  <2> QED
    BY <2>1, <2>2, <2>3, <1>1, <1>3, <1>9 DEF Queue
<1>11. ASSUME team \subseteq Producers PROVE Working
  <2>1. TailLags(1, s)
    <3>1. \A p \in Producers : SawAt(p, 1, s, 1)
      BY <1>6 DEF SawAt, SawTail
    <3> QED
      BY <3>1, <1>1, <1>3 DEF TailLags
  <2>2. ProducersCount(1)
    <3>1. Cardinality(Uncounted) = 0 /\ Cardinality(InCall) = 0
      BY <1>9, FS_EmptySet
    <3>2. PICK N \in Nat : N = Cardinality(Producers)
      BY LfqAssumption, FS_CardinalityType
    <3> QED
      BY <3>1, <3>2, <1>4, LfqAssumption DEF ProducersCount
  <2> QED
    BY <2>1, <2>2, <1>11, <1>10 DEF Working, OnlyProducers
<1>12. ASSUME ~(team \subseteq Producers) PROVE Working
  <2>1. PICK p \in Producers, c \in Consumers : team \subseteq {p, c}
    BY <1>4, <1>12 DEF TeamsSound
  <2>2. PairLinks(p, c, 1, s)
    BY <1>1, <1>3, <1>6 DEF PairLinks
  <2>3. PairCount(p, c, 1)
    <3>1. /\ ToCount(p) = 0 /\ ToLink(p) = 0 /\ ToSubtract(c) = 0 /\ ToReturn(c) = 0
          /\ enqueued[p] = 0 /\ Len(dequeued[c]) = 0
      BY <1>4, <1>6 DEF ToCount, ToLink, ToSubtract, ToReturn
    <3>2. PICK N \in Nat : N = Cardinality(Producers)
      BY LfqAssumption, FS_CardinalityType
    <3>3. PICK M \in Nat : M = SizeModulus /\ M > 0
      BY <3>2, LfqAssumption
    <3>4. (1 - 1 + 0 + M - 0) % M = 0
      BY <3>3
    <3> QED
      BY <3>1, <3>3, <3>4, <1>4, LfqAssumption DEF PairCount
  <2> QED
    BY <2>1, <2>2, <2>3, <1>12, <1>10 DEF Working, Pair
<1>13. head # NoNode
  BY <1>1, LfqAssumption
<1> QED
  BY <1>7, <1>8, <1>11, <1>12, <1>13 DEF LfqInv

(* A step that changes nothing, enqueue of a full queue among them.        *)
LEMMA LfqInvStutter == LfqInv /\ UNCHANGED lfqvars => LfqInv'
<1> SUFFICES ASSUME LfqInv, UNCHANGED lfqvars PROVE LfqInv'
  OBVIOUS
<1>1. /\ head' = head /\ tail' = tail /\ size' = size /\ allocated' = allocated
      /\ data' = data /\ next' = next /\ call' = call /\ team' = team
      /\ enqueued' = enqueued /\ dequeued' = dequeued
  BY DEF lfqvars, nodevars
<1>2. LfqTypeOK' /\ IdleOK' /\ QuotaOK'
  BY <1>1 DEF LfqInv, LfqTypeOK, IdleOK, QuotaOK
<1>3. HeldOK' /\ Held' = Held /\ Gone' = Gone /\ InCall' = InCall /\ Uncounted' = Uncounted
  BY <1>1 DEF LfqInv, HeldOK, Holding, Held, Gone, Removed, InCall, Uncounted, Linked
<1>4. CASE head = NoNode
  BY <1>1, <1>2, <1>3, <1>4 DEF LfqInv, Destroyed, LfqJoined
<1>5. CASE head # NoNode
  <2>1. PICK n, s : Queue(n, s) /\ IF team \subseteq Producers
                                   THEN OnlyProducers(n, s) ELSE Pair(n, s)
    BY <1>5 DEF LfqInv, Working
  <2>2. Queue(n, s)'
    BY <2>1, <1>1, <1>3, QueueKept
  <2>3. OnlyProducers(n, s) => OnlyProducers(n, s)'
    BY <1>1, <1>3 DEF OnlyProducers, TailLags, ProducersCount, SawAt, SawTail
  <2>4. Pair(n, s) => Pair(n, s)'
    BY <1>1 DEF Pair, PairLinks, PairCount, ToCount, ToLink, ToSubtract, ToReturn,
                Linked, Holding, Removed
  <2>5. Working'
    BY <2>1, <2>2, <2>3, <2>4, <1>1 DEF Working
  <2> QED
    BY <2>5, <1>1, <1>2, <1>3, <1>5 DEF LfqInv
<1> QED
  BY <1>4, <1>5

(* Once main has joined the threads none of them is in a call.             *)
LEMMA JoinedIdle ==
  ASSUME LfqBase, LfqJoined
  PROVE  \A th \in Users : call[th].pc = "call"
<1> SUFFICES ASSUME NEW th \in Users, call[th].pc # "call" PROVE FALSE
  OBVIOUS
<1>1. th \in team
  BY DEF LfqBase, IdleOK
<1>2. Quota \in Nat
  BY LfqAssumption
<1>3. CASE th \in Producers
  BY <1>1, <1>2, <1>3 DEF LfqBase, QuotaOK, LfqJoined, LfqTypeOK
<1>4. CASE th \in Consumers
  BY <1>1, <1>2, <1>4 DEF LfqBase, QuotaOK, LfqJoined
<1> QED
  BY <1>3, <1>4 DEF Users

(* main destroys an empty queue, whose dummy is the one node left.         *)
LEMMA JoinedEmpty ==
  ASSUME LfqBase, LfqJoined, NEW n, NEW s, Queue(n, s),
         IF team \subseteq Producers THEN OnlyProducers(n, s) ELSE Pair(n, s)
  PROVE  n = 1 /\ allocated = {s[i] : i \in 1 .. n}
<1>1. \A th \in Users : call[th].pc = "call"
  BY JoinedIdle
<1>2. Held = {} /\ Gone = {}
  BY <1>1 DEF Held, Gone, Holding, Removed, Users
<1>3. PICK d \in Consumers : d \in team
  BY DEF LfqJoined
<1>4. PICK p \in Producers :
        team \subseteq {p, d} /\ PairCount(p, d, n)
  BY <1>3, ConsumerInPair
<1>5. ToCount(p) = 0 /\ ToReturn(d) = 0
  BY <1>1 DEF ToCount, ToReturn, Linked, Removed, Users
<1>6. n - 1 + Len(dequeued[d]) = enqueued[p] /\ n \in Nat \ {0} /\ Len(dequeued[d]) = Quota
  <2>1. Len(dequeued[d]) = Quota /\ Quota \in Nat /\ n \in Nat \ {0} /\ enqueued[p] \in Nat
    BY <1>3, LfqAssumption DEF LfqJoined, Queue, LfqBase, LfqTypeOK
  <2> QED
    BY <2>1, <1>4, <1>5 DEF PairCount
<1>7. enqueued[p] = Quota \/ enqueued[p] = 0
  BY UserKinds DEF LfqJoined, LfqBase, IdleOK
<1>8. n = 1
  BY <1>6, <1>7, LfqAssumption
<1> QED
  BY <1>2, <1>8 DEF Queue

-----------------------------------------------------------------------------
(* The queue of items that Fifo sees, and the calls it counts as done.     *)

ItemsIn == IF head = NoNode THEN <<>>
           ELSE [k \in 1 .. Len(Chain) - 1 |-> data[Chain[k + 1]]]
PutBy   == [p \in Producers |->
              enqueued[p] + IF call[p].pc \in {"swing", "count"} THEN 1 ELSE 0]
TakenBy == [c \in Consumers |->
              dequeued[c] \o IF call[c].pc \in {"sub", "delete"}
                             THEN <<call[c].result>> ELSE <<>>]
FifoSame == UNCHANGED <<ItemsIn, PutBy, TakenBy>>

ItemsOf(n, s) == [k \in 1 .. n - 1 |-> data[s[k + 1]]]

LEMMA ItemsAre ==
  ASSUME NEW n, NEW s
  PROVE  Queue(n, s) => ItemsIn = ItemsOf(n, s)
<1> SUFFICES ASSUME Queue(n, s) PROVE ItemsIn = ItemsOf(n, s)
  OBVIOUS
<1>1. head # NoNode
  BY LfqAssumption DEF Queue
<1>2. Chain = s /\ Len(Chain) = n
  BY ChainIs
<1> QED
  BY <1>1, <1>2 DEF ItemsIn, ItemsOf

LEMMA ItemsWillBe ==
  ASSUME NEW n, NEW s
  PROVE  (Queue(n, s) => ItemsIn = ItemsOf(n, s))'
<1>1. Queue(n, s) => ItemsIn = ItemsOf(n, s)
  BY ItemsAre
<1> QED
  BY <1>1, PTL

LEMMA SameItems ==
  ASSUME NEW n, NEW s, Queue(n, s), Queue(n, s)',
         \A i \in 1 .. n : data'[s[i]] = data[s[i]]
  PROVE  ItemsIn' = ItemsIn
<1>1. ItemsIn = ItemsOf(n, s) /\ ItemsIn' = ItemsOf(n, s)'
  BY ItemsAre, ItemsWillBe
<1>2. n \in Nat
  BY DEF Queue
<1>3. \A k \in 1 .. n - 1 : k + 1 \in 1 .. n
  BY <1>2
<1> QED
  BY <1>1, <1>3 DEF ItemsOf

LEMMA SamePut ==
  ASSUME UNCHANGED enqueued, \A q \in Producers : Linked(q)' <=> Linked(q)
  PROVE  PutBy' = PutBy
BY DEF PutBy, Linked

LEMMA SameTaken ==
  ASSUME UNCHANGED dequeued,
         \A c \in Consumers : /\ Removed(c)' <=> Removed(c)
                              /\ Removed(c) => call'[c].result = call[c].result
  PROVE  TakenBy' = TakenBy
<1>1. \A c \in Consumers :
        (IF call'[c].pc \in {"sub", "delete"} THEN <<call'[c].result>> ELSE <<>>)
          = IF call[c].pc \in {"sub", "delete"} THEN <<call[c].result>> ELSE <<>>
  BY DEF Removed
<1> QED
  BY <1>1 DEF TakenBy

(* A quiet step of either thread.                                          *)
LEMMA SameFifo ==
  ASSUME NEW n, NEW s, Queue(n, s), Queue(n, s)', UNCHANGED <<data, enqueued, dequeued>>,
         \A q \in Producers : Linked(q)' <=> Linked(q),
         \A c \in Consumers : /\ Removed(c)' <=> Removed(c)
                              /\ Removed(c) => call'[c].result = call[c].result
  PROVE  FifoSame
<1>1. ItemsIn' = ItemsIn
  BY SameItems
<1> QED
  BY <1>1, SamePut, SameTaken DEF FifoSame

LEMMA EnqueueQuietFifo ==
  ASSUME NEW p \in Producers, PQuiet(p), NEW n, NEW s, Queue(n, s), Queue(n, s)'
  PROVE  FifoSame
<1>1. /\ UNCHANGED <<data, enqueued, dequeued>>
      /\ \A u \in Users \ {p} : call'[u] = call[u]
      /\ Linked(p)' <=> Linked(p)
  BY DEF PQuiet, OnlyCall
<1>2. /\ \A q \in Producers \ {p} : q \in Users \ {p}
      /\ \A c \in Consumers : c \in Users \ {p}
  BY LfqAssumption DEF Users
<1>3. /\ \A q \in Producers : Linked(q)' <=> Linked(q)
      /\ \A c \in Consumers : call'[c] = call[c]
  BY <1>1, <1>2 DEF Linked
<1>4. \A c \in Consumers : /\ Removed(c)' <=> Removed(c)
                           /\ Removed(c) => call'[c].result = call[c].result
  BY <1>3 DEF Removed
<1> QED
  BY <1>1, <1>3, <1>4, SameFifo

LEMMA DequeueQuietFifo ==
  ASSUME NEW c \in Consumers, CQuiet(c), NEW n, NEW s, Queue(n, s), Queue(n, s)'
  PROVE  FifoSame
<1>1. /\ UNCHANGED <<data, enqueued, dequeued>>
      /\ \A u \in Users \ {c} : call'[u] = call[u]
      /\ ~Removed(c) /\ ~Removed(c)'
  BY DEF CQuiet, OnlyCall
<1>2. /\ \A p \in Producers : p \in Users \ {c}
      /\ \A d \in Consumers \ {c} : d \in Users \ {c}
  BY LfqAssumption DEF Users
<1>3. /\ \A q \in Producers : call'[q] = call[q]
      /\ \A d \in Consumers \ {c} : call'[d] = call[d]
  BY <1>1, <1>2
<1>4. \A q \in Producers : Linked(q)' <=> Linked(q)
  BY <1>3 DEF Linked
<1>5. \A d \in Consumers : /\ Removed(d)' <=> Removed(d)
                           /\ Removed(d) => call'[d].result = call[d].result
  BY <1>1, <1>3 DEF Removed
<1> QED
  BY <1>1, <1>4, <1>5, SameFifo

(* enqueue takes a new node: no node of the chain changes.                 *)
LEMMA RoomFifo ==
  ASSUME NEW p \in Producers, p \in team, UNCHANGED team, LfqBase, enqueue_room(p),
         NEW n, NEW s, Queue(n, s),
         IF team \subseteq Producers THEN OnlyProducers(n, s) ELSE Pair(n, s)
  PROVE  FifoSame
<1>1. /\ Queue(n, s)' /\ UNCHANGED <<enqueued, dequeued>>
      /\ \A i \in 1 .. n : data'[s[i]] = data[s[i]]
      /\ \A q \in Producers : Linked(q)' <=> Linked(q)
      /\ \A c \in Consumers : call'[c] = call[c]
  BY EnqueueRoom
<1>2. \A c \in Consumers : /\ Removed(c)' <=> Removed(c)
                           /\ Removed(c) => call'[c].result = call[c].result
  BY <1>1 DEF Removed
<1>3. ItemsIn' = ItemsIn
  BY <1>1, SameItems
<1> QED
  BY <1>1, <1>2, <1>3, SamePut, SameTaken DEF FifoSame

(* Counting an item that is linked: Fifo has counted it already.           *)
LEMMA CountFifo ==
  ASSUME NEW p \in Producers, p \in team, UNCHANGED team, LfqBase, enqueue_count(p),
         NEW n, NEW s, Queue(n, s),
         IF team \subseteq Producers THEN OnlyProducers(n, s) ELSE Pair(n, s)
  PROVE  FifoSame
<1>1. /\ Queue(n, s)' /\ UNCHANGED <<data, dequeued>>
      /\ Linked(p) /\ ~Linked(p)' /\ enqueued' = [enqueued EXCEPT ![p] = @ + 1]
      /\ \A q \in Producers \ {p} : call'[q] = call[q]
      /\ \A c \in Consumers : call'[c] = call[c]
  BY EnqueueCount
<1>2. \A c \in Consumers : /\ Removed(c)' <=> Removed(c)
                           /\ Removed(c) => call'[c].result = call[c].result
  BY <1>1 DEF Removed
<1>3. ItemsIn' = ItemsIn
  BY <1>1, SameItems
<1>4. enqueued \in [Producers -> Nat]
  BY DEF LfqBase, LfqTypeOK
<1>5. ASSUME NEW q \in Producers
      PROVE  enqueued'[q] + (IF call'[q].pc \in {"swing", "count"} THEN 1 ELSE 0)
               = enqueued[q] + IF call[q].pc \in {"swing", "count"} THEN 1 ELSE 0
  BY <1>1, <1>4 DEF Linked
<1>6. PutBy' = PutBy
  BY <1>5 DEF PutBy
<1> QED
  BY <1>1, <1>2, <1>3, <1>6, SameTaken DEF FifoSame

(* What Fifo counts as taken by a consumer: the result of a dequeue whose  *)
(* head has moved on is taken, though it has not returned it yet.          *)
LEMMA TakenAre ==
  LfqTypeOK => \A c \in Consumers :
    TakenBy[c] = IF Removed(c) THEN Append(dequeued[c], call[c].result) ELSE dequeued[c]
<1> SUFFICES ASSUME LfqTypeOK, NEW c \in Consumers
             PROVE  TakenBy[c] = IF Removed(c) THEN Append(dequeued[c], call[c].result)
                                               ELSE dequeued[c]
  OBVIOUS
<1>1. dequeued[c] \in Seq(Values) /\ call[c].result \in Values
  BY DEF LfqTypeOK, QueueCalls, Users
<1>2. dequeued[c] \o <<>> = dequeued[c]
  BY <1>1, ConcatEmptySeq
<1>3. Append(dequeued[c], call[c].result) = dequeued[c] \o <<call[c].result>>
  BY <1>1, AppendIsConcat
<1>4. TakenBy[c] = dequeued[c] \o IF Removed(c) THEN <<call[c].result>> ELSE <<>>
  BY DEF TakenBy, Removed
<1> QED
  BY <1>2, <1>3, <1>4

LEMMA TakenWillBe ==
  (LfqTypeOK => \A c \in Consumers :
    TakenBy[c] = IF Removed(c) THEN Append(dequeued[c], call[c].result) ELSE dequeued[c])'
BY TakenAre, PTL

LEMMA TakenIsFunction == /\ TakenBy  = [c \in Consumers |-> TakenBy[c]]
                         /\ TakenBy' = [c \in Consumers |-> TakenBy'[c]]
BY DEF TakenBy

LEMMA SubFifo ==
  ASSUME NEW c \in Consumers, c \in team, UNCHANGED team, LfqBase, dequeue_sub(c),
         NEW n, NEW s, Queue(n, s),
         IF team \subseteq Producers THEN OnlyProducers(n, s) ELSE Pair(n, s)
  PROVE  FifoSame
<1>1. /\ Queue(n, s)' /\ UNCHANGED <<data, enqueued, dequeued>>
      /\ call'[c].result = call[c].result /\ Removed(c) /\ Removed(c)'
      /\ \A p \in Producers : call'[p] = call[p]
      /\ \A d \in Consumers \ {c} : call'[d] = call[d]
  BY DequeueSub
<1>2. \A q \in Producers : Linked(q)' <=> Linked(q)
  BY <1>1 DEF Linked
<1>3. \A d \in Consumers : /\ Removed(d)' <=> Removed(d)
                           /\ Removed(d) => call'[d].result = call[d].result
  BY <1>1 DEF Removed
<1> QED
  BY <1>1, <1>2, <1>3, SameFifo

(* dequeue deletes the old dummy and returns: Fifo has seen the item leave *)
(* already.                                                                *)
LEMMA DeleteFifo ==
  ASSUME NEW c \in Consumers, c \in team, UNCHANGED team, LfqBase, dequeue_delete(c),
         NEW n, NEW s, Queue(n, s),
         IF team \subseteq Producers THEN OnlyProducers(n, s) ELSE Pair(n, s)
  PROVE  FifoSame
<1>1. /\ LfqBase' /\ Queue(n, s)' /\ UNCHANGED <<data, enqueued>>
      /\ dequeued' = [dequeued EXCEPT ![c] = Append(@, call[c].result)]
      /\ Removed(c) /\ ~Removed(c)'
      /\ \A p \in Producers : call'[p] = call[p]
      /\ \A d \in Consumers \ {c} : call'[d] = call[d]
  BY DequeueDelete
<1>2. \A q \in Producers : Linked(q)' <=> Linked(q)
  BY <1>1 DEF Linked
<1>3. ItemsIn' = ItemsIn /\ PutBy' = PutBy
  BY <1>1, <1>2, SameItems, SamePut
<1>4. ASSUME NEW d \in Consumers PROVE TakenBy'[d] = TakenBy[d]
  <2>1. /\ TakenBy[d] = IF Removed(d) THEN Append(dequeued[d], call[d].result)
                                      ELSE dequeued[d]
        /\ TakenBy'[d] = IF Removed(d)' THEN Append(dequeued'[d], call'[d].result)
                                        ELSE dequeued'[d]
    BY <1>1, TakenAre, TakenWillBe DEF LfqBase
  <2>2. dequeued \in [Consumers -> Seq(Values)]
    BY DEF LfqBase, LfqTypeOK
  <2>3. CASE d = c
    BY <2>1, <2>2, <2>3, <1>1
  <2>4. CASE d # c
    <3>1. dequeued'[d] = dequeued[d] /\ call'[d] = call[d]
      BY <2>2, <2>4, <1>1
    <3>2. Removed(d)' <=> Removed(d)
      BY <3>1 DEF Removed
    <3> QED
      BY <2>1, <3>1, <3>2
  <2> QED
    BY <2>3, <2>4
<1>5. TakenBy' = TakenBy
  BY <1>4, TakenIsFunction
<1> QED
  BY <1>3, <1>5 DEF FifoSame

(* The queue has room when a node is linked: no more producers are past    *)
(* the test of its size than there are.                                    *)
LEMMA LinkHasRoom ==
  ASSUME NEW p \in Producers, p \in team, LfqBase, NEW n, NEW s, Queue(n, s),
         IF team \subseteq Producers THEN OnlyProducers(n, s) ELSE Pair(n, s),
         call[p].pc = "link"
  PROVE  n - 1 < QueueCapacity + Cardinality(Producers) - 1
<1>1. PICK N \in Nat : N = Cardinality(Producers) /\ N > 0
  <2>1. IsFiniteSet(Producers) /\ Producers # {}
    BY LfqAssumption
  <2> QED
    BY <2>1, FS_CardinalityType, FS_EmptySet
<1>2. n \in Nat \ {0} /\ QueueCapacity \in Nat \ {0}
  BY LfqAssumption DEF Queue
<1>3. CASE team \subseteq Producers
  <2>1. /\ n - 1 = size + Cardinality(Uncounted)
        /\ size + Cardinality(InCall) <= QueueCapacity + Cardinality(Producers) - 1
    BY <1>3 DEF OnlyProducers, ProducersCount
  <2>2. IsFiniteSet(InCall) /\ Uncounted \subseteq InCall /\ Uncounted # InCall
    <3>1. p \in InCall /\ p \notin Uncounted /\ InCall \subseteq Producers
      BY DEF InCall, Uncounted, Linked
    <3>2. Uncounted \subseteq InCall
      BY DEF InCall, Uncounted, Linked
    <3> QED
      BY <3>1, <3>2, LfqAssumption, FS_Subset
  <2>3. PICK u \in Nat, v \in Nat : u = Cardinality(Uncounted) /\ v = Cardinality(InCall) /\ u < v
    <3>1. IsFiniteSet(Uncounted) /\ Cardinality(Uncounted) <= Cardinality(InCall)
          /\ Cardinality(Uncounted) # Cardinality(InCall)
      BY <2>2, FS_Subset
    <3>2. Cardinality(Uncounted) \in Nat /\ Cardinality(InCall) \in Nat
      BY <2>2, <3>1, FS_CardinalityType
    <3> QED
      BY <3>1, <3>2
  <2>4. PICK z \in Nat : z = size
    <3>1. size \in 0 .. SizeModulus - 1 /\ SizeModulus \in Nat
      BY LfqAssumption DEF LfqBase, LfqTypeOK
    <3> QED
      BY <3>1
  <2> QED
    BY <2>1, <2>3, <2>4, <1>1, <1>2
<1>4. CASE ~(team \subseteq Producers)
  <2>1. PICK q \in Producers, c \in Consumers :
          team \subseteq {q, c} /\ PairCount(q, c, n)
    BY <1>4 DEF Pair
  <2>2. q = p
    BY <2>1, UserKinds
  <2>3. ToLink(p) = 1 /\ ToSubtract(c) \in {0, 1}
    BY DEF ToLink, ToSubtract, Holding
  <2>4. n - 1 + ToSubtract(c) + 1 <= QueueCapacity
    BY <2>1, <2>2, <2>3 DEF PairCount
  <2> QED
    BY <2>3, <2>4, <1>1, <1>2
<1> QED
  BY <1>3, <1>4

(* The link of a node appends the producer's next item.                    *)
LEMMA LinkPuts ==
  ASSUME NEW p \in Producers, p \in team, LfqBase, NEW n, NEW s, Queue(n, s),
         IF team \subseteq Producers THEN OnlyProducers(n, s) ELSE Pair(n, s),
         NEW m, NEW h, NEW r, LinkStep(p, n, s, m, h, r)
  PROVE  LfqFifo!Put(p)
<1>1. /\ m = call[p].node /\ Holding(p) /\ h = n + 1
      /\ call[p].pc = "link" /\ call'[p].pc = "swing" /\ OnlyCall(p)
      /\ UNCHANGED <<data, enqueued, dequeued>>
  BY DEF LinkStep
<1>2. r[h] = m /\ \A j \in 1 .. n : r[j] = s[j]
  BY DEF LinkStep, IsLinked
<1>3. /\ \A q \in Producers \ {p} : call'[q] = call[q]
      /\ \A c \in Consumers : call'[c] = call[c]
  BY <1>1, UserKinds DEF OnlyCall, Users
<1>4. n \in Nat \ {0} /\ enqueued \in [Producers -> Nat]
  BY DEF Queue, LfqBase, LfqTypeOK
<1>5. data[m] = <<p, enqueued[p] + 1>>
  BY <1>1 DEF LfqBase, HeldOK
<1>6. enqueued[p] < Quota
  BY <1>1 DEF LfqBase, QuotaOK
<1>7. PutBy[p] = enqueued[p] /\ PutBy' = [PutBy EXCEPT ![p] = @ + 1]
  <2>1. PutBy[p] = enqueued[p] /\ PutBy'[p] = enqueued[p] + 1
    BY <1>1, <1>4 DEF PutBy
  <2>2. \A q \in Producers \ {p} : PutBy'[q] = PutBy[q]
    BY <1>1, <1>3 DEF PutBy
  <2>3. PutBy = [q \in Producers |-> PutBy[q]] /\ PutBy' = [q \in Producers |-> PutBy'[q]]
    BY DEF PutBy
  <2> QED
    BY <2>1, <2>2, <2>3
<1>8. TakenBy' = TakenBy
  <2>1. \A c \in Consumers : /\ Removed(c)' <=> Removed(c)
                             /\ Removed(c) => call'[c].result = call[c].result
    BY <1>3 DEF Removed
  <2> QED
    BY <2>1, <1>1, SameTaken
<1>9. ItemsIn = ItemsOf(n, s) /\ ItemsIn' = ItemsOf(h, r)'
  BY EnqueueLink, ItemsAre, ItemsWillBe
<1>10. PICK e : e = <<p, enqueued[p] + 1>>
  OBVIOUS
<1>11. Len(ItemsIn) = n - 1 /\ ItemsIn' = Append(ItemsIn, e)
  <2>1. ItemsIn' = [k \in 1 .. n |-> data[r[k + 1]]]
    BY <1>1, <1>4, <1>9 DEF ItemsOf
  <2>2. ItemsIn = [k \in 1 .. n - 1 |-> data[s[k + 1]]]
    BY <1>9 DEF ItemsOf
  <2>3. Len(ItemsIn) = n - 1
    BY <2>2, <1>4
  <2>4. \A k \in 1 .. n - 1 : data[r[k + 1]] = data[s[k + 1]]
    BY <1>2, <1>4
  <2>5. data[r[n + 1]] = e
    BY <1>1, <1>2, <1>5, <1>10
  <2>6. Append(ItemsIn, e) = [k \in 1 .. n |-> IF k = n THEN e ELSE data[s[k + 1]]]
    BY <2>2, <2>3, <1>4
  <2>7. \A k \in 1 .. n : k = n \/ k \in 1 .. n - 1
    BY <1>4
  <2> QED
    BY <2>1, <2>3, <2>4, <2>5, <2>6, <2>7
<1>12. Len(ItemsIn) < QueueCapacity + Cardinality(Producers) - 1
  BY <1>1, <1>11, LinkHasRoom
<1> QED
  BY <1>6, <1>7, <1>8, <1>10, <1>11, <1>12 DEF LfqFifo!Put, PutBy, TakenBy, ItemsIn

(* The move of head takes the oldest item, which the consumer has read.    *)
LEMMA TakeTakes ==
  ASSUME NEW c \in Consumers, c \in team, LfqBase, NEW n, NEW s, Queue(n, s),
         IF team \subseteq Producers THEN OnlyProducers(n, s) ELSE Pair(n, s),
         NEW h, NEW r, TakeStep(c, n, s, h, r)
  PROVE  LfqFifo!Take(c)
<1>1. /\ n > 1 /\ h = n - 1 /\ call[c].pc = "cas" /\ call'[c].pc = "sub" /\ OnlyCall(c)
      /\ call'[c].result = data[s[2]] /\ UNCHANGED <<data, enqueued, dequeued>>
      /\ \A j \in 1 .. h : r[j] = s[j + 1]
  BY DEF TakeStep, IsRest
<1>2. /\ LfqBase' /\ Queue(h, r)' /\ \A p \in Producers : call'[p] = call[p]
  BY DequeueTake
<1>3. \A d \in Consumers \ {c} : call'[d] = call[d]
  BY <1>1 DEF OnlyCall, Users
<1>4. n \in Nat \ {0} /\ dequeued \in [Consumers -> Seq(Values)]
  BY DEF Queue, LfqBase, LfqTypeOK
<1>5. PutBy' = PutBy
  BY <1>1, <1>2, SamePut DEF Linked
<1>6. ItemsIn = ItemsOf(n, s) /\ ItemsIn' = ItemsOf(h, r)'
  BY <1>2, ItemsAre, ItemsWillBe
<1>7. ItemsIn = [k \in 1 .. n - 1 |-> data[s[k + 1]]]
  BY <1>6 DEF ItemsOf
<1>8. ItemsIn' = [k \in 1 .. n - 2 |-> data[s[k + 2]]]
  <2>1. ItemsIn' = [k \in 1 .. h - 1 |-> data[r[k + 1]]]
    BY <1>1, <1>6 DEF ItemsOf
  <2>2. \A k \in 1 .. h - 1 : r[k + 1] = s[k + 2]
    <3> SUFFICES ASSUME NEW k \in 1 .. h - 1 PROVE r[k + 1] = s[k + 2]
      OBVIOUS
    <3>1. k + 1 \in 1 .. h /\ (k + 1) + 1 = k + 2
      BY <1>1, <1>4
    <3> QED
      BY <3>1, <1>1
  <2>3. h - 1 = n - 2
    BY <1>1, <1>4
  <2> QED
    BY <2>1, <2>2, <2>3
<1>9. PICK v : v = data[s[2]]
  OBVIOUS
<1>10. /\ ItemsIn # <<>> /\ Head(ItemsIn) = v /\ ItemsIn' = Tail(ItemsIn)
  <2>1. Len(ItemsIn) = n - 1 /\ ItemsIn[1] = v
    BY <1>1, <1>4, <1>7, <1>9
  <2>2. ItemsIn # <<>> /\ Head(ItemsIn) = v
    BY <2>1, <1>1, <1>4
  <2>3. Tail(ItemsIn) = [k \in 1 .. n - 2 |-> ItemsIn[k + 1]]
    BY <2>1, <1>1, <1>4, <1>7
  <2>4. \A k \in 1 .. n - 2 : ItemsIn[k + 1] = data[s[k + 2]]
    BY <1>4, <1>7
  <2> QED
    BY <2>2, <2>3, <2>4, <1>8
<1>11. ~Removed(c) /\ Removed(c)' /\ \A d \in Consumers \ {c} : Removed(d)' <=> Removed(d)
  BY <1>1, <1>3 DEF Removed
<1>12. TakenBy' = [TakenBy EXCEPT ![c] = Append(@, v)]
  <2>1. \A d \in Consumers :
          /\ TakenBy[d] = IF Removed(d) THEN Append(dequeued[d], call[d].result)
                                        ELSE dequeued[d]
          /\ TakenBy'[d] = IF Removed(d)' THEN Append(dequeued'[d], call'[d].result)
                                          ELSE dequeued'[d]
    BY <1>2, TakenAre, TakenWillBe DEF LfqBase
  <2>2. TakenBy[c] = dequeued[c] /\ TakenBy'[c] = Append(dequeued[c], v)
    BY <2>1, <1>1, <1>9, <1>11
  <2>3. \A d \in Consumers \ {c} : TakenBy'[d] = TakenBy[d]
    BY <2>1, <1>1, <1>3, <1>11
  <2> QED
    BY <2>2, <2>3, TakenIsFunction
<1> QED
  BY <1>5, <1>10, <1>12 DEF LfqFifo!Take, PutBy, TakenBy, ItemsIn

-----------------------------------------------------------------------------
(* Every step keeps the invariant, and is a step of Fifo or hidden from it. *)

LEMMA StillWorking ==
  ASSUME LfqBase', Working', NEW n, NEW s, Queue(n, s)'
  PROVE  LfqInv'
<1>1. head' # NoNode
  BY LfqAssumption DEF Queue
<1> QED
  BY <1>1 DEF LfqInv, LfqBase

LEMMA LfqUnchanged ==
  ASSUME LfqInv, UNCHANGED lfqvars
  PROVE  LfqInv' /\ FifoSame
<1>1. /\ head' = head /\ next' = next /\ data' = data /\ call' = call
      /\ enqueued' = enqueued /\ dequeued' = dequeued
  BY DEF lfqvars, nodevars
<1>2. Reach' = Reach
  BY <1>1 DEF Reach
<1>3. Chain' = Chain
  BY <1>2 DEF Chain
<1>4. ItemsIn' = ItemsIn
  BY <1>1, <1>3 DEF ItemsIn
<1>5. PutBy' = PutBy /\ TakenBy' = TakenBy
  BY <1>1 DEF PutBy, TakenBy
<1> QED
  BY <1>4, <1>5, LfqInvStutter DEF FifoSame

LEMMA ProducerSteps ==
  ASSUME NEW p \in Producers, LfqProducer(p), LfqInv, head # NoNode
  PROVE  LfqInv' /\ (FifoSame \/ LfqFifo!Put(p))
<1>1. p \in team /\ UNCHANGED team /\ LfqBase
  BY DEF LfqProducer, LfqInv, LfqBase
<1>2. PICK n, s : Queue(n, s) /\ IF team \subseteq Producers
                                 THEN OnlyProducers(n, s) ELSE Pair(n, s)
  BY DEF LfqInv, Working
<1>3. ASSUME PQuiet(p), LfqBase', Queue(n, s)', Working'
      PROVE  LfqInv' /\ FifoSame
  BY <1>2, <1>3, StillWorking, EnqueueQuietFifo
<1>4. CASE enqueue_full(p)
  BY <1>1, <1>4, LfqUnchanged DEF enqueue_full, lfqvars
<1>5. CASE enqueue_room(p)
  BY <1>1, <1>2, <1>5, EnqueueRoom, RoomFifo, StillWorking
<1>6. CASE enqueue_tail(p)
  BY <1>1, <1>2, <1>3, <1>6, EnqueueTail
<1>7. CASE enqueue_recheck(p)
  BY <1>1, <1>2, <1>3, <1>7, EnqueueRecheck
<1>8. CASE enqueue_next(p)
  BY <1>1, <1>2, <1>3, <1>8, EnqueueNext
<1>9. CASE enqueue_link(p) /\ next[call[p].old] = NoNode
  <2>1. PICK m, h, r : LinkStep(p, n, s, m, h, r)
    BY <1>1, <1>2, <1>9, LinkWorks
  <2>2. LfqBase' /\ Queue(h, r)' /\ Working'
    BY <2>1, <1>1, <1>2, EnqueueLink
  <2>3. LfqFifo!Put(p)
    BY <2>1, <1>1, <1>2, LinkPuts
  <2> QED
    BY <2>2, <2>3, StillWorking
<1>10. CASE enqueue_link(p) /\ next[call[p].old] # NoNode
  BY <1>1, <1>2, <1>3, <1>10, LinkFails
<1>11. CASE enqueue_help(p)
  BY <1>1, <1>2, <1>3, <1>11, EnqueueHelp
<1>12. CASE enqueue_swing(p)
  BY <1>1, <1>2, <1>3, <1>12, EnqueueSwing
<1>13. CASE enqueue_count(p)
  BY <1>1, <1>2, <1>13, EnqueueCount, CountFifo, StillWorking
<1> QED
  BY <1>4, <1>5, <1>6, <1>7, <1>8, <1>9, <1>10, <1>11, <1>12, <1>13 DEF LfqProducer

LEMMA ConsumerSteps ==
  ASSUME NEW c \in Consumers, LfqConsumer(c), LfqInv, head # NoNode
  PROVE  LfqInv' /\ (FifoSame \/ LfqFifo!Take(c))
<1>1. c \in team /\ UNCHANGED team /\ LfqBase
  BY DEF LfqConsumer, LfqInv, LfqBase
<1>2. PICK n, s : Queue(n, s) /\ IF team \subseteq Producers
                                 THEN OnlyProducers(n, s) ELSE Pair(n, s)
  BY DEF LfqInv, Working
<1>3. CASE \/ dequeue_head(c) \/ dequeue_next(c) \/ dequeue_recheck(c) \/ dequeue_read(c)
           \/ dequeue_cas(c) /\ head # call[c].old
  <2>1. CQuiet(c) /\ LfqBase' /\ Queue(n, s)' /\ Working'
    BY <1>1, <1>2, <1>3, DequeueQuiet
  <2> QED
    BY <2>1, <1>2, StillWorking, DequeueQuietFifo
<1>4. CASE dequeue_cas(c) /\ head = call[c].old
  <2>1. PICK h, r : TakeStep(c, n, s, h, r)
    BY <1>1, <1>2, <1>4, TakeWorks
  <2>2. LfqBase' /\ Queue(h, r)' /\ Working'
    BY <2>1, <1>1, <1>2, DequeueTake
  <2>3. LfqFifo!Take(c)
    BY <2>1, <1>1, <1>2, TakeTakes
  <2> QED
    BY <2>2, <2>3, StillWorking
<1>5. CASE dequeue_sub(c)
  BY <1>1, <1>2, <1>5, DequeueSub, SubFifo, StillWorking
<1>6. CASE dequeue_delete(c)
  BY <1>1, <1>2, <1>6, DequeueDelete, DeleteFifo, StillWorking
<1> QED
  BY <1>3, <1>4, <1>5, <1>6 DEF LfqConsumer

(* After main has destroyed the queue nothing runs.                        *)
LEMMA NothingRuns ==
  ASSUME LfqInv, head = NoNode
  PROVE  /\ \A p \in Producers : ~LfqProducer(p)
         /\ \A c \in Consumers : ~LfqConsumer(c)
<1>1. LfqBase /\ LfqJoined
  BY DEF LfqInv, LfqBase, Destroyed
<1>2. /\ \A p \in Producers : call[p].pc = "call"
      /\ \A c \in Consumers : call[c].pc = "call"
  BY <1>1, JoinedIdle DEF Users
<1>3. ASSUME NEW p \in Producers, LfqProducer(p) PROVE FALSE
  <2>1. ~(enqueued[p] < Quota)
    BY <1>1, <1>3, LfqAssumption DEF LfqJoined, LfqProducer
  <2> QED
    BY <2>1, <1>2, <1>3
       DEF LfqProducer, enqueue_full, enqueue_room, newNode, enqueue_tail, enqueue_recheck,
           enqueue_next, enqueue_link, enqueue_help, enqueue_swing, enqueue_count, Moves
<1>4. ASSUME NEW c \in Consumers, LfqConsumer(c) PROVE FALSE
  <2>1. ~(Len(dequeued[c]) < Quota)
    BY <1>1, <1>4, LfqAssumption DEF LfqJoined, LfqConsumer
  <2> QED
    BY <2>1, <1>2, <1>4
       DEF LfqConsumer, dequeue_head, dequeue_next, dequeue_recheck, dequeue_read,
           dequeue_cas, dequeue_sub, dequeue_delete, deletes, Moves
<1> QED
  BY <1>3, <1>4

(* The destructor deletes the dummy, the one node left.                    *)
LEMMA DestroyStep ==
  ASSUME LfqInv, destroy_queue
  PROVE  LfqInv' /\ FifoSame
<1>1. /\ LfqJoined /\ head # NoNode /\ head' = NoNode /\ LfqBase
      /\ allocated' = allocated \ {Chain[k] : k \in DOMAIN Chain}
      /\ UNCHANGED <<tail, size, data, next, call, team, enqueued, dequeued>>
  BY DEF destroy_queue, LfqInv, LfqBase
<1>2. PICK n, s : Queue(n, s) /\ IF team \subseteq Producers
                                 THEN OnlyProducers(n, s) ELSE Pair(n, s)
  BY <1>1 DEF LfqInv, Working
<1>3. n = 1 /\ allocated = {s[i] : i \in 1 .. n}
  BY <1>1, <1>2, JoinedEmpty
<1>4. Chain = s /\ DOMAIN Chain = 1 .. n
  BY <1>2, ChainIs
<1>5. allocated' = {}
  BY <1>1, <1>3, <1>4
<1>6. LfqJoined'
  BY <1>1 DEF LfqJoined
<1>7. LfqTypeOK'
  BY <1>1, <1>5 DEF LfqBase, LfqTypeOK, Nodes
<1>8. IdleOK' /\ QuotaOK' /\ HeldOK'
  BY <1>1 DEF LfqBase, IdleOK, QuotaOK, HeldOK, Holding
<1>9. ItemsIn = <<>> /\ ItemsIn' = <<>>
  <2>1. ItemsIn = ItemsOf(1, s)
    BY <1>2, <1>3, ItemsAre
  <2>2. ItemsOf(1, s) = <<>>
    BY DEF ItemsOf
  <2> QED
    BY <2>1, <2>2, <1>1 DEF ItemsIn
<1>10. PutBy' = PutBy /\ TakenBy' = TakenBy
  BY <1>1 DEF PutBy, TakenBy
<1> QED
  BY <1>1, <1>5, <1>6, <1>7, <1>8, <1>9, <1>10 DEF LfqInv, Destroyed, FifoSame

LEMMA LfqSteps ==
  ASSUME LfqInv, [LfqNext]_lfqvars
  PROVE  /\ LfqInv'
         /\ \/ FifoSame \/ \E p \in Producers : LfqFifo!Put(p)
            \/ \E c \in Consumers : LfqFifo!Take(c)
<1>1. CASE UNCHANGED lfqvars
  BY <1>1, LfqUnchanged
<1>2. ASSUME NEW p \in Producers, LfqProducer(p)
      PROVE  LfqInv' /\ (FifoSame \/ LfqFifo!Put(p))
  BY <1>2, ProducerSteps, NothingRuns
<1>3. ASSUME NEW c \in Consumers, LfqConsumer(c)
      PROVE  LfqInv' /\ (FifoSame \/ LfqFifo!Take(c))
  BY <1>3, ConsumerSteps, NothingRuns
<1>4. CASE destroy_queue
  BY <1>4, DestroyStep
<1> QED
  BY <1>1, <1>2, <1>3, <1>4 DEF LfqNext

-----------------------------------------------------------------------------
(* No node is used after its deletion, and none is lost.                   *)

LEMMA TouchesIs ==
  ASSUME NEW th
  PROVE  /\ call[th].pc \in {"next", "link", "delete"} => Touches(th) = {call[th].old}
         /\ call[th].pc = "read" => Touches(th) = {call[th].succ}
         /\ call[th].pc \notin {"next", "link", "delete", "read"} => Touches(th) = {}
BY DEF Touches

LEMMA LfqInvNodes == LfqInv => LfqNodesSound
<1> SUFFICES ASSUME LfqInv PROVE LfqNodesSound
  OBVIOUS
<1>1. LfqBase
  BY DEF LfqInv, LfqBase
<1>2. CASE head = NoNode
  <2>1. allocated = {} /\ \A th \in Users : call[th].pc = "call"
    BY <1>1, <1>2, JoinedIdle DEF LfqInv, Destroyed
  <2>2. LfqNoDangling
    BY <2>1, TouchesIs DEF LfqNoDangling, Users
  <2>3. LfqNoLeak
    BY <2>1, <1>2 DEF LfqNoLeak, Users
  <2> QED
    BY <2>2, <2>3 DEF LfqNodesSound
<1>3. CASE head # NoNode
  <2>1. PICK n, s : Queue(n, s) /\ IF team \subseteq Producers
                                   THEN OnlyProducers(n, s) ELSE Pair(n, s)
    BY <1>3 DEF LfqInv, Working
  <2>2. /\ n \in Nat \ {0} /\ s \in [1 .. n -> QueueNodes] /\ 1 \in 1 .. n
        /\ allocated = {s[i] : i \in 1 .. n} \cup Held \cup Gone
    BY <2>1 DEF Queue
  <2>3. ASSUME NEW p \in Producers PROVE Touches(p) \subseteq allocated
    <3>1. call[p].pc \in ProducerPcs
      BY <1>1 DEF LfqBase, LfqTypeOK
    <3>2. CASE call[p].pc \in {"next", "link"}
      <4>1. p \in team
        BY <3>2, <1>1, UserKinds DEF LfqBase, IdleOK
      <4>2. call[p].old \in allocated
        BY <4>1, <3>2, <2>1, <2>2, OldInChain
      <4> QED
        BY <4>2, <3>2, TouchesIs
    <3>3. CASE call[p].pc \notin {"next", "link"}
      BY <3>1, <3>3, TouchesIs DEF ProducerPcs
    <3> QED
      BY <3>2, <3>3
  <2>4. ASSUME NEW c \in Consumers PROVE Touches(c) \subseteq allocated
    <3>1. call[c].pc \in ConsumerPcs
      BY <1>1 DEF LfqBase, LfqTypeOK
    <3>2. CASE call[c].pc = "delete"
      <4>1. call[c].old \in Gone
        BY <3>2 DEF Gone, Removed
      <4> QED
        BY <4>1, <3>2, <2>2, TouchesIs
    <3>3. CASE call[c].pc \in {"next", "read"}
      <4>1. c \in team
        BY <3>3, <1>1 DEF LfqBase, IdleOK, Users
      <4>2. PICK p \in Producers : PairLinks(p, c, n, s)
        BY <4>1, <1>1, <2>1, ConsumerInPair
      <4>3. n > 1 => 2 \in 1 .. n
        BY <2>2
      <4>4. CASE call[c].pc = "next"
        BY <4>2, <4>4, <2>2, TouchesIs DEF PairLinks
      <4>5. CASE call[c].pc = "read"
        BY <4>2, <4>3, <4>5, <2>2, TouchesIs DEF PairLinks
      <4> QED
        BY <4>4, <4>5, <3>3
    <3>4. CASE call[c].pc \notin {"next", "read", "delete"}
      BY <3>1, <3>4, TouchesIs DEF ConsumerPcs
    <3> QED
      BY <3>2, <3>3, <3>4
  <2>5. LfqNoDangling
    BY <2>3, <2>4 DEF LfqNoDangling
  <2>6. Chain = s /\ DOMAIN Chain = 1 .. n
    BY <2>1, ChainIs
  <2>7. LfqNoLeak
    BY <2>2, <2>6, <1>3 DEF LfqNoLeak, Held, Gone, Holding, Removed
  <2> QED
    BY <2>5, <2>7 DEF LfqNodesSound
<1> QED
  BY <1>2, <1>3

(* For those teams LfqInv has the nodes sound.  It is no more than a step  *)
(* on the way: with two consumers dequeue looks into a deleted node        *)
(* (QueueMany.cfg).                                                        *)
LEMMA QueueNodesAreSound ==
  ASSUME TeamsSound
  PROVE  LfqSpec => []LfqNodesSound
<1>1. LfqInit => LfqInv
  BY LfqInitInv
<1>2. LfqInv /\ [LfqNext]_lfqvars => LfqInv'
  BY LfqSteps
<1>3. LfqInv => LfqNodesSound
  BY LfqInvNodes
<1> QED
  BY <1>1, <1>2, <1>3, PTL DEF LfqSpec

LEMMA LfqFifoInit ==
  ASSUME TeamsSound, LfqInit
  PROVE  LfqFifo!Init
<1>1. LfqInv /\ head # NoNode
  BY LfqInitInv, LfqAssumption DEF LfqInit
<1>2. PICK n, s : Queue(n, s) /\ IF team \subseteq Producers
                                 THEN OnlyProducers(n, s) ELSE Pair(n, s)
  BY <1>1 DEF LfqInv, Working
<1>3. n = 1
  <2>1. n \in Nat \ {0} /\ s \in [1 .. n -> QueueNodes] /\ 1 \in 1 .. n
        /\ next[s[1]] = IF 1 < n THEN s[2] ELSE NoNode
    BY <1>2 DEF Queue
  <2>2. \A m \in QueueNodes : next[m] = NoNode
    BY DEF LfqInit
  <2>3. n > 1 => 2 \in 1 .. n
    BY <2>1
  <2> QED
    BY <2>1, <2>2, <2>3, LfqAssumption
<1>4. ItemsIn = <<>>
  <2>1. ItemsIn = ItemsOf(1, s)
    BY <1>2, <1>3, ItemsAre
  <2> QED
    BY <2>1 DEF ItemsOf
<1>5. /\ \A p \in Producers : call[p].pc = "call" /\ enqueued[p] = 0
      /\ \A c \in Consumers : call[c].pc = "call" /\ dequeued[c] = <<>>
  BY DEF LfqInit
<1>6. PutBy = [p \in Producers |-> 0]
  BY <1>5 DEF PutBy
<1>7. TakenBy = [c \in Consumers |-> <<>>]
  <2>1. \A c \in Consumers : TakenBy[c] = <<>>
    BY <1>1, <1>5, TakenAre DEF LfqInv, Removed
  <2> QED
    BY <2>1, TakenIsFunction
<1> QED
  BY <1>4, <1>6, <1>7 DEF LfqFifo!Init, ItemsIn, PutBy, TakenBy

(* LockFreeQueue, when it is used by producers only or by one producer and *)
(* one consumer: the links and the moves of head put and take the items of *)
(* one FIFO queue, each producer's in its order, none lost and none twice, *)
(* though no call takes a lock, tail may lag behind and the counter may    *)
(* wrap below zero.  The queue overshoots its capacity by at most one item *)
(* for every further producer.                                             *)
THEOREM QueueImplementsFifo ==
  ASSUME TeamsSound
  PROVE  LfqSpec => LfqIsFifo
<1>1. LfqInit => LfqInv
  BY LfqInitInv
<1>2. LfqInv /\ [LfqNext]_lfqvars => LfqInv'
  BY LfqSteps
<1>3. LfqInit => LfqFifo!Init
  BY LfqFifoInit
<1>4. LfqInv /\ [LfqNext]_lfqvars => [LfqFifo!Next]_(LfqFifo!fifovars)
  <2> SUFFICES ASSUME LfqInv, [LfqNext]_lfqvars
               PROVE  [LfqFifo!Next]_(LfqFifo!fifovars)
    OBVIOUS
  <2>1. CASE FifoSame
    BY <2>1 DEF FifoSame, ItemsIn, PutBy, TakenBy, LfqFifo!fifovars
  <2>2. CASE \/ \E p \in Producers : LfqFifo!Put(p)
             \/ \E c \in Consumers : LfqFifo!Take(c)
    BY <2>2 DEF LfqFifo!Next
  <2> QED
    BY <2>1, <2>2, LfqSteps
<1> QED
  BY <1>1, <1>2, <1>3, <1>4, PTL DEF LfqSpec, LfqIsFifo, LfqFifo!Spec

=============================================================================
