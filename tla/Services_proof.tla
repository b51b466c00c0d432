--------------------------- MODULE Services_proof ---------------------------
(***************************************************************************)
(* DatabaseConnectionPool and SafeCache of chapter 4 and the exclusion     *)
(* registry for any number of threads, connections, keys and functions.    *)
(***************************************************************************)
EXTENDS ConnPool, SafeCache, ExclusionHandle, FiniteSetTheorems, TLAPS

-----------------------------------------------------------------------------
(* DatabaseConnectionPool.  OneOwner is inductive beside the types; that   *)
(* no connection lies idle beside a waiter is preserved because a thread   *)
(* only leaves "woken" by taking a connection or finding none.             *)

PoolTypeOK ==
  /\ connections \in Seq(Connections)
  /\ user \in [PoolUsers -> {"out", "wait", "woken", "holds"}]
  /\ held \in [PoolUsers -> Connections \cup {NoConn}]

PoolInv == PoolTypeOK /\ OneOwner /\ NoneIdleBesideWaiter

Woken == {u \in PoolUsers : user[u] = "woken"}

LEMMA WokenFinite == IsFiniteSet(Woken) /\ Cardinality(Woken) \in Nat
<1>1. Woken \subseteq PoolUsers
  BY DEF Woken
<1> QED
  BY <1>1, ConnAssumption, FS_Subset, FS_CardinalityType

LEMMA WokenCounts ==
  ASSUME NEW S, IsFiniteSet(S), NEW x
  PROVE  /\ Cardinality(S) \in Nat
         /\ x \notin S => Cardinality(S \cup {x}) = Cardinality(S) + 1
         /\ x \in S => Cardinality(S \ {x}) = Cardinality(S) - 1
  BY FS_CardinalityType, FS_AddElement, FS_RemoveElement, Zenon

(* The constructor fills the queue with connections that differ.           *)
LEMMA PoolInitInv == PoolInit => PoolInv
<1> SUFFICES ASSUME PoolInit PROVE PoolInv
  OBVIOUS
<1> DEFINE n == Cardinality(Connections)
           Distinct(s) == \A i, j \in DOMAIN s : s[i] = s[j] => i = j
<1>1. n \in Nat /\ ExistsBijection(1 .. n, Connections)
  BY ConnAssumption, FS_CardinalityType
<1>2. \E s \in [1 .. n -> Connections] : Distinct(s)
  <2>1. PICK s : s \in Bijection(1 .. n, Connections)
    BY <1>1, Zenon DEF ExistsBijection
  <2>2. s \in [1 .. n -> Connections] /\ \A i, j \in 1 .. n : s[i] = s[j] => i = j
    BY <2>1, Zenon DEF Bijection, Injection, IsInjective
  <2> QED BY <2>2, Zenon
<1>3. connections \in [1 .. n -> Connections] /\ Distinct(connections)
  <2>1. connections = CHOOSE s \in [1 .. n -> Connections] : Distinct(s)
    BY Zenon DEF PoolInit
  <2> HIDE DEF Distinct
  <2> QED BY <1>2, <2>1, Zenon
<1>4. connections \in Seq(Connections)
  BY <1>1, <1>3
<1>5. PoolTypeOK
  BY <1>4 DEF PoolInit, PoolTypeOK
<1>6. OneOwner
  <2>1. \A i \in DOMAIN connections : connections[i] # NoConn
    BY <1>3, ConnAssumption
  <2>2. \A u \in PoolUsers : held[u] = NoConn /\ user[u] = "out"
    BY DEF PoolInit
  <2> HIDE DEF n
  <2> QED BY <1>3, <2>1, <2>2, Zenon DEF OneOwner
<1>7. NoneIdleBesideWaiter
  BY DEF PoolInit, NoneIdleBesideWaiter
<1> QED
  BY <1>5, <1>6, <1>7 DEF PoolInv

(* What holds of Head and Tail of a queue of connections.                  *)
LEMMA QueueEnds ==
  ASSUME NEW s \in Seq(Connections), s # <<>>
  PROVE  /\ Head(s) = s[1] /\ 1 \in DOMAIN s /\ s[1] \in Connections
         /\ Tail(s) \in Seq(Connections) /\ Len(Tail(s)) = Len(s) - 1
         /\ \A i \in DOMAIN Tail(s) : i + 1 \in DOMAIN s /\ Tail(s)[i] = s[i + 1] /\ i \in Nat \ {0}
OBVIOUS

LEMMA GetTakes ==
  ASSUME PoolInv, NEW u \in PoolUsers, get_takes(u)
  PROVE  PoolInv'
<1>1. /\ connections # <<>> /\ user[u] # "holds"
      /\ held' = [held EXCEPT ![u] = Head(connections)]
      /\ connections' = Tail(connections)
      /\ user' = [user EXCEPT ![u] = "holds"]
      /\ connections \in Seq(Connections)
  BY DEF get_takes, PoolInv, PoolTypeOK
<1> DEFINE c == Head(connections)
<1>2. /\ c = connections[1] /\ 1 \in DOMAIN connections /\ c \in Connections
      /\ connections' \in Seq(Connections) /\ Len(connections') = Len(connections) - 1
      /\ \A i \in DOMAIN connections' : /\ i \in Nat \ {0} /\ i + 1 \in DOMAIN connections
                                        /\ connections'[i] = connections[i + 1]
  BY <1>1, QueueEnds
<1>3. PoolTypeOK'
  BY <1>1, <1>2 DEF PoolInv, PoolTypeOK
<1>4. /\ \A v \in PoolUsers : held'[v] = IF v = u THEN c ELSE held[v]
      /\ \A v \in PoolUsers : user'[v] = IF v = u THEN "holds" ELSE user[v]
  BY <1>1 DEF PoolInv, PoolTypeOK
<1>5. OneOwner'
  <2> HIDE DEF c
  <2>1. c # NoConn
    BY <1>2, ConnAssumption
  <2>2. \A i, j \in DOMAIN connections' : connections'[i] = connections'[j] => i = j
    BY <1>2 DEF PoolInv, OneOwner
  <2>3. \A i \in DOMAIN connections' : connections'[i] # c
    BY <1>2 DEF PoolInv, OneOwner
  <2>4. \A v \in PoolUsers : \A i \in DOMAIN connections' : connections'[i] # held'[v]
    BY <1>2, <1>4, <2>3 DEF PoolInv, OneOwner
  <2>5. \A v \in PoolUsers : held[v] # c
    BY <1>2 DEF PoolInv, OneOwner
  <2>6. \A v, x \in PoolUsers : held'[v] = held'[x] /\ held'[v] # NoConn => v = x
    BY <1>4, <2>5 DEF PoolInv, OneOwner
  <2>7. \A v \in PoolUsers : held'[v] # NoConn <=> user'[v] = "holds"
    BY <1>4, <2>1 DEF PoolInv, OneOwner
  <2> QED BY <2>2, <2>4, <2>6, <2>7 DEF OneOwner
<1>6. NoneIdleBesideWaiter'
  <2> SUFFICES ASSUME \E v \in PoolUsers : user'[v] = "wait"
               PROVE  Len(connections') <= Cardinality(Woken')
    BY DEF NoneIdleBesideWaiter, Woken
  <2>1. Len(connections) <= Cardinality(Woken)
    BY <1>4 DEF PoolInv, NoneIdleBesideWaiter, Woken
  <2>2. Woken' = Woken \ {u}
    BY <1>4 DEF Woken
  <2>3. Cardinality(Woken') >= Cardinality(Woken) - 1 /\ Cardinality(Woken') \in Nat
    <3>1. CASE u \in Woken
      BY <2>2, <3>1, WokenFinite, WokenCounts, FS_RemoveElement
    <3>2. CASE u \notin Woken
      BY <2>2, <3>2, WokenFinite
    <3> QED BY <3>1, <3>2
  <2> QED BY <1>1, <1>2, <2>1, <2>3, WokenFinite
<1> QED
  BY <1>3, <1>5, <1>6 DEF PoolInv

LEMMA Releases ==
  ASSUME PoolInv, NEW u \in PoolUsers, releaseConnection(u)
  PROVE  PoolInv'
<1> DEFINE waiting == {v \in PoolUsers : user[v] = "wait"}
           c == held[u]
<1>1. PICK S \in SUBSET waiting :
        /\ notified(u, S)
        /\ IF waiting = {} THEN S = {} ELSE \E v \in waiting : S = {v}
  BY DEF releaseConnection
<1>2. /\ user[u] = "holds" /\ connections' = Append(connections, c)
      /\ held' = [held EXCEPT ![u] = NoConn]
      /\ connections \in Seq(Connections) /\ c \in Connections
  BY DEF releaseConnection, gives_back, PoolInv, PoolTypeOK, OneOwner
<1>3. /\ \A v \in PoolUsers : held'[v] = IF v = u THEN NoConn ELSE held[v]
      /\ \A v \in PoolUsers : user'[v] = IF v = u THEN "out"
                                         ELSE IF v \in S THEN "woken" ELSE user[v]
      /\ user' \in [PoolUsers -> {"out", "wait", "woken", "holds"}]
  BY <1>1, <1>2 DEF PoolInv, PoolTypeOK, notified
<1> HIDE DEF c
<1>4. /\ Len(connections') = Len(connections) + 1 /\ connections' \in Seq(Connections)
      /\ \A i \in DOMAIN connections' :
           \/ i \in DOMAIN connections /\ connections'[i] = connections[i]
           \/ i = Len(connections) + 1 /\ connections'[i] = c
  BY <1>2
<1>5. PoolTypeOK'
  BY <1>2, <1>3, <1>4 DEF PoolInv, PoolTypeOK
<1>6. OneOwner'
  <2>1. c # NoConn /\ \A i \in DOMAIN connections : connections[i] # c /\ connections[i] # NoConn
    BY <1>2, ConnAssumption DEF PoolInv, OneOwner, c
  <2>2. \A i, j \in DOMAIN connections' : connections'[i] = connections'[j] => i = j
    BY <1>4, <2>1 DEF PoolInv, OneOwner
  <2>3. \A v \in PoolUsers : v # u => held[v] # c
    BY <2>1 DEF PoolInv, OneOwner, c
  <2>4. \A v \in PoolUsers : \A i \in DOMAIN connections' : connections'[i] # held'[v]
    BY <1>3, <1>4, <2>1, <2>3 DEF PoolInv, OneOwner
  <2>5. \A v, x \in PoolUsers : held'[v] = held'[x] /\ held'[v] # NoConn => v = x
    BY <1>3 DEF PoolInv, OneOwner
  <2>6. \A v \in PoolUsers : held'[v] # NoConn <=> user'[v] = "holds"
    BY <1>3, <1>1 DEF PoolInv, OneOwner
  <2> QED BY <2>2, <2>4, <2>5, <2>6 DEF OneOwner
<1>7. NoneIdleBesideWaiter'
  <2> SUFFICES ASSUME NEW v \in PoolUsers, user'[v] = "wait"
               PROVE  Len(connections') <= Cardinality(Woken')
    BY DEF NoneIdleBesideWaiter, Woken
  <2>1. v \in waiting
    BY <1>3
  <2>2. PICK x \in waiting : S = {x}
    BY <1>1, <2>1
  <2>3. Woken' = Woken \cup {x} /\ x \notin Woken
    BY <1>2, <1>3, <2>2 DEF Woken
  <2>4. Cardinality(Woken') = Cardinality(Woken) + 1
    BY <2>3, WokenFinite, WokenCounts
  <2>5. Len(connections) <= Cardinality(Woken)
    BY <2>1 DEF PoolInv, NoneIdleBesideWaiter, Woken
  <2> QED BY <1>2, <1>4, <2>4, <2>5, WokenFinite
<1> QED
  BY <1>5, <1>6, <1>7 DEF PoolInv

(* A thread that finds no connection waits again or gives up.              *)
LEMMA FindsNone ==
  ASSUME PoolInv, NEW u \in PoolUsers, get_waits(u) \/ get_times_out(u)
  PROVE  PoolInv'
<1>1. PICK s \in {"wait", "out"} :
        /\ user[u] # "holds" /\ connections = <<>>
        /\ user' = [user EXCEPT ![u] = s] /\ connections' = connections /\ held' = held
  BY DEF get_waits, get_times_out
<1>2. PoolTypeOK' /\ OneOwner'
  BY <1>1 DEF PoolInv, PoolTypeOK, OneOwner
<1>3. (Cardinality(Woken) \in Nat)'
  BY WokenFinite, PTL
<1>4. NoneIdleBesideWaiter'
  BY <1>1, <1>3 DEF NoneIdleBesideWaiter, Woken
<1> QED
  BY <1>2, <1>4 DEF PoolInv

LEMMA PoolNextInv ==
  ASSUME PoolInv, [PoolNext]_poolvars
  PROVE  PoolInv'
<1>1. CASE minute_passes \/ UNCHANGED poolvars
  BY <1>1 DEF minute_passes, poolvars, PoolInv, PoolTypeOK, OneOwner, NoneIdleBesideWaiter
<1>2. CASE autoReclaim
  <2>1. connections' = <<>> /\ user' = user /\ held' = held
    BY <1>2 DEF autoReclaim
  <2>2. PoolTypeOK' /\ OneOwner'
    BY <2>1 DEF PoolInv, PoolTypeOK, OneOwner
  <2>3. NoneIdleBesideWaiter'
    BY <2>1, WokenFinite DEF NoneIdleBesideWaiter, Woken
  <2> QED BY <2>2, <2>3 DEF PoolInv
<1> QED
  BY <1>1, <1>2, GetTakes, Releases, FindsNone DEF PoolNext

LEMMA PoolInvariant == PoolSpec => []PoolInv
<1>1. PoolInit => PoolInv
  BY PoolInitInv
<1>2. PoolInv /\ [PoolNext]_poolvars => PoolInv'
  BY PoolNextInv
<1> QED
  BY <1>1, <1>2, PTL DEF PoolSpec

(* No connection is ever with two threads, or with a thread and in the     *)
(* queue, whatever waits time out and whenever autoReclaim empties it.     *)
THEOREM ConnectionsHaveOneOwner == PoolSpec => []OneOwner
<1>1. PoolInv => OneOwner
  BY DEF PoolInv
<1> QED
  BY <1>1, PoolInvariant, PTL

(* notify_one in releaseConnection is enough: no thread sleeps through its *)
(* 500 ms while a connection lies in the queue that nobody was woken for.  *)
THEOREM NoConnectionIdleBesideWaiter == PoolSpec => []NoneIdleBesideWaiter
<1>1. PoolInv => NoneIdleBesideWaiter
  BY DEF PoolInv
<1> QED
  BY <1>1, PoolInvariant, PTL

-----------------------------------------------------------------------------
(* SafeCache.  The proof rests on pending: it names the one future of a    *)
(* key that is not settled, and a thread computes for it (PendingOpen).    *)

Outcomes == {"none", "value", "exception"}

CacheTypeOK ==
  /\ pending \in [CacheKeys -> Nat]
  /\ futures \in [CacheKeys -> Seq(Outcomes)]
  /\ getter \in [Getters -> [pc : {"out", "missed", "compute", "wait"},
                             key : CacheKeys \cup {CHOOSE k \in CacheKeys : TRUE}, fut : Nat]]
  /\ \A t \in Getters : getter[t].pc # "out" => getter[t].key \in CacheKeys

Computes(t, k) == getter[t].pc = "compute" /\ getter[t].key = k

(* A future that is not settled is the one in pending; a thread that waits *)
(* or computes has a future of its key.                                    *)
PendingOpen ==
  /\ \A k \in CacheKeys :
       /\ pending[k] \in 0 .. Len(futures[k])
       /\ \A n \in 1 .. Len(futures[k]) : futures[k][n] = "none" => pending[k] = n
  /\ \A t \in Getters : getter[t].pc \in {"wait", "compute"} =>
       getter[t].fut \in 1 .. Len(futures[getter[t].key])

(* OneTaskPerKey without sets: a thread computes for the future in         *)
(* pending, such a future has its thread, and no key has two.              *)
OneComputes ==
  \A k \in CacheKeys :
    /\ \A t \in Getters : Computes(t, k) => getter[t].fut = pending[k]
    /\ pending[k] # 0 => \E t \in Getters : Computes(t, k)
    /\ \A t, u \in Getters : Computes(t, k) /\ Computes(u, k) => t = u

CacheInv == CacheTypeOK /\ PendingOpen /\ OneComputes

(* Whoever waits for a future will see it settled: if it is not yet, a     *)
(* thread is computing for it.                                             *)
WaitersServed ==
  \A t \in Getters : getter[t].pc = "wait" =>
    \/ futures[getter[t].key][getter[t].fut] # "none"
    \/ \E u \in Getters : Computes(u, getter[t].key) /\ getter[u].fut = getter[t].fut

(* A step of thread t leaves the other threads' records alone.             *)
GetterMoves(t, pc, key, fut) ==
  /\ getter' \in [Getters -> [pc : {"out", "missed", "compute", "wait"},
                             key : CacheKeys \cup {CHOOSE k \in CacheKeys : TRUE}, fut : Nat]]
  /\ \A u \in Getters : u # t => getter'[u] = getter[u]
  /\ getter'[t].pc = pc /\ getter'[t].key = key /\ getter'[t].fut = fut

LEMMA PcMoves ==
  ASSUME CacheTypeOK, NEW t \in Getters, NEW x \in {"out", "wait"},
         getter' = [getter EXCEPT ![t].pc = x]
  PROVE  GetterMoves(t, x, getter[t].key, getter[t].fut)
  BY DEF CacheTypeOK, GetterMoves

LEMMA PcFutMove ==
  ASSUME CacheTypeOK, NEW t \in Getters, NEW x \in {"compute", "wait"}, NEW y \in Nat,
         getter' = [getter EXCEPT ![t].pc = x, ![t].fut = y]
  PROVE  GetterMoves(t, x, getter[t].key, y)
  BY DEF CacheTypeOK, GetterMoves

LEMMA CacheInitInv == CacheInit => CacheInv
<1> SUFFICES ASSUME CacheInit PROVE CacheInv
  OBVIOUS
<1>1. CacheTypeOK
  BY DEF CacheInit, CacheTypeOK
<1>2. PendingOpen
  BY DEF CacheInit, PendingOpen
<1>3. OneComputes
  BY DEF CacheInit, OneComputes, Computes
<1> QED
  BY <1>1, <1>2, <1>3 DEF CacheInv

(* Steps of one thread that start or end no computation.                   *)
LEMMA CacheLooks ==
  ASSUME CacheInv, NEW t \in Getters,
         \/ get_joins(t) \/ get_returns(t) \/ \E k \in CacheKeys : get(t, k)
  PROVE  CacheInv'
<1>1. PICK x \in {"out", "missed", "wait"}, k \in CacheKeys, n \in Nat :
        /\ GetterMoves(t, x, k, n)
        /\ x = "wait" => n \in 1 .. Len(futures[k])
  <2>1. CASE get_joins(t)
    <3>1. PICK k \in CacheKeys : k = getter[t].key
      BY <2>1 DEF get_joins, CacheInv, CacheTypeOK
    <3>2. pending[k] # 0 /\ pending[k] \in 0 .. Len(futures[k]) /\ pending[k] \in Nat
      BY <2>1, <3>1 DEF get_joins, CacheInv, CacheTypeOK, PendingOpen
    <3>3. GetterMoves(t, "wait", k, pending[k])
      BY <2>1, <3>1, <3>2, PcFutMove DEF get_joins, CacheInv
    <3> QED BY <3>2, <3>3 DEF CacheInv, CacheTypeOK
  <2>2. CASE get_returns(t)
    <3>1. GetterMoves(t, "out", getter[t].key, getter[t].fut)
      BY <2>2, PcMoves DEF get_returns, CacheInv
    <3>2. getter[t].key \in CacheKeys /\ getter[t].fut \in Nat
      BY <2>2 DEF get_returns, CacheInv, CacheTypeOK
    <3> QED BY <3>1, <3>2
  <2>3. CASE \E k \in CacheKeys : get(t, k)
    <3>1. PICK k \in CacheKeys : get(t, k)
      BY <2>3
    <3>2. GetterMoves(t, IF k \in cached THEN "out" ELSE "missed", k, 0)
      BY <3>1 DEF get, GetterMoves, CacheInv, CacheTypeOK
    <3> QED BY <3>2
  <2> QED BY <2>1, <2>2, <2>3
<1>2. pending' = pending /\ futures' = futures /\ getter[t].pc # "compute"
  BY DEF get_joins, get_returns, get
<1>3. CacheTypeOK'
  BY <1>1, <1>2 DEF CacheInv, CacheTypeOK, GetterMoves
<1>4. PendingOpen'
  BY <1>1, <1>2 DEF CacheInv, PendingOpen, GetterMoves
<1>5. \A u \in Getters : \A l : Computes(u, l)' <=> Computes(u, l)
  BY <1>1, <1>2 DEF Computes, GetterMoves
<1>6. \A u \in Getters : \A l : Computes(u, l) => getter'[u] = getter[u]
  BY <1>1, <1>2 DEF Computes, GetterMoves
<1>7. OneComputes'
  BY <1>2, <1>5, <1>6 DEF CacheInv, OneComputes
<1> QED
  BY <1>3, <1>4, <1>7 DEF CacheInv

(* The first thread that misses a key makes its future and computes.       *)
LEMMA CacheStarts ==
  ASSUME CacheInv, NEW t \in Getters, get_starts(t)
  PROVE  CacheInv'
<1>1. PICK k \in CacheKeys : k = getter[t].key
  BY DEF get_starts, starts, CacheInv, CacheTypeOK
<1>2. PICK n \in Nat \ {0} : n = Len(futures[k]) + 1
  BY DEF CacheInv, CacheTypeOK
<1>3. /\ getter[t].pc = "missed" /\ pending[k] = 0 /\ futures[k] \in Seq(Outcomes)
      /\ pending' = [pending EXCEPT ![k] = n]
      /\ futures' = [futures EXCEPT ![k] = Append(@, "none")]
  BY <1>1, <1>2 DEF get_starts, starts, CacheInv, CacheTypeOK
<1>4. GetterMoves(t, "compute", k, n)
  BY <1>1, <1>2, PcFutMove DEF get_starts, starts, CacheInv
<1>5. PICK fs : /\ fs = Append(futures[k], "none") /\ Len(fs) = n /\ fs \in Seq(Outcomes)
                /\ \A i \in 1 .. n : fs[i] = IF i = n THEN "none" ELSE futures[k][i]
  <2>1. PICK old \in Seq(Outcomes) : old = futures[k]
    BY <1>3
  <2>2. /\ Append(old, "none") \in Seq(Outcomes) /\ Len(Append(old, "none")) = Len(old) + 1
        /\ \A i \in 1 .. Len(old) + 1 :
             Append(old, "none")[i] = IF i = Len(old) + 1 THEN "none" ELSE old[i]
    BY DEF Outcomes
  <2> QED BY <1>2, <2>1, <2>2
<1>6. /\ \A l \in CacheKeys : pending'[l] = IF l = k THEN n ELSE pending[l]
      /\ \A l \in CacheKeys : futures'[l] = IF l = k THEN fs ELSE futures[l]
  BY <1>3, <1>5 DEF CacheInv, CacheTypeOK
<1>7. CacheTypeOK'
  BY <1>3, <1>4, <1>5 DEF CacheInv, CacheTypeOK, GetterMoves
<1>8. PendingOpen'
  <2>1. ASSUME NEW l \in CacheKeys
        PROVE  /\ pending'[l] \in 0 .. Len(futures'[l])
               /\ \A i \in 1 .. Len(futures'[l]) : futures'[l][i] = "none" => pending'[l] = i
    <3>1. CASE l = k
      <4>1. ASSUME NEW i \in 1 .. n, i # n PROVE fs[i] # "none"
        BY <1>2, <1>3, <1>5, <4>1 DEF CacheInv, PendingOpen, CacheTypeOK
      <4>2. pending'[l] = n /\ futures'[l] = fs /\ Len(fs) = n
        BY <1>5, <1>6, <3>1
      <4>3. n \in 0 .. Len(fs)
        BY <1>5
      <4> QED BY <4>1, <4>2, <4>3
    <3>2. CASE l # k
      BY <1>6, <3>2 DEF CacheInv, PendingOpen
    <3> QED BY <3>1, <3>2
  <2>2. ASSUME NEW u \in Getters, getter'[u].pc \in {"wait", "compute"}
        PROVE  getter'[u].fut \in 1 .. Len(futures'[getter'[u].key])
    <3>1. CASE u = t
      <4>1. getter'[u].fut = n /\ futures'[getter'[u].key] = fs
        BY <1>4, <1>6, <3>1 DEF GetterMoves
      <4>2. Len(fs) = n
        BY <1>5
      <4> QED BY <4>1, <4>2
    <3>2. CASE u # t
      <4>1. /\ getter'[u] = getter[u] /\ getter[u].key \in CacheKeys
            /\ getter[u].fut \in 1 .. Len(futures[getter[u].key])
        BY <1>4, <2>2, <3>2 DEF CacheInv, CacheTypeOK, PendingOpen, GetterMoves
      <4> QED BY <1>2, <1>3, <1>5, <1>6, <4>1
    <3> QED BY <3>1, <3>2
  <2> QED BY <2>1, <2>2 DEF PendingOpen
<1>9. OneComputes'
  <2>1. \A u \in Getters : ~Computes(u, k)
    <3> SUFFICES ASSUME NEW u \in Getters, Computes(u, k) PROVE FALSE
      OBVIOUS
    <3>1. getter[u].fut = 0
      BY <1>3 DEF CacheInv, OneComputes
    <3> QED BY <3>1 DEF CacheInv, PendingOpen, Computes
  <2>2. \A u \in Getters : \A l \in CacheKeys :
          Computes(u, l)' <=> Computes(u, l) \/ (u = t /\ l = k)
    BY <1>3, <1>4 DEF Computes, GetterMoves
  <2>3. \A u \in Getters : \A l \in CacheKeys : Computes(u, l) => getter'[u] = getter[u]
    BY <1>3, <1>4 DEF Computes, GetterMoves
  <2> QED BY <1>4, <1>6, <2>1, <2>2, <2>3 DEF CacheInv, OneComputes, GetterMoves
<1> QED
  BY <1>7, <1>8, <1>9 DEF CacheInv

(* It settles its future when it takes the key off pending.                *)
LEMMA CacheEnds ==
  ASSUME CacheInv, NEW t \in Getters, NEW o \in {"value", "exception"}, ends(t, o)
  PROVE  CacheInv'
<1>1. PICK k \in CacheKeys : k = getter[t].key
  BY DEF ends, CacheInv, CacheTypeOK
<1>2. Computes(t, k)
  BY <1>1 DEF ends, Computes
<1>3. PICK n \in 1 .. Len(futures[k]) : n = getter[t].fut /\ n = pending[k]
  BY <1>1, <1>2 DEF CacheInv, PendingOpen, OneComputes, Computes
<1>4. PICK fs : fs = [futures[k] EXCEPT ![n] = o]
  OBVIOUS
<1>5. /\ fs \in Seq(Outcomes) /\ Len(fs) = Len(futures[k])
      /\ \A i \in 1 .. Len(fs) : fs[i] = IF i = n THEN o ELSE futures[k][i]
  BY <1>4 DEF Outcomes, CacheInv, CacheTypeOK
<1>6. /\ pending' = [pending EXCEPT ![k] = 0]
      /\ futures' = [futures EXCEPT ![k] = fs]
  BY <1>1, <1>3, <1>4 DEF ends, CacheInv, CacheTypeOK
<1>7. GetterMoves(t, "wait", k, n)
  BY <1>1, <1>3, PcMoves DEF ends, CacheInv
<1>8. /\ \A l \in CacheKeys : pending'[l] = IF l = k THEN 0 ELSE pending[l]
      /\ \A l \in CacheKeys : futures'[l] = IF l = k THEN fs ELSE futures[l]
  BY <1>6 DEF CacheInv, CacheTypeOK
<1>9. CacheTypeOK'
  BY <1>5, <1>6, <1>7 DEF CacheInv, CacheTypeOK, GetterMoves
<1>10. PendingOpen'
  <2>1. ASSUME NEW l \in CacheKeys
        PROVE  /\ pending'[l] \in 0 .. Len(futures'[l])
               /\ \A i \in 1 .. Len(futures'[l]) : futures'[l][i] = "none" => pending'[l] = i
    <3>1. CASE l = k
      <4>1. ASSUME NEW i \in 1 .. Len(fs) PROVE fs[i] # "none"
        BY <1>3, <1>5, <4>1 DEF CacheInv, PendingOpen
      <4> QED BY <1>5, <1>8, <3>1, <4>1
    <3>2. CASE l # k
      BY <1>8, <3>2 DEF CacheInv, PendingOpen
    <3> QED BY <3>1, <3>2
  <2>2. ASSUME NEW u \in Getters, getter'[u].pc \in {"wait", "compute"}
        PROVE  getter'[u].fut \in 1 .. Len(futures'[getter'[u].key])
    <3>1. CASE u = t
      BY <1>3, <1>5, <1>7, <1>8, <3>1 DEF GetterMoves
    <3>2. CASE u # t
      <4>1. /\ getter'[u] = getter[u] /\ getter[u].key \in CacheKeys
            /\ getter[u].fut \in 1 .. Len(futures[getter[u].key])
        BY <1>7, <2>2, <3>2 DEF CacheInv, CacheTypeOK, PendingOpen, GetterMoves
      <4> QED BY <1>5, <1>8, <4>1
    <3> QED BY <3>1, <3>2
  <2> QED BY <2>1, <2>2 DEF PendingOpen
<1>11. OneComputes'
  <2>1. \A u \in Getters : \A l \in CacheKeys : Computes(u, l)' <=> Computes(u, l) /\ u # t
    BY <1>7 DEF Computes, GetterMoves
  <2>2. \A u \in Getters : u # t => ~Computes(u, k) /\ getter'[u] = getter[u]
    BY <1>2, <1>7 DEF CacheInv, OneComputes, GetterMoves
  <2>3. \A l \in CacheKeys : Computes(t, l) => l = k
    BY <1>1 DEF Computes
  <2> QED BY <1>8, <2>1, <2>2, <2>3 DEF CacheInv, OneComputes
<1> QED
  BY <1>9, <1>10, <1>11 DEF CacheInv

LEMMA CacheNextInv ==
  ASSUME CacheInv, [CacheNext]_cachevars
  PROVE  CacheInv'
<1>1. CASE UNCHANGED cachevars
  BY <1>1 DEF cachevars, CacheInv, CacheTypeOK, PendingOpen, OneComputes, Computes
<1> QED
  BY <1>1, CacheLooks, CacheStarts, CacheEnds
     DEF CacheNext, CacheStep, compute_returns, compute_throws, elsewhere

LEMMA CacheInvariant == CacheSpec => []CacheInv
<1>1. CacheInit => CacheInv
  BY CacheInitInv
<1>2. CacheInv /\ [CacheNext]_cachevars => CacheInv'
  BY CacheNextInv
<1> QED
  BY <1>1, <1>2, PTL DEF CacheSpec

(* SafeCache::get never computes a key twice at a time, and pending holds  *)
(* a future for a key exactly while it is computed, with any number of     *)
(* threads between the two locks of get.                                   *)
THEOREM CacheComputesOnce == CacheSpec => []OneTaskPerKey
<1>1. CacheInv => OneTaskPerKey
  <2> SUFFICES ASSUME CacheInv, NEW k \in CacheKeys
               PROVE  /\ {getter[t].fut : t \in {u \in Getters : Computes(u, k)}} = {pending[k]} \ {0}
                      /\ \A t, u \in Getters : t # u /\ Computes(t, k) => ~Computes(u, k)
    BY DEF OneTaskPerKey, Computes
  <2>1. \A t \in Getters : Computes(t, k) => getter[t].fut = pending[k] /\ pending[k] # 0
    BY DEF CacheInv, OneComputes, PendingOpen, Computes
  <2>2. pending[k] # 0 => \E t \in Getters : Computes(t, k)
    BY DEF CacheInv, OneComputes
  <2>3. \A t, u \in Getters : t # u /\ Computes(t, k) => ~Computes(u, k)
    BY DEF CacheInv, OneComputes
  <2> QED BY <2>1, <2>2, <2>3
<1> QED
  BY <1>1, CacheInvariant, PTL

(* A thread in future::get never waits for a promise that nobody will      *)
(* settle: while its future is open, a thread computes for it, however     *)
(* often the computation of the key has thrown and been started again.     *)
THEOREM CacheServesWaiters == CacheSpec => []WaitersServed
<1>1. CacheInv => WaitersServed
  <2> SUFFICES ASSUME CacheInv, NEW t \in Getters, getter[t].pc = "wait",
                      futures[getter[t].key][getter[t].fut] = "none"
               PROVE  \E u \in Getters : /\ Computes(u, getter[t].key)
                                         /\ getter[u].fut = getter[t].fut
    BY DEF WaitersServed
  <2>1. PICK k \in CacheKeys : k = getter[t].key
    BY DEF CacheInv, CacheTypeOK
  <2>2. getter[t].fut \in 1 .. Len(futures[k]) /\ pending[k] = getter[t].fut
    BY <2>1 DEF CacheInv, PendingOpen
  <2> QED BY <2>1, <2>2 DEF CacheInv, OneComputes
<1> QED
  BY <1>1, CacheInvariant, PTL

-----------------------------------------------------------------------------
(* FunctionalMutualExclusionHandle.  That two functions are not open now   *)
(* says nothing of the timers that are pending: the invariant is that they *)
(* would not be open together after any number of them.                    *)

TimerKinds == {"check", "open", "close"}

ExclTypeOK == /\ timers \in Seq(TimerKinds \X Functions)
              /\ isOpen \in [Functions -> BOOLEAN]
              /\ registered \subseteq Functions

(* No function excludes itself.                                            *)
RowsOK == \A r \in rows : \E f, g \in Functions, b \in BOOLEAN : f # g /\ r = <<f, g, b>>

Mutual(f, g) == {f, g} \in related

(* Two functions are related, never one to itself.                         *)
RelatedOK == \A f, g : Mutual(f, g) => f # g

(* f would be open when the first k timers have fired.                     *)
OpenAfter(k, f) ==
  \/ \E i \in 1 .. k : /\ timers[i] = <<"open", f>>
                       /\ \A j \in i + 1 .. k : timers[j][2] # f
  \/ isOpen[f] /\ \A j \in 1 .. k : timers[j][2] # f

NeverBothLater == \A f, g \in Functions : Mutual(f, g) =>
                    \A k \in 0 .. Len(timers) : ~(OpenAfter(k, f) /\ OpenAfter(k, g))

ExclInv == ExclTypeOK /\ RowsOK /\ RelatedOK /\ NeverBothLater

LEMMA ExcludedFunctions ==
  ASSUME RowsOK, NEW f \in Functions
  PROVE  Excluded(f) \subseteq Functions \ {f}
<1>1. ASSUME NEW g \in Excluded(f) PROVE g \in Functions \ {f}
  <2>1. PICK r \in rows : r[1] = f /\ r[2] = g
    BY DEF Excluded
  <2>2. PICK a \in Functions, b \in Functions, c \in BOOLEAN : a # b /\ r = <<a, b, c>>
    BY DEF RowsOK
  <2> QED BY <2>1, <2>2
<1> QED
  BY <1>1

(* A row with its operations is found, and its timer is not lost.          *)
LEMMA FullRowExcludes ==
  ASSUME NEW f, NEW g, <<f, g, TRUE>> \in rows
  PROVE  g \in Excluded(f)
<1>1. PICK r \in rows : r = <<f, g, TRUE>>
  OBVIOUS
<1>2. r[1] = f /\ r[2] = g /\ r[3]
  BY <1>1
<1> QED
  BY <1>2 DEF Excluded

(* SetToSeq lists a finite set.                                            *)
LEMMA SetToSeqLists ==
  ASSUME NEW S, IsFiniteSet(S)
  PROVE  /\ Seqs!SetToSeq(S) \in Seq(S)
         /\ \A x \in S : \E i \in DOMAIN Seqs!SetToSeq(S) : Seqs!SetToSeq(S)[i] = x
<1>1. PICK n \in Nat : n = Cardinality(S)
  BY FS_CardinalityType
<1>2. \E b \in [1 .. n -> S] : IsInjective(b)
  BY <1>1, FS_CardinalityType DEF ExistsBijection, Bijection, Injection
<1>3. PICK q : q = Seqs!SetToSeq(S)
  OBVIOUS
<1>4. q \in [1 .. n -> S] /\ IsInjective(q)
  <2>1. Seqs!Cardinality(S) = Cardinality(S)
    BY DEF Seqs!Cardinality, Cardinality, Seqs!IsFiniteSet, IsFiniteSet
  <2> QED BY <1>1, <1>2, <1>3, <2>1 DEF Seqs!SetToSeq, Seqs!IsInjective, IsInjective
<1>5. q \in Injection(1 .. n, S)
  BY <1>4 DEF Injection
<1>6. Cardinality(1 .. n) = Cardinality(S)
  BY <1>1, FS_Interval
<1>7. q \in Surjection(1 .. n, S)
  BY <1>5, <1>6, FS_Injection
<1> QED
  BY <1>3, <1>4, <1>7 DEF Surjection

LEMMA ExclInitInv == ExclInit => ExclInv
BY DEF ExclInit, ExclInv, ExclTypeOK, RowsOK, RelatedOK, NeverBothLater, Mutual

(* Relations come and go; a pair that comes is apart.                      *)
LEMMA RelationsChange ==
  ASSUME ExclInv, UNCHANGED <<timers, isOpen>>, registered' \subseteq Functions,
         RowsOK', RelatedOK',
         \A f, g \in Functions : Mutual(f, g)' => Mutual(f, g) \/ Apart(f, g)
  PROVE  ExclInv'
<1>1. ExclTypeOK'
  BY DEF ExclInv, ExclTypeOK
<1>2. NeverBothLater'
  <2>1. \A k, f : OpenAfter(k, f)' <=> OpenAfter(k, f)
    BY DEF OpenAfter
  <2>2. ASSUME NEW f \in Functions, NEW g \in Functions, Apart(f, g),
               NEW k \in 0 .. Len(timers), OpenAfter(k, f), OpenAfter(k, g)
        PROVE  FALSE
    <3>1. PICK n \in Nat : n = Len(timers) /\ DOMAIN timers = 1 .. n
      BY DEF ExclInv, ExclTypeOK
    <3>2. \A i \in 1 .. k : i \in DOMAIN timers
      BY <3>1
    <3>3. \A i \in 1 .. k : timers[i] # <<"open", f>> /\ timers[i] # <<"open", g>>
      BY <2>2, <3>2 DEF Apart
    <3>4. isOpen[f] /\ isOpen[g]
      BY <2>2, <3>3 DEF OpenAfter
    <3> QED BY <2>2, <3>4 DEF Apart
  <2> QED BY <2>1, <2>2 DEF ExclInv, NeverBothLater
<1> QED
  BY <1>1, <1>2 DEF ExclInv

(* What more timers behind the pending ones do not change.                 *)
Behind(n, u) == /\ n \in Nat /\ n = Len(timers) /\ u \in Seq(TimerKinds \X Functions)
                /\ timers' = u /\ n <= Len(u)
                /\ \A i \in 1 .. n : u[i] = timers[i]
                /\ isOpen' = isOpen

LEMMA SameBefore ==
  ASSUME NEW n, NEW u, Behind(n, u), NEW k \in 0 .. n, NEW f
  PROVE  OpenAfter(k, f)' <=> OpenAfter(k, f)
<1>1. n \in Nat /\ \A i \in 1 .. k : timers'[i] = timers[i]
  BY DEF Behind
<1>2. \A i \in 1 .. k : \A j \in i + 1 .. k : j \in 1 .. k
  BY <1>1
<1>3. isOpen' = isOpen
  BY DEF Behind
<1> QED
  BY <1>1, <1>2, <1>3 DEF OpenAfter

(* Timers that open nothing open nothing.                                  *)
LEMMA NothingOpens ==
  ASSUME NEW n, NEW u, Behind(n, u), NEW k \in n .. Len(u), NEW f,
         \A i \in n + 1 .. k : u[i] # <<"open", f>>,
         OpenAfter(k, f)'
  PROVE  OpenAfter(n, f) /\ \A i \in n + 1 .. k : u[i][2] # f
<1>1. n \in Nat /\ k \in Nat /\ n <= k /\ timers' = u /\ isOpen' = isOpen
      /\ \A i \in 1 .. n : u[i] = timers[i]
  BY DEF Behind
<1>2. CASE \E i \in 1 .. k : u[i] = <<"open", f>> /\ \A j \in i + 1 .. k : u[j][2] # f
  <2>1. PICK i \in 1 .. k : u[i] = <<"open", f>> /\ \A j \in i + 1 .. k : u[j][2] # f
    BY <1>2
  <2>2. i \in 1 .. n
    BY <1>1, <2>1
  <2>3. \A j \in i + 1 .. n : j \in i + 1 .. k /\ j \in 1 .. n
    BY <1>1, <2>2
  <2>4. \A j \in n + 1 .. k : j \in i + 1 .. k
    BY <1>1, <2>2
  <2>5. timers[i] = <<"open", f>> /\ \A j \in i + 1 .. n : timers[j][2] # f
    BY <1>1, <2>1, <2>2, <2>3
  <2> QED BY <2>1, <2>2, <2>4, <2>5 DEF OpenAfter
<1>3. CASE isOpen[f] /\ \A j \in 1 .. k : u[j][2] # f
  <2>1. \A j \in 1 .. n : j \in 1 .. k
    BY <1>1
  <2>2. \A j \in n + 1 .. k : j \in 1 .. k
    BY <1>1
  <2>3. \A j \in 1 .. n : timers[j][2] # f
    BY <1>1, <1>3, <2>1
  <2> QED BY <1>3, <2>2, <2>3 DEF OpenAfter
<1> QED
  BY <1>1, <1>2, <1>3 DEF OpenAfter

LEMMA FunctionCloses ==
  ASSUME ExclInv, NEW f \in Functions, FunctionOpen_false(f)
  PROVE  ExclInv'
<1>1. PICK ts \in Seq(TimerKinds \X Functions) : ts = timers
  BY DEF ExclInv, ExclTypeOK
<1>2. PICK n \in Nat : n = Len(ts)
  BY <1>1
<1>3. PICK x \in TimerKinds \X Functions : x = <<"close", f>>
  BY DEF TimerKinds
<1>4. PICK u : u = Append(ts, x)
  OBVIOUS
<1>5. /\ u \in Seq(TimerKinds \X Functions) /\ Len(u) = n + 1
      /\ u[n + 1] = x /\ \A i \in 1 .. n : u[i] = ts[i]
  BY <1>1, <1>2, <1>3, <1>4
<1>6. timers' = u /\ UNCHANGED <<registered, rows, isOpen, related>>
  BY <1>1, <1>3, <1>4 DEF FunctionOpen_false
<1>7. Behind(n, u)
  BY <1>1, <1>2, <1>5, <1>6 DEF Behind
<1>8. ASSUME NEW g \in Functions, NEW k \in 0 .. n + 1, OpenAfter(k, g)'
      PROVE  IF k <= n THEN OpenAfter(k, g) ELSE OpenAfter(n, g)
  <2>1. CASE k \in 0 .. n
    BY <1>2, <1>7, <1>8, <2>1, SameBefore
  <2>2. CASE k = n + 1
    <3>1. k \in n .. Len(u)
      BY <1>2, <1>5, <2>2
    <3>2. \A i \in n + 1 .. k : i = n + 1
      BY <1>2, <2>2
    <3>3. \A i \in n + 1 .. k : u[i] # <<"open", g>>
      BY <1>3, <1>5, <3>2
    <3>4. OpenAfter(n, g)
      BY <1>7, <1>8, <3>1, <3>3, NothingOpens
    <3> QED BY <1>2, <2>2, <3>4
  <2> QED BY <1>2, <2>1, <2>2
<1>9. NeverBothLater'
  <2> SUFFICES ASSUME NEW g \in Functions, NEW h \in Functions, Mutual(g, h)',
                      NEW k \in 0 .. n + 1, OpenAfter(k, g)', OpenAfter(k, h)'
               PROVE  FALSE
    BY <1>5, <1>6 DEF NeverBothLater
  <2>1. PICK m \in 0 .. n : OpenAfter(m, g) /\ OpenAfter(m, h)
    BY <1>2, <1>8
  <2>2. Mutual(g, h)
    BY <1>6 DEF Mutual
  <2> QED BY <1>1, <1>2, <2>1, <2>2 DEF ExclInv, NeverBothLater
<1>10. ExclTypeOK' /\ RowsOK' /\ RelatedOK'
  BY <1>5, <1>6 DEF ExclInv, ExclTypeOK, RowsOK, RelatedOK, Mutual
<1> QED
  BY <1>9, <1>10 DEF ExclInv

(* The timers that check the excluded functions stand before the one that  *)
(* opens f.                                                                *)
LEMMA FunctionOpens ==
  ASSUME ExclInv, NEW f \in Functions, FunctionOpen_true(f)
  PROVE  ExclInv'
<1>1. PICK ts \in Seq(TimerKinds \X Functions) : ts = timers
  BY DEF ExclInv, ExclTypeOK
<1>2. PICK n \in Nat : n = Len(ts)
  BY <1>1
<1>3. PICK closed \in SUBSET Excluded(f) :
        /\ opens(f, closed)
        /\ \A g : <<f, g, TRUE>> \in rows => g \in closed
  <2>1. PICK lost \in SUBSET {g \in Excluded(f) : <<f, g, TRUE>> \notin rows} :
          opens(f, Excluded(f) \ lost)
    BY DEF FunctionOpen_true
  <2>2. \A g : <<f, g, TRUE>> \in rows => g \in Excluded(f) \ lost
    BY FullRowExcludes
  <2>3. Excluded(f) \ lost \in SUBSET Excluded(f)
    OBVIOUS
  <2> QED BY <2>1, <2>2, <2>3
<1>4. \A g : Mutual(f, g)' /\ g # f => g \in closed
  BY <1>3 DEF opens, Mutual
<1>5. closed \subseteq Functions \ {f}
  BY <1>3, ExcludedFunctions DEF ExclInv
<1>6. IsFiniteSet(closed)
  BY <1>5, ExclAssumption, FS_Subset
<1>7. PICK c \in Seq(Functions) :
        /\ c = Seqs!SetToSeq(closed)
        /\ \A g \in closed : \E i \in DOMAIN c : c[i] = g
  <2>1. Seqs!SetToSeq(closed) \in Seq(closed)
    BY <1>6, SetToSeqLists
  <2>2. Seqs!SetToSeq(closed) \in Seq(Functions)
    BY <1>5, <2>1
  <2> QED BY <1>6, <2>2, SetToSeqLists
<1>8. PICK m \in Nat : m = Len(c) /\ DOMAIN c = 1 .. m
  BY <1>7
<1>9. PICK checks \in Seq(TimerKinds \X Functions) :
        /\ checks = [i \in DOMAIN c |-> <<"check", c[i]>>] /\ Len(checks) = m
        /\ \A i \in 1 .. m : checks[i] = <<"check", c[i]>>
  <2>1. [i \in DOMAIN c |-> <<"check", c[i]>>] \in [1 .. m -> TimerKinds \X Functions]
    BY <1>7, <1>8 DEF TimerKinds
  <2>2. PICK d \in [1 .. m -> TimerKinds \X Functions] :
          d = [i \in DOMAIN c |-> <<"check", c[i]>>]
    BY <2>1
  <2>3. d \in Seq(TimerKinds \X Functions) /\ Len(d) = m
    BY <2>2
  <2>4. \A i \in 1 .. m : d[i] = <<"check", c[i]>>
    BY <1>8, <2>2
  <2> QED BY <2>2, <2>3, <2>4
<1>10. PICK x \in TimerKinds \X Functions : x = <<"open", f>>
  BY DEF TimerKinds
<1>11. PICK u : u = ts \o checks \o <<x>>
  OBVIOUS
<1>12. /\ u \in Seq(TimerKinds \X Functions) /\ Len(u) = n + m + 1
       /\ \A i \in 1 .. n : u[i] = ts[i]
       /\ \A i \in 1 .. m : u[n + i] = checks[i]
       /\ u[n + m + 1] = x
  <2>1. PICK v \in Seq(TimerKinds \X Functions) :
          /\ v = ts \o checks /\ Len(v) = n + m
          /\ \A i \in 1 .. n : v[i] = ts[i]
          /\ \A i \in 1 .. m : v[n + i] = checks[i]
    <3>1. ts \o checks \in Seq(TimerKinds \X Functions)
      OBVIOUS
    <3>2. Len(ts \o checks) = n + m
      BY <1>2, <1>9
    <3>3. \A i \in 1 .. n : (ts \o checks)[i] = ts[i]
      BY <1>2, <1>9
    <3>4. \A i \in 1 .. m : (ts \o checks)[n + i] = checks[i]
      BY <1>2, <1>9
    <3> QED BY <3>1, <3>2, <3>3, <3>4
  <2>2. u = v \o <<x>>
    BY <1>11, <2>1
  <2>3. /\ u \in Seq(TimerKinds \X Functions) /\ Len(u) = n + m + 1
        /\ \A i \in 1 .. n + m : u[i] = v[i]
        /\ u[n + m + 1] = x
    <3>1. PICK l \in Nat : l = n + m /\ l = Len(v)
      BY <2>1
    <3>2. /\ v \o <<x>> \in Seq(TimerKinds \X Functions) /\ Len(v \o <<x>>) = l + 1
          /\ \A i \in 1 .. l : (v \o <<x>>)[i] = v[i]
          /\ (v \o <<x>>)[l + 1] = x
      BY <3>1
    <3> QED BY <2>2, <3>1, <3>2
  <2>4. \A i \in 1 .. n : i \in 1 .. n + m
    OBVIOUS
  <2>5. \A i \in 1 .. m : n + i \in 1 .. n + m
    OBVIOUS
  <2> QED BY <2>1, <2>3, <2>4, <2>5
<1>13. timers' = u /\ UNCHANGED <<registered, rows, isOpen>> /\ related' \subseteq related
  BY <1>1, <1>3, <1>7, <1>9, <1>10, <1>11 DEF opens
<1>14. Behind(n, u)
  BY <1>1, <1>2, <1>8, <1>12, <1>13 DEF Behind
<1>15. \A i \in n + 1 .. n + m : \A g : u[i] # <<"open", g>>
  <2>1. ASSUME NEW i \in n + 1 .. n + m, NEW g PROVE u[i] # <<"open", g>>
    <3>1. PICK k \in 1 .. m : i = n + k
      <4>1. i - n \in 1 .. m /\ i = n + (i - n)
        OBVIOUS
      <4> QED BY <4>1
    <3>2. u[i] = <<"check", c[k]>>
      BY <1>9, <1>12, <3>1
    <3> QED BY <3>2
  <2> QED BY <2>1
(* Up to the last timer nothing more is open than before.                  *)
<1>16. ASSUME NEW g \in Functions, NEW k \in 0 .. n + m, OpenAfter(k, g)'
       PROVE  IF k <= n THEN OpenAfter(k, g) ELSE OpenAfter(n, g)
  <2>1. CASE k \in 0 .. n
    BY <1>2, <1>14, <1>16, <2>1, SameBefore
  <2>2. CASE ~(k <= n)
    <3>1. k \in n .. Len(u) /\ \A i \in n + 1 .. k : i \in n + 1 .. n + m
      BY <1>2, <1>8, <1>12, <2>2
    <3>2. \A i \in n + 1 .. k : u[i] # <<"open", g>>
      BY <1>15, <3>1
    <3>3. OpenAfter(n, g)
      BY <1>14, <1>16, <3>1, <3>2, NothingOpens
    <3> QED BY <2>2, <3>3
  <2> QED BY <1>2, <1>8, <2>1, <2>2
(* After the last one f is open, and what it excludes is not.              *)
<1>17. ASSUME NEW g \in Functions \ {f}, OpenAfter(n + m + 1, g)'
       PROVE  OpenAfter(n, g) /\ g \notin closed
  <2>1. n + m + 1 \in n .. Len(u)
    BY <1>2, <1>8, <1>12
  <2>2. \A i \in n + 1 .. n + m + 1 : i = n + m + 1 \/ i \in n + 1 .. n + m
    OBVIOUS
  <2>3. \A i \in n + 1 .. n + m + 1 : u[i] # <<"open", g>>
    <3>1. u[n + m + 1] = <<"open", f>> /\ <<"open", f>> # <<"open", g>>
      BY <1>10, <1>12
    <3> QED BY <1>15, <2>2, <3>1
  <2>4. OpenAfter(n, g) /\ \A i \in n + 1 .. n + m + 1 : u[i][2] # g
    BY <1>14, <1>17, <2>1, <2>3, NothingOpens
  <2>5. ASSUME g \in closed PROVE FALSE
    <3>1. PICK i \in 1 .. m : c[i] = g
      BY <1>7, <1>8, <2>5
    <3>2. n + i \in n + 1 .. n + m + 1
      BY <1>2, <1>8
    <3>3. u[n + i] = <<"check", g>>
      BY <1>9, <1>12, <3>1
    <3> QED BY <2>4, <3>2, <3>3
  <2> QED BY <2>4, <2>5
<1>18. NeverBothLater'
  <2> SUFFICES ASSUME NEW g \in Functions, NEW h \in Functions, Mutual(g, h)',
                      NEW k \in 0 .. n + m + 1, OpenAfter(k, g)', OpenAfter(k, h)'
               PROVE  FALSE
    BY <1>12, <1>13 DEF NeverBothLater
  <2>1. Mutual(g, h)
    BY <1>13 DEF Mutual
  <2>2. g # h
    BY <2>1 DEF ExclInv, RelatedOK
  <2>3. /\ g = f => h \in closed
        /\ h = f => g \in closed
    <3>1. {g, h} = {h, g}
      OBVIOUS
    <3>2. Mutual(h, g)'
      BY <3>1 DEF Mutual
    <3> QED BY <1>4, <2>2, <3>2
  <2>4. ~\E l \in 0 .. n : OpenAfter(l, g) /\ OpenAfter(l, h)
    BY <1>1, <1>2, <2>1 DEF ExclInv, NeverBothLater
  <2>5. n \in 0 .. n
    BY <1>2
  <2>6. CASE k \in 0 .. n + m
    BY <1>2, <1>8, <1>16, <2>4, <2>5, <2>6
  <2>7. CASE k = n + m + 1
    BY <1>17, <2>2, <2>3, <2>4, <2>5, <2>7
  <2>8. k \in 0 .. n + m \/ k = n + m + 1
    OBVIOUS
  <2> QED BY <2>6, <2>7, <2>8
<1>19. ExclTypeOK' /\ RowsOK' /\ RelatedOK'
  BY <1>12, <1>13 DEF ExclInv, ExclTypeOK, RowsOK, RelatedOK, Mutual
<1> QED
  BY <1>18, <1>19 DEF ExclInv

(* A timer that fires brings about what was said of the first one.         *)
LEMMA TimerFires ==
  ASSUME ExclInv, timer_fires
  PROVE  ExclInv'
<1>1. PICK ts \in Seq(TimerKinds \X Functions) : ts = timers /\ ts # <<>>
  BY DEF ExclInv, ExclTypeOK, timer_fires
<1>2. PICK n \in Nat : n + 1 = Len(ts)
  BY <1>1
<1>3. PICK a \in TimerKinds, f \in Functions : ts[1] = <<a, f>>
  BY <1>1
<1>4. PICK u : u = Tail(ts)
  OBVIOUS
<1>5. /\ u \in Seq(TimerKinds \X Functions) /\ Len(u) = n
      /\ \A i \in 1 .. n : u[i] = ts[i + 1]
  BY <1>1, <1>2, <1>4
<1>6. /\ timers' = u /\ UNCHANGED <<registered, rows, related>>
      /\ isOpen' = [isOpen EXCEPT ![f] = (a = "open")]
  <2>1. Head(timers) = <<a, f>> /\ Tail(timers) = u
    BY <1>1, <1>3, <1>4
  <2>2. Head(timers)[2] = f /\ (Head(timers)[1] = "open") = (a = "open")
    BY <2>1
  <2> QED BY <2>1, <2>2 DEF timer_fires
<1>7. \A g \in Functions : isOpen'[g] = IF g = f THEN (a = "open") ELSE isOpen[g]
  BY <1>6 DEF ExclInv, ExclTypeOK
<1>8. ASSUME NEW g \in Functions, NEW k \in 0 .. n, OpenAfter(k, g)'
      PROVE  OpenAfter(k + 1, g)
  <2>1. \A j \in 1 .. k : u[j] = ts[j + 1] /\ j + 1 \in 1 .. k + 1
    BY <1>2, <1>5
  <2>2. CASE \E i \in 1 .. k : u[i] = <<"open", g>> /\ \A j \in i + 1 .. k : u[j][2] # g
    <3>1. PICK i \in 1 .. k : u[i] = <<"open", g>> /\ \A j \in i + 1 .. k : u[j][2] # g
      BY <2>2
    <3>2. ASSUME NEW j \in i + 1 + 1 .. k + 1 PROVE ts[j][2] # g
      <4>1. PICK l \in i + 1 .. k : j = l + 1
        BY <1>2
      <4>2. l \in 1 .. k
        BY <1>2
      <4> QED BY <2>1, <3>1, <4>1, <4>2
    <3>3. ts[i + 1] = <<"open", g>> /\ i + 1 \in 1 .. k + 1
      BY <2>1, <3>1
    <3> QED BY <1>1, <3>2, <3>3 DEF OpenAfter
  <2>3. CASE isOpen'[g] /\ \A j \in 1 .. k : u[j][2] # g
    <3>1. ASSUME NEW j \in 2 .. k + 1 PROVE ts[j][2] # g
      <4>1. PICK l \in 1 .. k : j = l + 1
        BY <1>2
      <4> QED BY <2>1, <2>3, <4>1
    <3>2. 1 \in 1 .. k + 1 /\ \A j \in 1 .. k + 1 : j = 1 \/ j \in 2 .. k + 1
      BY <1>2
    <3>3. CASE g = f
      <4>1. ts[1] = <<"open", g>>
        BY <1>3, <1>7, <2>3, <3>3
      <4>2. \A j \in 1 + 1 .. k + 1 : ts[j][2] # g
        BY <3>1
      <4> QED BY <1>1, <3>2, <4>1, <4>2 DEF OpenAfter
    <3>4. CASE g # f
      <4>1. isOpen[g] /\ \A j \in 1 .. k + 1 : ts[j][2] # g
        BY <1>3, <1>7, <2>3, <3>1, <3>2, <3>4
      <4> QED BY <1>1, <4>1 DEF OpenAfter
    <3> QED BY <3>3, <3>4
  <2> QED BY <1>6, <1>8, <2>2, <2>3 DEF OpenAfter
<1>9. NeverBothLater'
  <2> SUFFICES ASSUME NEW g \in Functions, NEW h \in Functions, Mutual(g, h)',
                      NEW k \in 0 .. n, OpenAfter(k, g)', OpenAfter(k, h)'
               PROVE  FALSE
    BY <1>5, <1>6 DEF NeverBothLater
  <2>1. Mutual(g, h)
    BY <1>6 DEF Mutual
  <2>2. k + 1 \in 0 .. Len(timers)
    BY <1>1, <1>2
  <2> QED BY <1>8, <2>1, <2>2 DEF ExclInv, NeverBothLater
<1>10. ExclTypeOK'
  BY <1>5, <1>6 DEF ExclInv, ExclTypeOK
<1>11. RowsOK' /\ RelatedOK'
  BY <1>6 DEF ExclInv, RowsOK, RelatedOK, Mutual
<1> QED
  BY <1>9, <1>10, <1>11 DEF ExclInv

LEMMA ExclNextInv ==
  ASSUME ExclInv, [ExclNext]_exclvars
  PROVE  ExclInv'
<1>1. ASSUME NEW f \in Functions, RegisterFunction(f) \/ UnRegisterFunction(f)
      PROVE  ExclInv'
  <2>1. UNCHANGED <<timers, isOpen, rows, related>>
    BY <1>1 DEF RegisterFunction, UnRegisterFunction
  <2>2. registered' \subseteq Functions
    BY <1>1 DEF RegisterFunction, UnRegisterFunction, ExclInv, ExclTypeOK
  <2>3. RowsOK' /\ RelatedOK' /\ \A g, h : Mutual(g, h)' => Mutual(g, h)
    BY <2>1 DEF ExclInv, RowsOK, RelatedOK, Mutual
  <2> QED BY <2>1, <2>2, <2>3, RelationsChange
<1>2. ASSUME NEW f \in Functions, UnregisterMutuallyExclusiveRelationship(f)
      PROVE  ExclInv'
  <2>1. /\ UNCHANGED <<registered, timers, isOpen>>
        /\ rows' = {r \in rows : r[1] # f}
        /\ related' = {p \in related : f \notin p}
    BY <1>2 DEF UnregisterMutuallyExclusiveRelationship
  <2>2. RowsOK' /\ registered' \subseteq Functions
    BY <2>1 DEF ExclInv, ExclTypeOK, RowsOK
  <2>3. \A g, h : Mutual(g, h)' => Mutual(g, h)
    BY <2>1 DEF Mutual
  <2>4. RelatedOK'
    BY <2>3 DEF ExclInv, RelatedOK
  <2> QED BY <2>1, <2>2, <2>3, <2>4, RelationsChange
<1>3. ASSUME NEW f \in Functions, NEW g \in Functions \ {f},
             RegisterMutuallyExclusiveRelationship(f, g)
      PROVE  ExclInv'
  <2>1. PICK b \in BOOLEAN : b = (g \in registered)
    <3>1. (g \in registered) \in BOOLEAN
      OBVIOUS
    <3> QED BY <3>1, Zenon
  <2>2. /\ UNCHANGED <<registered, timers, isOpen>>
        /\ rows' = rows \cup {<<f, g, b>>}
        /\ (Apart(f, g) /\ related' = related \cup {{f, g}}) \/ related' = related
    BY <1>3, <2>1 DEF RegisterMutuallyExclusiveRelationship
  <2>3. RowsOK' /\ registered' \subseteq Functions
    <3>1. ASSUME NEW r \in rows'
          PROVE  \E h, k \in Functions, c \in BOOLEAN : h # k /\ r = <<h, k, c>>
      <4>1. CASE r \in rows
        BY <4>1 DEF ExclInv, RowsOK
      <4>2. CASE r = <<f, g, b>>
        BY <4>2
      <4> QED BY <2>2, <4>1, <4>2
    <3> QED BY <2>2, <3>1 DEF ExclInv, ExclTypeOK, RowsOK
  <2>4. ASSUME NEW h, NEW k, Mutual(h, k)', ~Mutual(h, k)
        PROVE  Apart(f, g) /\ ((h = f /\ k = g) \/ (h = g /\ k = f))
    <3>1. Apart(f, g) /\ {h, k} = {f, g}
      BY <2>2, <2>4 DEF Mutual
    <3> QED BY <3>1
  <2>5. Apart(f, g) => Apart(g, f)
    BY DEF Apart
  <2>6. RelatedOK'
    BY <2>4 DEF ExclInv, RelatedOK
  <2>7. \A h, k \in Functions : Mutual(h, k)' => Mutual(h, k) \/ Apart(h, k)
    BY <2>4, <2>5
  <2> QED BY <2>2, <2>3, <2>6, <2>7, RelationsChange
<1>4. CASE UNCHANGED exclvars
  <2>1. UNCHANGED <<registered, rows, timers, isOpen, related>>
    BY <1>4 DEF exclvars
  <2>2. RowsOK' /\ RelatedOK' /\ registered' \subseteq Functions
        /\ \A g, h : Mutual(g, h)' => Mutual(g, h)
    BY <2>1 DEF ExclInv, ExclTypeOK, RowsOK, RelatedOK, Mutual
  <2> QED BY <2>1, <2>2, RelationsChange
<1> QED
  BY <1>1, <1>2, <1>3, <1>4, FunctionOpens, FunctionCloses, TimerFires DEF ExclNext

(* For any set of functions and any order of registrations, relations,     *)
(* FunctionOpen calls and timers: two functions that come to exclude each  *)
(* other while they are not both open are never open together, unless one  *)
(* was registered after the relation and missed, until it is taken back.   *)
THEOREM ExcludedNeverBothOpen == ExclSpec => []NeverBothOpen
<1>1. ExclInit => ExclInv
  BY ExclInitInv
<1>2. ExclInv /\ [ExclNext]_exclvars => ExclInv'
  BY ExclNextInv
<1>3. ExclInv => NeverBothOpen
  <2> SUFFICES ASSUME ExclInv, NEW f \in Functions, NEW g \in Functions,
                      {f, g} \in related, isOpen[f], isOpen[g]
               PROVE  FALSE
    BY DEF NeverBothOpen
  <2>1. Mutual(f, g)
    BY DEF Mutual
  <2>2. 0 \in 0 .. Len(timers)
    BY DEF ExclInv, ExclTypeOK
  <2>3. OpenAfter(0, f) /\ OpenAfter(0, g)
    BY DEF OpenAfter
  <2> QED BY <2>1, <2>2, <2>3 DEF ExclInv, NeverBothLater
<1> QED
  BY <1>1, <1>2, <1>3, PTL DEF ExclSpec

=============================================================================
