------------------------------ MODULE ConnPool ------------------------------
(***************************************************************************)
(* DatabaseConnectionPool of src/Books/CPPCurrencyProgramming2th/xxx/ch4/  *)
(* design_4.cpp, used by threads that get a connection, use it and release *)
(* it.  Its state is only touched under mtx, so a step is one such section,*)
(* the expiry of a wait, or a minute of the clock.                         *)
(***************************************************************************)
EXTENDS Naturals, Sequences, FiniteSets

CONSTANTS PoolUsers, Connections, NoConn

ASSUME ConnAssumption == /\ NoConn \notin Connections
                         /\ IsFiniteSet(PoolUsers) /\ IsFiniteSet(Connections)

IdleLimit == 2  \* minutes after which autoReclaim pops connections

VARIABLES connections,  \* the queue of idle connections
          user,         \* "out", "wait" for cv, "woken" by it, "holds"
          held,         \* the connection a thread holds
          unused        \* whole minutes since lastUsed, up to the limit

poolvars == <<connections, user, held, unused>>

PoolInit == /\ connections = CHOOSE s \in [1 .. Cardinality(Connections) -> Connections] :
                               \A i, j \in DOMAIN s : s[i] = s[j] => i = j
            /\ user = [u \in PoolUsers |-> "out"]
            /\ held = [u \in PoolUsers |-> NoConn]
            /\ unused = 0

(* Mutant: the connection is moved out of front(), which is not popped.    *)
get_takes_unpopped(u) == /\ user[u] # "holds" /\ connections # <<>>
                         /\ held' = [held EXCEPT ![u] = Head(connections)]
                         /\ connections' = [connections EXCEPT ![1] = NoConn]
                         /\ user' = [user EXCEPT ![u] = "holds"]
                         /\ unused' = 0

(* getConnection: the predicate holds when it is first tested, after a     *)
(* notification, after a spurious wakeup, or when the time is up.          *)
get_takes(u) == /\ user[u] # "holds" /\ connections # <<>>
                /\ held' = [held EXCEPT ![u] = Head(connections)]
                /\ connections' = Tail(connections)
                /\ user' = [user EXCEPT ![u] = "holds"]
                /\ unused' = 0

get_waits(u) == /\ user[u] \in {"out", "woken"} /\ connections = <<>>
                /\ user' = [user EXCEPT ![u] = "wait"]
                /\ UNCHANGED <<connections, held, unused>>

(* The time is up and the predicate is still false.                        *)
get_times_out(u) == /\ user[u] \in {"wait", "woken"} /\ connections = <<>>
                    /\ user' = [user EXCEPT ![u] = "out"]
                    /\ UNCHANGED <<connections, held, unused>>

gives_back(u) == /\ user[u] = "holds"
                 /\ connections' = Append(connections, held[u])
                 /\ unused' = 0

notified(u, S) == user' = [v \in PoolUsers |-> IF v = u THEN "out"
                                               ELSE IF v \in S THEN "woken" ELSE user[v]]

(* Mutant: nobody is notified.                                             *)
releaseConnection_quiet(u) == /\ gives_back(u) /\ notified(u, {})
                              /\ held' = [held EXCEPT ![u] = NoConn]

(* releaseConnection, with notify_one.                                     *)
releaseConnection(u) ==
  LET waiting == {v \in PoolUsers : user[v] = "wait"} IN
  /\ gives_back(u) /\ held' = [held EXCEPT ![u] = NoConn]
  /\ IF waiting = {} THEN notified(u, {}) ELSE \E v \in waiting : notified(u, {v})

minute_passes == unused < IdleLimit /\ unused' = unused + 1 /\ UNCHANGED <<connections, user, held>>

(* autoReclaim after its sleep: as lastUsed is the pool's, all go or none. *)
autoReclaim == /\ unused >= IdleLimit
               /\ connections' = <<>>
               /\ UNCHANGED <<user, held, unused>>

PoolNext == \/ \E u \in PoolUsers : \/ get_takes(u) \/ get_waits(u)
                                     \/ get_times_out(u) \/ releaseConnection(u)
            \/ minute_passes \/ autoReclaim

PoolSpec == PoolInit /\ [][PoolNext]_poolvars

-----------------------------------------------------------------------------
(* A connection has one owner: it is once in the queue or with one thread, *)
(* and one that was reclaimed is with nobody.                              *)
OneOwner ==
  /\ \A i, j \in DOMAIN connections : connections[i] = connections[j] => i = j
  /\ \A u \in PoolUsers :
       /\ held[u] # NoConn <=> user[u] = "holds"
       /\ \A i \in DOMAIN connections : connections[i] # held[u]
       /\ \A v \in PoolUsers : held[u] = held[v] /\ held[u] # NoConn => u = v

(* No connection lies idle beside a waiting thread: while a thread waits   *)
(* for a notification, every idle connection has one on its way.           *)
NoneIdleBesideWaiter ==
  (\E u \in PoolUsers : user[u] = "wait") =>
    Len(connections) <= Cardinality({u \in PoolUsers : user[u] = "woken"})

=============================================================================
