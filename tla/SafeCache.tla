------------------------------ MODULE SafeCache ------------------------------
(***************************************************************************)
(* SafeCache of src/Books/CPPCurrencyProgramming2th/xxx/ch4/design_1.cpp,  *)
(* used by threads that call get again and again.  A step is a section     *)
(* under the shared mutex, the computation, or the return of future::get.  *)
(***************************************************************************)
EXTENDS Naturals, Sequences, FiniteSets

CONSTANTS Getters, CacheKeys,
          Calls                \* how often each thread calls get

ASSUME CacheAssumption == Calls \in Nat /\ IsFiniteSet(Getters)

VARIABLES
  cached,   \* the keys in cache
  pending,  \* for each key, the number of its future in pending, or 0
  futures,  \* for each key, what became of its 1st, 2nd, ... computation
  getter,   \* each thread's step, the key it asks for, its future's number
  calls     \* calls each thread has made

cachevars == <<cached, pending, futures, getter, calls>>

CacheInit == /\ cached = {}
             /\ pending = [k \in CacheKeys |-> 0] /\ futures = [k \in CacheKeys |-> <<>>]
             /\ getter = [t \in Getters |->
                           [pc |-> "out", key |-> CHOOSE k \in CacheKeys : TRUE, fut |-> 0]]
             /\ calls = [t \in Getters |-> 0]

(* The look into cache, under the shared lock.                             *)
get(t, k) ==
  /\ getter[t].pc = "out" /\ calls[t] < Calls
  /\ calls' = [calls EXCEPT ![t] = @ + 1]
  /\ getter' = [getter EXCEPT ![t] =
                  [pc |-> IF k \in cached THEN "out" ELSE "missed", key |-> k, fut |-> 0]]
  /\ UNCHANGED <<cached, pending, futures>>

(* The look into pending, under the unique lock: wait for the future that  *)
(* is there, or put one there and compute.                                 *)
get_joins(t) ==
  /\ getter[t].pc = "missed" /\ pending[getter[t].key] # 0
  /\ getter' = [getter EXCEPT ![t].pc = "wait", ![t].fut = pending[getter[t].key]]
  /\ UNCHANGED <<cached, pending, futures, calls>>

starts(t) == LET k == getter[t].key  n == Len(futures[k]) + 1 IN
  /\ getter[t].pc = "missed"
  /\ pending' = [pending EXCEPT ![k] = n]
  /\ futures' = [futures EXCEPT ![k] = Append(@, "none")]
  /\ getter' = [getter EXCEPT ![t].pc = "compute", ![t].fut = n]
  /\ UNCHANGED <<cached, calls>>

(* Mutant: pending is not looked at.                                       *)
get_starts_always(t) == starts(t)

get_starts(t) == pending[getter[t].key] = 0 /\ starts(t)

ends(t, outcome) == LET k == getter[t].key IN
  /\ getter[t].pc = "compute"
  /\ pending' = [pending EXCEPT ![k] = 0]
  /\ futures' = [futures EXCEPT ![k][getter[t].fut] = outcome]
  /\ getter' = [getter EXCEPT ![t].pc = "wait"]
  /\ UNCHANGED calls

(* compute returns, or throws.                                             *)
compute_returns(t) == ends(t, "value") /\ cached' = cached \cup {getter[t].key}

(* Mutant: the promise is dropped without an exception.                    *)
compute_throws_silently(t) == ends(t, "none") /\ UNCHANGED cached

compute_throws(t) == ends(t, "exception") /\ UNCHANGED cached

(* future::get returns the value or throws the exception.                  *)
get_returns(t) ==
  /\ getter[t].pc = "wait" /\ futures[getter[t].key][getter[t].fut] # "none"
  /\ getter' = [getter EXCEPT ![t].pc = "out"]
  /\ UNCHANGED <<cached, pending, futures, calls>>

CacheStep(t) == \/ get_joins(t) \/ get_starts(t) \/ compute_returns(t)
                \/ compute_throws(t) \/ get_returns(t)

(* The rest of the program, which the cache does not see.                  *)
elsewhere == UNCHANGED cachevars

CacheNext == \/ \E t \in Getters : CacheStep(t) \/ \E k \in CacheKeys : get(t, k)
             \/ elsewhere

CacheSpec == CacheInit /\ [][CacheNext]_cachevars

-----------------------------------------------------------------------------
(* A key has a future in pending exactly while one thread computes it, and *)
(* never do two compute the same key at a time.                            *)
OneTaskPerKey ==
  \A k \in CacheKeys :
    {getter[t].fut : t \in {u \in Getters : getter[u].pc = "compute" /\ getter[u].key = k}}
      = {pending[k]} \ {0}
    /\ \A t, u \in Getters : t # u /\ getter[t].pc = "compute" /\ getter[t].key = k
                               => ~(getter[u].pc = "compute" /\ getter[u].key = k)

(* Every call of get comes back, whether the computation it waits for      *)
(* returns or throws.                                                      *)
GetReturns == \A t \in Getters : getter[t].pc # "out" ~> getter[t].pc = "out"

=============================================================================
