--------------------------- MODULE ExclusionHandle ---------------------------
(***************************************************************************)
(* FunctionalMutualExclusionHandle of src/QtProject/                       *)
(* MutuallyExclusiveFunction, with the functions of TestFunction.cpp.      *)
(* Every call runs under m_handleMutex and only starts one-shot timers;    *)
(* Qt fires timers of equal length in the order they were started.         *)
(***************************************************************************)
EXTENDS Naturals, Sequences, FiniteSets

Seqs == INSTANCE SequencesExt

CONSTANTS Functions,
          TimerBound  \* bound: FunctionOpen is called with fewer timers active

ASSUME ExclAssumption == IsFiniteSet(Functions) /\ TimerBound \in Nat

VARIABLES
  registered,  \* functions in m_registerFunctionMap
  rows,        \* m_mutualExclusionMap: <<f, g, whether g's operations are there>>
  timers,      \* timers that have not fired: <<what to do, function>>
  isOpen,      \* m_isOpen of each function
  related      \* history: pairs that came to exclude each other when they were
               \* not both open or about to be, and were not missed since

exclvars == <<registered, rows, timers, isOpen, related>>

ExclInit == /\ registered = {} /\ rows = {} /\ timers = <<>> /\ related = {}
            /\ isOpen = [f \in Functions |-> FALSE]

RegisterFunction(f) == /\ registered' = registered \cup {f}
                       /\ UNCHANGED <<rows, timers, isOpen, related>>

UnRegisterFunction(f) == /\ registered' = registered \ {f}
                         /\ UNCHANGED <<rows, timers, isOpen, related>>

(* Neither function is about to be opened, and one of them is closed.      *)
Apart(f, g) == /\ ~(isOpen[f] /\ isOpen[g])
               /\ \A i \in DOMAIN timers : timers[i] \notin {<<"open", f>>, <<"open", g>>}

(* A function that is not registered yet leaves an empty row, whose        *)
(* receiver is indeterminate.                                              *)
RegisterMutuallyExclusiveRelationship(f, g) ==
  /\ rows' = rows \cup {<<f, g, g \in registered>>}
  /\ related' = IF Apart(f, g) /\ \E r \in rows : r[1] = g /\ r[2] = f
                THEN related \cup {{f, g}} ELSE related
  /\ UNCHANGED <<registered, timers, isOpen>>

UnregisterMutuallyExclusiveRelationship(f) ==
  /\ rows' = {r \in rows : r[1] # f}
  /\ related' = {p \in related : f \notin p}
  /\ UNCHANGED <<registered, timers, isOpen>>

(* The rows whose check and close operations are found.                    *)
Excluded(f) == {r[2] : r \in {s \in rows : s[1] = f /\ (s[3] \/ s[2] \in registered)}}

(* FunctionOpen(f, true) in the order of its timers: the excluded          *)
(* functions first.  It misses a function whose row is empty when that is  *)
(* not registered now, or when the timer with the indeterminate receiver   *)
(* is lost.                                                                *)
opens(f, closed) == /\ f \in registered /\ Len(timers) < TimerBound
                    /\ LET checks == Seqs!SetToSeq(closed) IN
                       timers' = timers \o [i \in DOMAIN checks |-> <<"check", checks[i]>>]
                                        \o <<<<"open", f>>>>
                    /\ related' = {p \in related : f \in p =>
                          \A g \in p \ {f} : g \in closed \/ <<f, g, TRUE>> \in rows}
                    /\ UNCHANGED <<registered, rows, isOpen>>

(* Mutant: operations are only looked up among the registered functions.   *)
FunctionOpen_true_registered(f) == opens(f, Excluded(f) \cap registered)

FunctionOpen_true(f) ==
  \E lost \in SUBSET {g \in Excluded(f) : <<f, g, TRUE>> \notin rows} :
    opens(f, Excluded(f) \ lost)

FunctionOpen_false(f) == /\ f \in registered /\ Len(timers) < TimerBound
                         /\ timers' = Append(timers, <<"close", f>>)
                         /\ UNCHANGED <<registered, rows, isOpen, related>>

(* The oldest timer fires; checkFunction and closeFunction close a         *)
(* function that is open.                                                  *)
timer_fires == /\ timers # <<>>
               /\ isOpen' = [isOpen EXCEPT ![Head(timers)[2]] = Head(timers)[1] = "open"]
               /\ timers' = Tail(timers)
               /\ UNCHANGED <<registered, rows, related>>

ExclNext == \/ \E f \in Functions :
                 \/ RegisterFunction(f) \/ UnRegisterFunction(f)
                 \/ UnregisterMutuallyExclusiveRelationship(f)
                 \/ FunctionOpen_true(f) \/ FunctionOpen_false(f)
                 \/ \E g \in Functions \ {f} : RegisterMutuallyExclusiveRelationship(f, g)
            \/ timer_fires

ExclSpec == ExclInit /\ [][ExclNext]_exclvars

-----------------------------------------------------------------------------
(* Two functions that come to exclude each other while they are not both   *)
(* open are never open together from then on, whatever is opened, closed,  *)
(* registered or unregistered and whatever timers are pending; only a      *)
(* function that was registered after the relation can be missed.          *)
NeverBothOpen ==
  \A f, g \in Functions : {f, g} \in related => ~(isOpen[f] /\ isOpen[g])

=============================================================================
