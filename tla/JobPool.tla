------------------------------ MODULE JobPool -------------------------------
(***************************************************************************)
(* What a thread pool of this repository promises about jobs, whatever its *)
(* queue, locks and shutdown protocol: a job that was accepted is started  *)
(* by one worker and runs once, at most MaxWorkers jobs are in the hands   *)
(* of workers at a time, and a job is discarded only by a pool that is     *)
(* being shut down.                                                        *)
(***************************************************************************)
EXTENDS Naturals, FiniteSets

CONSTANTS Jobs, MaxWorkers  \* MaxWorkers is a natural number

VARIABLES job,    \* the state of each job
          closed  \* the pool is being shut down

Init == job = [j \in Jobs |-> "new"] /\ closed = FALSE

Move(j, from, to) == job[j] = from /\ job' = [job EXCEPT ![j] = to]

Accept(j) == Move(j, "new", "queued") /\ UNCHANGED closed

Start(j) ==
  /\ Cardinality({i \in Jobs : job[i] = "started"}) < MaxWorkers
  /\ Move(j, "queued", "started")
  /\ UNCHANGED closed

Finish(j) == Move(j, "started", "finished") /\ UNCHANGED closed

(* A pool that goes away discards all that is left at once, or one by one. *)
Discard(S) ==
  /\ closed
  /\ \A j \in S : job[j] = "queued"
  /\ job' = [j \in Jobs |-> IF j \in S THEN "discarded" ELSE job[j]]
  /\ UNCHANGED closed

Close == closed' = TRUE /\ UNCHANGED job

Next ==
  \/ \E j \in Jobs : Accept(j) \/ Start(j) \/ Finish(j)
  \/ \E S \in SUBSET Jobs : Discard(S)
  \/ Close

Spec == Init /\ [][Next]_<<job, closed>>

=============================================================================
