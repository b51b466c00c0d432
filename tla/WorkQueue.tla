------------------------------ MODULE WorkQueue ------------------------------
(***************************************************************************)
(* The work queue of src/PoolTypeStructure/2.3.1-coroutine-main/           *)
(* server_mulport_epoll.c: its workers, workqueue_add_job as the epoll     *)
(* loop calls it, and workqueue_shutdown.  The job list is only touched    *)
(* under jobs_mutex, so a step is one such section, the run of a job, or   *)
(* one worker marked by workqueue_shutdown, which takes no lock for that.  *)
(***************************************************************************)
EXTENDS Naturals, FiniteSets

CONSTANTS QueueWorkers, Jobs, NoJob, Unlocked

ASSUME WqAssumption == /\ NoJob \notin Jobs /\ Unlocked \notin QueueWorkers
                       /\ IsFiniteSet(Jobs) /\ IsFiniteSet(QueueWorkers)

VARIABLES
  waiting_jobs, nextjob,  \* head of the list, and next of each job
  jobs_mutex,             \* who keeps the mutex locked between two steps
  worker, job,            \* "lock", "wait", "run" or "gone"; the job it runs
  terminate,              \* the workers that are told to stop
  fate,                   \* where each job is; "new" before its malloc
  shutdown                \* "no", "mark", "clear" or "done"

wqvars == <<waiting_jobs, nextjob, jobs_mutex, worker, job, terminate, fate, shutdown>>

WqInit == /\ waiting_jobs = NoJob /\ nextjob = [j \in Jobs |-> NoJob]
          /\ jobs_mutex = Unlocked
          /\ worker = [w \in QueueWorkers |-> "lock"]
          /\ job = [w \in QueueWorkers |-> NoJob]
          /\ terminate = {} /\ shutdown = "no"
          /\ fate = [j \in Jobs |-> "new"]

-----------------------------------------------------------------------------
(* worker_function: one turn of its loop, up to the wait or the unlock.    *)

Enters(w) == worker[w] = "lock" /\ jobs_mutex = Unlocked

worker_waits(w) == /\ Enters(w) /\ waiting_jobs = NoJob /\ w \notin terminate
                   /\ worker' = [worker EXCEPT ![w] = "wait"]
                   /\ UNCHANGED <<waiting_jobs, nextjob, jobs_mutex, job, terminate, fate, shutdown>>

picks(w, rest) == /\ Enters(w) /\ waiting_jobs # NoJob /\ w \notin terminate
                  /\ job' = [job EXCEPT ![w] = waiting_jobs]
                  /\ waiting_jobs' = rest
                  /\ fate' = [fate EXCEPT ![waiting_jobs] = "running"]
                  /\ worker' = [worker EXCEPT ![w] = "run"]
                  /\ UNCHANGED <<nextjob, jobs_mutex, terminate, shutdown>>

(* Mutant: the job is left in the list while it runs.                      *)
worker_takes_copy(w) == picks(w, waiting_jobs)

(* LL_REMOVE of the first job; its prev is always NULL.                    *)
worker_takes(w) == picks(w, nextjob[waiting_jobs])

(* client_job ends by freeing its job.                                     *)
worker_runs(w) == /\ worker[w] = "run"
                  /\ fate' = [fate EXCEPT ![job[w]] = "freed"]
                  /\ job' = [job EXCEPT ![w] = NoJob]
                  /\ worker' = [worker EXCEPT ![w] = "lock"]
                  /\ UNCHANGED <<waiting_jobs, nextjob, jobs_mutex, terminate, shutdown>>

(* The loop ends with the mutex locked.                                    *)
worker_leaves(w) == /\ Enters(w) /\ w \in terminate
                    /\ worker' = [worker EXCEPT ![w] = "gone"]
                    /\ jobs_mutex' = w
                    /\ UNCHANGED <<waiting_jobs, nextjob, job, terminate, fate, shutdown>>

(* pthread_cond_wait may return for no reason.                             *)
worker_wakes(w) == /\ worker[w] = "wait"
                   /\ worker' = [worker EXCEPT ![w] = "lock"]
                   /\ UNCHANGED <<waiting_jobs, nextjob, jobs_mutex, job, terminate, fate, shutdown>>

-----------------------------------------------------------------------------
(* workqueue_add_job of a new job: LL_ADD and pthread_cond_signal.         *)
added(j) == /\ jobs_mutex = Unlocked /\ fate[j] = "new"
            /\ nextjob' = [nextjob EXCEPT ![j] = waiting_jobs]
            /\ waiting_jobs' = j
            /\ fate' = [fate EXCEPT ![j] = "queued"]
            /\ UNCHANGED <<jobs_mutex, job, terminate, shutdown>>

Waiting == {w \in QueueWorkers : worker[w] = "wait"}

(* Mutant: no worker is signalled.                                         *)
workqueue_add_job_silent(j) == added(j) /\ UNCHANGED worker

workqueue_add_job(j) ==
  /\ added(j)
  /\ IF Waiting = {} THEN UNCHANGED worker
     ELSE \E w \in Waiting : worker' = [worker EXCEPT ![w] = "lock"]

(* workqueue_shutdown marks the workers, then clears the list.             *)
shutdown_marks == /\ shutdown \in {"no", "mark"}
  /\ \E w \in QueueWorkers \ terminate :
       /\ terminate' = terminate \cup {w}
       /\ shutdown' = IF terminate' = QueueWorkers THEN "clear" ELSE "mark"
  /\ UNCHANGED <<waiting_jobs, nextjob, jobs_mutex, worker, job, fate>>

shutdown_clears ==
  /\ shutdown = "clear" /\ jobs_mutex = Unlocked
  /\ shutdown' = "done" /\ waiting_jobs' = NoJob
  /\ fate' = [j \in Jobs |-> IF fate[j] = "queued" THEN "dropped" ELSE fate[j]]
  /\ worker' = [w \in QueueWorkers |-> IF worker[w] = "wait" THEN "lock" ELSE worker[w]]
  /\ UNCHANGED <<nextjob, jobs_mutex, job, terminate>>

(* No event, or nobody gets the mutex any more.                            *)
epoll_times_out == UNCHANGED wqvars

WqWorker(w) == worker_waits(w) \/ worker_takes(w) \/ worker_runs(w) \/ worker_leaves(w)

WqNext == \/ \E w \in QueueWorkers : WqWorker(w) \/ worker_wakes(w)
          \/ \E j \in Jobs : workqueue_add_job(j)
          \/ shutdown_marks \/ shutdown_clears \/ epoll_times_out

WqSpec == WqInit /\ [][WqNext]_wqvars

-----------------------------------------------------------------------------
(* From waiting_jobs, next leads through the jobs of s, which differ, and  *)
(* ends.                                                                   *)
IsJobList(s) ==
  /\ waiting_jobs = IF DOMAIN s = {} THEN NoJob ELSE s[1]
  /\ \A i \in DOMAIN s : nextjob[s[i]] = IF i + 1 \in DOMAIN s THEN s[i + 1] ELSE NoJob
  /\ \A i, j \in DOMAIN s : s[i] = s[j] => i = j

(* The list holds exactly the jobs that were added and not taken, each     *)
(* once: the list ends, and never leads to a job that was freed.  A worker *)
(* that was told to stop takes jobs_mutex with it, so that one at most     *)
(* leaves and nobody reaches the list any more.                            *)
JobListSound ==
  /\ \E n \in 0 .. Cardinality(Jobs) : \E s \in [1 .. n -> Jobs] :
       IsJobList(s) /\ {s[i] : i \in 1 .. n} = {j \in Jobs : fate[j] = "queued"}
  /\ \A w \in QueueWorkers : worker[w] = "run" =>
       /\ fate[job[w]] = "running"
       /\ \A v \in QueueWorkers \ {w} : job[v] # job[w]
  /\ {w \in QueueWorkers : worker[w] = "gone"} = {jobs_mutex} \ {Unlocked}

(* A job that was added is run, unless workqueue_shutdown comes: signals   *)
(* that wake one worker each lose no job, though the list is a stack.      *)
AddedRuns == \A j \in Jobs : fate[j] = "queued" ~> fate[j] # "queued" \/ shutdown # "no"

=============================================================================
