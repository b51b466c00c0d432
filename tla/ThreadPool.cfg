SPECIFICATION FairSpec
CONSTANTS
  Workers = {w1, w2}
  Clients = {c1}
  Owner = owner
  Tasks = {t1, t2}
  Nil = nil
INVARIANTS OneRun AcceptedDone DestroyedAlone
PROPERTIES ImplementsJobPool SubmittedRuns
