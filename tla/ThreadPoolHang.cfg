SPECIFICATION FairSpec
CONSTANTS
  Workers = {w1}
  Clients = {}
  Owner = owner
  Tasks = {t1}
  Nil = nil
PROPERTY ShutdownReturns
