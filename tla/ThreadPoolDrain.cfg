SPECIFICATION Spec
CONSTANTS
  Workers = {w1}
  Clients = {c1}
  Owner = owner
  Tasks = {t1}
  Nil = nil
INVARIANT ShutdownDrains
