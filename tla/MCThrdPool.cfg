SPECIFICATION Spec
CONSTANTS
  Workers = {w1, w2}
  Clients = {c1}
  Owner = owner
  Tasks = {t1, t2, t3}
  HeadCell = head
  Nil = nil
SYMMETRY Symmetry
INVARIANTS LocksHeld ListIsQueue ExactlyOnce NoUseAfterFree EverythingReleased
PROPERTY ImplementsJobPool
