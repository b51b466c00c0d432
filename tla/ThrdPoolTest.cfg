SPECIFICATION TestSpec
CONSTANTS
  Workers = {w1, w2}
  Clients = {c1, c2}
  Owner = owner
  Tasks = {t1, t2}
  HeadCell = head
  Nil = nil
INVARIANT ProducersDone
