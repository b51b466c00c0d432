SPECIFICATION FairSpec
CONSTANTS
  Workers = {w1, w2}
  Clients = {}
  Owner = owner
  Tasks = {t1}
  HeadCell = head
  Nil = nil
PROPERTIES TerminateStops WaitdoneReturns
