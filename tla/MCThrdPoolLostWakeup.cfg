SPECIFICATION FairSpec
CONSTANTS
  Workers = {w1}
  Clients = {}
  Owner = owner
  Tasks = {t1}
  HeadCell = head
  Nil = nil
PROPERTY PostedIsTaken
