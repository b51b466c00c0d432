SPECIFICATION LfqSpec
CONSTANTS
  Producers = {p1, p2}
  Consumers = {c1, c2}
  Teams = {{p1, p2, c1, c2}}
  Quota = 1
  QueueCapacity = 2
  SizeModulus = 8
  QueueNodes = {n1, n2, n3}
  NoNode = nonode
INVARIANT LfqNoDangling
