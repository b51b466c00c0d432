SPECIFICATION Spec
CONSTANTS
  LockUsers = {u1, u2, u3}
  Writers = {w1}
  Readers = {r1}
  Capacity = 3
  Items = 5
  Blank = blank
  Producers = {p1, p2}
  Consumers = {c1}
  Teams = {{p1, c1}, {p1, p2}}
  Quota = 3
  QueueCapacity = 2
  SizeModulus = 8
  QueueNodes = {n1, n2, n3, n4}
  NoNode = nonode
  TableThreads = {t1, t2}
  Keys = {k1, k2}
  Removers = {t1}
  TableNodes = {a1, a2}
  Null = null
  Getters = {g1, g2, g3}
  CacheKeys = {k1}
  Calls = 2
  BufProducers = {p1, p2}
  BufConsumers = {c1, c2}
  BufQuota = 2
  BufCapacity = 2
  PoolUsers = {u1, u2, u3}
  Connections = {d1, d2}
  NoConn = noconn
  Requests = {r1, r2, r3}
  Fds = {f1, f2}
  Nobody = nobody
  QueueWorkers = {w1, w2}
  Jobs = {j1, j2, j3}
  NoJob = nojob
  Unlocked = unlocked
  Functions = {1, 2}
  TimerBound = 2
  Pointers = {s1, s2, s3}
  Objects = {o1, o2}
  NoObject = noobject
INVARIANTS Exclusion LfqNodesSound HtNodesSound HtFindCorrect OneTaskPerKey OneOwner
  NoneIdleBesideWaiter RegisteredOpen DnsReleases JobListSound NeverBothOpen LastOwnerDeletes
PROPERTIES WriterEnters ReaderProgress RingIsFifo LfqIsFifo OneEachTerminates
  GetReturns BufIsFifo BufferTerminates AnswerIsDelivered AddedRuns
