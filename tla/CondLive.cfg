CONSTANTS
  NULL = NULL
  main_thread = main_thread
  t1 = t1
  t2 = t2
  t3 = t3
  m1 = m1
  m2 = m2
  c1 = c1
  Threads = {main_thread, t1, t2, t3}
  Mutexes = {m1}
  Conds = {c1}
  THREAD_SCHED_POLICY = "FIFO"
  THREAD_MIN_PRIORITY = 0
  THREAD_DEFAULT_PRIORITY = 0
  THREAD_MAX_PRIORITY = 0
  THREAD_AGING = 2
  THREAD_WAIT = 1
SPECIFICATION CondFairSpec
PROPERTIES LockGranted CondWaitReacquires WokenWaiterReturns
