CONSTANTS
  NULL = NULL
  main_thread = main_thread
  t1 = t1
  t2 = t2
  t3 = t3
  Threads = {main_thread, t1, t2, t3}
  InitialValues = {0, 1, 2}
  MAX_POSTS = 5
  THREAD_SCHED_POLICY = "FIFO"
  THREAD_MIN_PRIORITY = 0
  THREAD_DEFAULT_PRIORITY = 0
  THREAD_MAX_PRIORITY = 0
  THREAD_AGING = 2
  THREAD_WAIT = 1
SPECIFICATION SemFairSpec
INVARIANTS SemTypeOK UnitsConserved NoIdleUnit
PROPERTIES ImplementsCountingSem RevivedReturns
