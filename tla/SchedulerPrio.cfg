CONSTANTS
  NULL = NULL
  main_thread = main_thread
  t1 = t1
  t2 = t2
  t3 = t3
  Threads = {main_thread, t1, t2, t3}
  THREAD_SCHED_POLICY = "PRIO"
  THREAD_MIN_PRIORITY = 0
  THREAD_DEFAULT_PRIORITY = 2
  THREAD_MAX_PRIORITY = 5
  THREAD_AGING = 2
  THREAD_WAIT = 1
SPECIFICATION FairSpec
INVARIANTS TypeOK QueueSorted
PROPERTIES YieldRunsHighest AgingPreventsStarvation
