CONSTANTS
  NULL = NULL
  main_thread = main_thread
  t1 = t1
  t2 = t2
  t3 = t3
  s1 = s1
  s2 = s2
  Threads = {main_thread, t1, t2, t3}
  Stacks = {s1, s2}
  THREAD_SCHED_POLICY = "FIFO"
  THREAD_MIN_PRIORITY = 0
  THREAD_DEFAULT_PRIORITY = 0
  THREAD_MAX_PRIORITY = 0
  THREAD_AGING = 2
  THREAD_WAIT = 1
  MAX_POOLED_THREADS = 1
  MAX_POOLED_STACKS = 1
  MAX_DEFERRED_STACKS = 1
  MAX_ALLOC_RETRIES = 1
  MAX_HEAD_REFS = 5
SPECIFICATION CoreSpec
INVARIANTS NoJoinCycle
