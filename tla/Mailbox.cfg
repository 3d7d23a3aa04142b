SPECIFICATION FairSpec
CONSTANTS
  Sender = {s1, s2}
  Worker = {w1, w2}
  Task = {t1, t2, t3, t4}
  NoTask = NoTask
  Batch = 2
INVARIANTS
  OneRunner
PROPERTIES
  FifoSpec
  EveryTaskHandled
CHECK_DEADLOCK FALSE
