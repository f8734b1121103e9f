SPECIFICATION FairSpec
CONSTANTS
  Calls = {1, 2}
  q1 = q1
  q2 = q2
  s1 = s1
  s2 = s2
  d1 = d1
  d2 = d2
  NoJob = NoJob
  Queues = {q1, q2}
  Jobs = {s1, s2, d1}
  QueueOf <- MCQueueOf
  ScheduleQueue = q1
  Schedules <- MCSchedules
  Moments <- MCMoments
  Delays = {1}
  MaxFailures = 1
INVARIANTS
  TypeOK
  NextIsFirstDue
  DelayedJobsListed
PROPERTIES
  RunsWhenDue
  ResolvedMeansDrained
  CallsSettle
CHECK_DEADLOCK FALSE
