\* start(), stop() and start() again; the recurring schedule is too frequent to
\* be retried.  The clock of the model stops at MaxTime.
SPECIFICATION Spec
CONSTANTS
    Recurring = Recurring
    OneTime = OneTime
    Schedules = {Recurring, OneTime}
    When <- MCWhen
    Startable = {Recurring, OneTime}
    LateSchedules = {Recurring, OneTime}
    RetryDelay = 1
    RetryAbove = 1
    MaxDelay = 20
    MaxTime = 6
    MaxStarts = 2
    MaxLost = 1
INVARIANTS NotBeforeStart ArmedWhileStarted BacklogBoundedUnlessRetried
    NotAfterEnd OneOffOncePerStart StopReachesTimers
CHECK_DEADLOCK FALSE
