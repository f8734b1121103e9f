\* Three requests over connections of which three fail.
SPECIFICATION FairSpec
CONSTANTS
    Requests = {r1, r2, r3}
    MaxFailures = 3
INVARIANTS TypeOK OneConnection
PROPERTIES RequestsSettle Reconnects
CHECK_DEADLOCK FALSE
