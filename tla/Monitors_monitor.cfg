SPECIFICATION Spec
CONSTANTS
    t1 = t1  t2 = t2
    p1 = p1  p2 = p2
    Projects = {p1}
    Threads = {t1, t2}
    Lease = 1
    Interval = 2
    MaxFailures = 2
    RetryAfter <- MCRetryAfter
    MaxRuns = 2
    MaxLate = 1
    MaxSaved = 3
    Nobody = Nobody
    NoProject = NoProject
INVARIANTS
    MonitorTypeOK
    ComparedWithPredecessor
PROPERTIES
    NoResultFromBeforeChange
    DueIsRun
