\* Two tasks POSTed by the job manager, whose SCHEDULE_THRDs run concurrently; scan threads may die on an unexpected exception and be re-launched.  A dead scan thread strands the queued tasks until the next POST, so with a bounded number of POSTs the system really stops: deadlock is not checked.
CONSTANTS
    Tasks = {t1, t2}
    ScanIds = {s1, s2}
    ScanFailures = TRUE
    None = None

SPECIFICATION Spec
CHECK_DEADLOCK FALSE
INVARIANT ExclusiveExecution
