\* Every interleaving of two tasks' stageFile calls (two each, over two
\* files on one host) with ingestions, failed requests, failed deliveries,
\* host-down reports and timeouts.  The tasks stop calling after their
\* bound, so the system may come to rest.
CONSTANTS
    c1 = c1
    c2 = c2
    f1 = f1
    f2 = f2
    Corrs = {c1, c2}
    Files = {f1, f2}
    Hosts = {"h1"}
    MaxCalls = 2
    RequestFailures = TRUE
    DeliveryFailures = TRUE

SPECIFICATION Spec
CHECK_DEADLOCK FALSE
PROPERTY RegistryRefinement
