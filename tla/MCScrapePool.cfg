SPECIFICATION PatientSpec
CONSTANTS
    r1 = r1
    r2 = r2
    r3 = r3
    r4 = r4
    r5 = r5
    rt = rt
    tc = tc
    conntrack = conntrack
    xfrm = xfrm
    softnet = softnet
    t1 = t1
    t2 = t2
    t3 = t3
    t4 = t4
    NoTask = NoTask
    NoJob = NoJob
    NoBody = NoBody
    Requests = {r1, r2, r3, r4, r5}
    Collectors = {rt, tc}
    Order <- PoolOrder
    Available = {rt, tc}
    Jobs <- PoolJobs
    Threads = {t1, t2, t3, t4}
    Stuck = {tc}
CONSTRAINT NoKernelErrors
SYMMETRY PoolSymmetry
INVARIANTS
    RemainingServed
