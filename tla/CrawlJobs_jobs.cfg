SPECIFICATION Spec
CONSTANTS
    u1 = u1  u2 = u2  u3 = u3
    p1 = p1  p2 = p2  p3 = p3  p4 = p4
    c1 = c1  c2 = c2
    Users = {u1, u2, u3}
    Projects = {p1, p2, p3, p4}
    Owner <- MCOwner
    MaxJobs = 3
    Lease = 1
    UserLimit = 1
    GlobalLimit = 2
    Crawls = {c1, c2}
    Nobody = Nobody
    NoProject = NoProject
SYMMETRY JobSymmetry
INVARIANTS
    JobTypeOK
    ActiveJobsWithinLimits
    ActiveJobHasLiveProject
PROPERTIES
    AcceptedReportEndsJob
