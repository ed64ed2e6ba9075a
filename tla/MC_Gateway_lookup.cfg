CONSTANTS
    Req = {r1, r2}
    Job = {j1, j2}
    MaxJobs = 2
    MaxFiles = 1
    Inputs <- LookupInputs
SYMMETRY ReqSymmetry
SPECIFICATION Spec
INVARIANT JobLookupComplete
