CONSTANTS
    Req = {r1}
    Job = {j1, j2}
    MaxJobs = 1
    MaxFiles = 1
    Inputs <- OverflowInputs
SPECIFICATION Spec
INVARIANT OverflowTruncated
