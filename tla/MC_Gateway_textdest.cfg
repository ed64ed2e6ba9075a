CONSTANTS
    Req = {r1}
    Job = {j1}
    MaxJobs = 1
    MaxFiles = 1
    Inputs <- TextDestInputs
SPECIFICATION Spec
INVARIANT DestinationsAsSent
