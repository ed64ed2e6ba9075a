CONSTANTS
    Req = {r1}
    Job = {j1}
    MaxJobs = 1
    MaxFiles = 2
    Inputs <- LeakInputs
SPECIFICATION Spec
INVARIANT UploadsReleased
