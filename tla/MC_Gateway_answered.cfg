CONSTANTS
    Req = {r1, r2}
    Job = {j1}
    MaxJobs = 1
    MaxFiles = 1
    Inputs <- AnsweredInputs
SPECIFICATION FairSpec
PROPERTY AllAnswered
