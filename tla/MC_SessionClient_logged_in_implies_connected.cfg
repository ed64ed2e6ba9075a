CONSTANTS
    MaxJobs = 1
SPECIFICATION Spec
INVARIANT LoggedInImpliesConnected
