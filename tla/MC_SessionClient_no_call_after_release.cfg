CONSTANTS
    MaxJobs = 1
SPECIFICATION Spec
PROPERTY NoCallAfterRelease
