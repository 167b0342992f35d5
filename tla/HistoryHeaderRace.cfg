\* The two audit histories.
SPECIFICATION Spec
CONSTANTS
    Writers = {v, w}
    Formats <- MCAudit
    MaxRuns = 4
    MaxFailures = 2
INVARIANTS
    HeaderOnce
CHECK_DEADLOCK FALSE
