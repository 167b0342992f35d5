\* Two processes, all three kinds of file, two failing appends.
SPECIFICATION Spec
CONSTANTS
    Writers = {v, w}
    Formats <- MCAll
    MaxRuns = 4
    MaxFailures = 2
INVARIANTS
    HeaderOnTop
    ReadsWhatWasAppended
    LossIsBounded
CHECK_DEADLOCK FALSE
