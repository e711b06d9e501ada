SPECIFICATION FairSpec
CONSTANTS
    Streams = {out, err}
    Sizes = {2}
    Heading = 1
    Retention = 3
    DiskRetention = 5
    MaxStarts = 2
    MaxLines = 2
    MaxFailures = 1
INVARIANTS
    FileIsBounded
PROPERTIES
    PageCatchesUp
CHECK_DEADLOCK FALSE
