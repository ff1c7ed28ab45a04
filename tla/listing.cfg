SPECIFICATION FairSpec
CONSTANTS
    NULL = NULL
    PageSizes = {0, 1, 2, 3}
    FullMinPageSize = 2
    MaxEntries = 5
    MaxLeaves = 2
INVARIANTS TypeOK Complete NoneTwice
PROPERTIES Terminates
