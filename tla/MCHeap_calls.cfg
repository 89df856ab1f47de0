SPECIFICATION Spec
CONSTANTS
    WORD = 4096
    mem_heap = 4
    mem_heap_end = 256
    pagesize = 64
    MIN_LARGE_SHIFT = 5
    DEFAULT_MXFAST = 12
    DEFAULT_TRIM_THRESHOLD = 128
    Requests = {4, 60}
    Alignments = {32}
    Elements <- MCElements
    MxfastValues = {20}
    Pads = {40}
    Thresholds = {64}
    MaxLive = 5
    MaxCalls = 5
INVARIANTS Checked NothingLost FailsOnlyWhenFull
PROPERTIES ImplementsBlocks
CHECK_DEADLOCK FALSE
