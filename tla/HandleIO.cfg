\* Two callers of one file; four possible directory entries.
CONSTANTS
    c1 = c1
    c2 = c2
    Callers = {c1, c2}
    Workloads <- MCWorkloads
    Chunk = 2
    MaxReadSize = 2
    AllocationUnit = 2
    Names = {1, 2, 3, 4}
    Width <- MCWidth
    Scenarios <- MCScenarios
SPECIFICATION Spec
SYMMETRY Symmetry
INVARIANTS
    TypeOK
    AloneExact
    OffsetTracks
    CloseSafe
    ListingPrefix
    NothingSkipped
\* The callers make a bounded number of calls and then stop.
CHECK_DEADLOCK FALSE
