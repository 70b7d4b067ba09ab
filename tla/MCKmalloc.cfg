\* Three pages, so that nodes of both orders come, fill up and are recycled.
SPECIFICATION FairSpec
CONSTANTS
    MAX_ORDER = 2
    PAGE_CNT = 4
    FIRST_PAGE = 1
    PAGE_SIZE = 64
    SIZES <- MCSizes
    MAX_LIVE = 3
    LOW_MAPPED = TRUE
INVARIANTS
    TypeOK
    AreasDisjoint
    LiveKept
    NodesOwnBlocks
    FreeListOrdered
PROPERTIES
    KmallocEnds
