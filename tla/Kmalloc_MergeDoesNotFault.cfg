SPECIFICATION Spec
CONSTANTS
    MAX_ORDER = 2
    PAGE_CNT = 4
    FIRST_PAGE = 1
    PAGE_SIZE = 64
    SIZES <- MCSizes
    MAX_LIVE = 3
    LOW_MAPPED = FALSE
INVARIANT MergeDoesNotFault
