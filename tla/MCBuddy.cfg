\* A memory with a kernel of one page and an odd tail: the last page has no
\* buddy, so every order has a block that can never be completed.
SPECIFICATION FairSpec
CONSTANTS
    MAX_ORDER = 3
    PAGE_CNT = 9
    FIRST_PAGE = 1
    REQUESTS <- MCRequests
INVARIANTS
    TypeOK
    NoOverlap
    NoPageLost
    BitmapExact
    BitmapInBounds
    CountExact
    BugOnlyWhenFull
PROPERTIES
    CallEnds
    Implements
