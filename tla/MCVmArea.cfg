\* Three tables; the memory behind a page table holds no present bit.
SPECIFICATION Spec
CONSTANTS
    p1 = p1
    p2 = p2
    p3 = p3
    p4 = p4
    p5 = p5
    p6 = p6
    p7 = p7
    PAGES <- MCPages
    NONE = NONE
    PAGE_SIZE = 4
    TABLE_ENTRIES = 3
    DIR_ENTRIES = 3
    REQUESTS <- MCRequests
    MAX_AREAS = 3
    BITS_BEHIND = {FALSE}
SYMMETRY PageSymmetry
INVARIANTS
    TypeOK
    
    
    PagesAccounted
