\* Two files of one sector, two free clusters, room for a third file.
SPECIFICATION Spec
CONSTANTS
    BLOCKS = 6
    SECTORS_PER_BLOCK = 2
    SECTORS_PER_FD = 1
    SECTORS_PER_TRACK = 3
    HEADS = 2
    DISK_BUFFER_MOD = 3
    FAT_START_SECT = 1
    ROOT_START_SECT = 5
    DATA_START_SECT = 7
    FAT_PER_SECTOR = 3
    CLUSTERS = 6
    SLOTS = 3
    SLOTS_PER_SECTOR = 2
    SECTOR_SIZE = 2
    NAMES = {"A", "B", "C"}
    FULL_NAMES = {"C"}
    DISK <- FirstDisk
    FILE_DESC_MAX = 2
    POSITIONS = {0, 1}
    LENGTHS = {1, 3}
    BYTES = {"x"}
    MAX_CALLS = 4
    MAX_CRASHES = 1
    NULL = NULL
INVARIANTS
    TypeOK
    WriteThrough
    DiskSound
    ChainsExact
    GrowthIsSaved

    
