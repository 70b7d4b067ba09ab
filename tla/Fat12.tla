------------------------------- MODULE Fat12 -------------------------------
(***************************************************************************)
(* FAT12 on the disk buffer, fat12.c: copies of the FAT and of the root    *)
(* directory in memory, cluster chains, the growth of files, inodes.       *)
(*                                                                         *)
(* A FAT entry is a number, whose packing into 12 bits is not modelled; a  *)
(* directory entry is its name, first cluster and size; a name stands for  *)
(* the eight characters that are compared.                                 *)
(*                                                                         *)
(* Nothing runs beside a call, but the power may fail between any two of   *)
(* its writes to the floppy.  What follows from a cluster number that has  *)
(* no FAT entry, or from cluster 0, is not modelled: the model stops.      *)
(***************************************************************************)
EXTENDS DiskBuffer

CONSTANTS
    FAT_START_SECT, ROOT_START_SECT, DATA_START_SECT,
    FAT_PER_SECTOR,     \* FAT entries in a sector
    CLUSTERS,           \* FAT entries
    SLOTS,              \* directory entries
    SLOTS_PER_SECTOR,
    SECTOR_SIZE,
    NAMES,
    FULL_NAMES,         \* the names of eleven characters
    DISK                \* the floppy at first

VARIABLES
    fat, root,
    inode_list,     \* the inodes in the order of their creation, newest last
    call,           \* the fat12_rw_aux in progress
    got,            \* the bytes it has copied to the caller
    pc,             \* "boot", "idle", a loop, or why the kernel stopped
    put,            \* fat12_set_info: the blocks it has put
    unsaved,        \* history: something was removed since the last save
    risk            \* history: what a power failure has made of the FAT

fatVars == <<fat, root, inode_list, call, got, pc, put, unsaved, risk>>

(***************************************************************************)
(* Layout                                                                  *)
(***************************************************************************)
EOC == 4088         \* 0xff8: this number and the greater ones end a chain
NO_CLUSTER == 65535 \* -1 as an unsigned short

Entries == 0 .. CLUSTERS - 1
DataClusters == 2 .. CLUSTERS - 1
Slots == 0 .. SLOTS - 1

(* What an entry can hold: 4080 is in the first one, for the medium.       *)
FatValues == Entries \cup {4080} \cup EOC .. 4095

FileType == [name : NAMES \cup {""}, cluster : 0 .. NO_CLUSTER, size : Nat]

NoFile == [name |-> "", cluster |-> 0, size |-> 0]

NoCall == [op |-> "none", slot |-> 0, offset |-> 0, len |-> 0, byte |-> "",
           cluster |-> 0, curr_sect |-> 0]

FatSector(c) == FAT_START_SECT + c \div FAT_PER_SECTOR
RootSector(s) == ROOT_START_SECT + s \div SLOTS_PER_SECTOR
DataSector(c) == c + DATA_START_SECT - 2

FatSectors == {FatSector(c) : c \in Entries}
RootSectors == {RootSector(s) : s \in Slots}

ASSUME LayoutAssumption ==
    /\ {FAT_START_SECT, ROOT_START_SECT} \subseteq Nat
    /\ {DATA_START_SECT, FAT_PER_SECTOR, SLOTS, SLOTS_PER_SECTOR, SECTOR_SIZE} \subseteq Nat \ {0}
    /\ CLUSTERS \in 2 .. 4080
    /\ \A x \in FatSectors, y \in RootSectors : x < y
    /\ FatSectors \cup RootSectors \subseteq 0 .. DATA_START_SECT - 1
    /\ DATA_START_SECT + CLUSTERS - 2 <= BLOCKS * SECTORS_PER_BLOCK

(* The FAT and the root directory in sectors, and back.                    *)
FatOf(content) == [c \in Entries |-> content[FatSector(c)][c]]
RootOf(content) == [s \in Slots |-> content[RootSector(s)][s]]
InfoSectors(f, r) ==
    [x \in FatSectors \cup RootSectors |->
        IF x \in FatSectors
        THEN [c \in {e \in Entries : FatSector(e) = x} |-> f[c]]
        ELSE [s \in {e \in Slots : RootSector(e) = x} |-> r[s]]]

ASSUME FormatAssumption ==
    /\ DISK = [s \in Sectors |-> DISK[s]]
    /\ FatOf(DISK) \in [Entries -> FatValues]
    /\ RootOf(DISK) \in [Slots -> FileType]
    /\ \A c \in DataClusters : DISK[DataSector(c)] \in [1 .. SECTOR_SIZE -> STRING]

(***************************************************************************)
(* Chains of a FAT f                                                       *)
(***************************************************************************)
(* The clusters met from c on, c first; one without successor repeats.     *)
Steps(f, c) ==
    LET step[n \in 0 .. CLUSTERS] ==
            IF n = 0 THEN c
            ELSE LET last == step[n - 1]
                 IN  IF last \in DataClusters THEN f[last] ELSE last
    IN  step

(* The clusters of the chain that starts with c, up to the first number    *)
(* that is none.                                                           *)
Chain(f, c) ==
    LET step == Steps(f, c)
        ends == {n \in 0 .. CLUSTERS : n = CLUSTERS \/ step[n] \notin DataClusters}
    IN  [n \in 1 .. Min(ends) |-> step[n - 1]]

(* It ends, and with a mark of the end.                                    *)
Ends(f, c) == c \in DataClusters /\ Steps(f, c)[CLUSTERS] \in EOC .. 4095

(* get_free_fat_entry, before the entry is marked                          *)
get_free_fat_entry(f) ==
    LET free == {c \in Entries : f[c] = 0}
    IN  IF free = {} THEN NO_CLUSTER ELSE Min(free)

Marked(f, c) == IF c = NO_CLUSTER THEN f ELSE [f EXCEPT ![c] = EOC]

(* Wrong on purpose: the new cluster is not marked.                        *)
Appended_unmarked(f, last, n) ==
    LET turn[k \in 0 .. n] ==
            IF k = 0 THEN [fat |-> f, last |-> last, wild |-> FALSE, full |-> FALSE]
            ELSE LET p == turn[k - 1]
                     c == get_free_fat_entry(p.fat)
                 IN  IF p.full THEN [p EXCEPT !.wild = TRUE]
                     ELSE [fat  |-> [p.fat EXCEPT ![p.last] = c % 4096],
                           last |-> c, wild |-> FALSE, full |-> c = NO_CLUSTER]
    IN  turn[n]

(***************************************************************************)
(* The loop of resize at the end of a chain: n times a free cluster is     *)
(* found and written into the entry of the last one.  A cluster that was   *)
(* not found is written like one, and the entry of that one, in the next   *)
(* turn, lies outside the FAT.                                             *)
(***************************************************************************)
Appended(f, last, n) ==
    LET turn[k \in 0 .. n] ==
            IF k = 0 THEN [fat |-> f, last |-> last, wild |-> FALSE, full |-> FALSE]
            ELSE LET p == turn[k - 1]
                     c == get_free_fat_entry(p.fat)
                 IN  IF p.full THEN [p EXCEPT !.wild = TRUE]
                     ELSE [fat  |-> [Marked(p.fat, c) EXCEPT ![p.last] = c % 4096],
                           last |-> c, wild |-> FALSE, full |-> c = NO_CLUSTER]
    IN  turn[n]

(***************************************************************************)
(* fat12_set_info.  Both commands get all blocks up to the one where the   *)
(* data begins, copy, and put the blocks one by one.                       *)
(***************************************************************************)
InfoBlocks == 0 .. BlockOf(DATA_START_SECT - 1)
WithInfo ==
    LET after[n \in 0 .. Cardinality(InfoBlocks)] ==
            IF n = 0 THEN cache ELSE disk_buffer_get(after[n - 1], n - 1)
    IN  after[Cardinality(InfoBlocks)]

(* Wrong on purpose: the root directory is put before the FAT.             *)
set_info_put_root_first ==
    /\ pc = "info"
    /\ syc = NoSyc
    /\ put \in InfoBlocks
    /\ disk_buffer_put(cache, Cardinality(InfoBlocks) - 1 - put)
    /\ put' = put + 1
    /\ UNCHANGED <<disk, fat, root, inode_list, call, got, pc, unsaved, risk>>

set_info_put ==
    /\ pc = "info"
    /\ syc = NoSyc
    /\ put \in InfoBlocks
    /\ disk_buffer_put(cache, put)
    /\ put' = put + 1
    /\ UNCHANGED <<disk, fat, root, inode_list, call, got, pc, unsaved, risk>>

set_info_return ==
    /\ pc = "info"
    /\ syc = NoSyc
    /\ put \notin InfoBlocks
    /\ put' = 0
    /\ pc' = IF call = NoCall THEN "idle" ELSE "rw"
    /\ unsaved' = FALSE
    /\ UNCHANGED <<disk, cache, syc, fat, root, inode_list, call, got, risk>>

(* fat12_init: FAT12_INFO_READ                                             *)
fat12_init ==
    /\ pc = "boot"
    /\ LET c == WithInfo
       IN  /\ cache' = c
           /\ fat' = FatOf(c.buffer)
           /\ root' = RootOf(c.buffer)
    /\ inode_list' = <<>>
    /\ pc' = "info"
    /\ UNCHANGED <<disk, syc, call, got, put, unsaved, risk>>

(***************************************************************************)
(* fat12_rw_aux up to its loop.  A window that ends behind the file makes  *)
(* it grow, in a read too: resize sets the size, and if the file needs     *)
(* more sectors for it appends them and saves FAT and directory.           *)
(***************************************************************************)
Needed(size) == (size + SECTOR_SIZE) \div SECTOR_SIZE

Stop(why) ==
    /\ pc' = why
    /\ risk' = "lost"
    /\ UNCHANGED <<disk, cache, syc, fat, root, inode_list, call, got, put, unsaved>>

Start(op, s, offset, len, byte) ==
    /\ call' = [op |-> op, slot |-> s, offset |-> offset, len |-> len, byte |-> byte,
                cluster |-> root[s].cluster, curr_sect |-> 0]
    /\ got' = <<>>
    /\ UNCHANGED <<disk, syc, inode_list, put, unsaved>>

(* Wrong on purpose: the last sector counts when it has a byte.            *)
Grows_late(s, end) == (end - 1) \div SECTOR_SIZE - root[s].size \div SECTOR_SIZE

Grows(s, end) == Needed(end) - Needed(root[s].size)

RwInPlace(op, s, offset, len, byte) ==
    /\ offset + len <= root[s].size \/ Grows(s, offset + len) = 0
    /\ root' = IF offset + len > root[s].size
               THEN [root EXCEPT ![s].size = offset + len] ELSE root
    /\ pc' = "rw"
    /\ Start(op, s, offset, len, byte)
    /\ UNCHANGED <<cache, fat, risk>>

RwGrows(op, s, offset, len, byte) ==
    /\ offset + len > root[s].size
    /\ Grows(s, offset + len) # 0
    /\ Ends(fat, root[s].cluster)
    /\ LET a == Appended(fat, Last(Chain(fat, root[s].cluster)), Grows(s, offset + len))
           r == [root EXCEPT ![s].size = offset + len]
           c == WithInfo
       IN  IF a.wild THEN Stop("wild")
           ELSE /\ fat' = a.fat
                /\ root' = r
                /\ cache' = [c EXCEPT !.buffer = Over(InfoSectors(a.fat, r), @)]
                /\ risk' = IF a.full \/ risk # "none" THEN "lost" ELSE risk
                /\ pc' = "info"
                /\ Start(op, s, offset, len, byte)

RwWild(s, offset, len) ==
    /\ \/ root[s].cluster \notin DataClusters
       \/ /\ offset + len > root[s].size
          /\ Grows(s, offset + len) # 0
          /\ ~Ends(fat, root[s].cluster)
    /\ Stop("wild")

fat12_rw_aux(op, s, offset, len, byte) ==
    /\ pc = "idle"
    /\ syc = NoSyc
    /\ \/ /\ root[s].cluster \in DataClusters
          /\ RwInPlace(op, s, offset, len, byte) \/ RwGrows(op, s, offset, len, byte)
       \/ RwWild(s, offset, len)

(***************************************************************************)
(* The loop: the sectors of the chain that meet the window are got,        *)
(* copied from or to, and put.  The copies are those of the first sector   *)
(* of the window, of one in its middle, and of the last.                   *)
(***************************************************************************)
StartSect == call.offset \div SECTOR_SIZE
EndSect == (call.offset + call.len) \div SECTOR_SIZE
StartByte == call.offset % SECTOR_SIZE

(* Wrong on purpose: the first sector is copied up to its end.             *)
Copied_whole_first ==
    IF call.curr_sect = StartSect
    THEN StartByte + 1 .. SECTOR_SIZE
    ELSE IF call.curr_sect < EndSect
    THEN 1 .. SECTOR_SIZE
    ELSE 1 .. (call.offset + call.len) % SECTOR_SIZE

(* The bytes of the sector that are copied                                 *)
Copied ==
    IF call.curr_sect = StartSect
    THEN StartByte + 1 .. IF call.len + StartByte > SECTOR_SIZE
                          THEN SECTOR_SIZE ELSE StartByte + call.len
    ELSE IF call.curr_sect < EndSect
    THEN 1 .. SECTOR_SIZE
    ELSE 1 .. (call.offset + call.len) % SECTOR_SIZE

InWindow == call.curr_sect \in StartSect .. EndSect

Transfer ==
    LET x    == DataSector(call.cluster)
        c    == disk_buffer_get(cache, BlockOf(x))
        from == c.buffer[x]
        to   == [i \in 1 .. SECTOR_SIZE |-> IF i \in Copied THEN call.byte ELSE from[i]]
    IN  \/ /\ call.op = "read"
           /\ got' = got \o [i \in 1 .. Cardinality(Copied) |-> from[Min(Copied) - 1 + i]]
           /\ disk_buffer_put(c, BlockOf(x))
        \/ /\ call.op = "write"
           /\ disk_buffer_put([c EXCEPT !.buffer[x] = to], BlockOf(x))
           /\ UNCHANGED got

rw_turn ==
    /\ pc = "rw"
    /\ syc = NoSyc
    /\ call.cluster \in DataClusters
    /\ IF InWindow THEN Transfer ELSE UNCHANGED <<cache, syc, got>>
    /\ IF fat[call.cluster] >= EOC
       THEN pc' = "return" /\ UNCHANGED call
       ELSE /\ call' = [call EXCEPT !.cluster = fat[@], !.curr_sect = @ + 1]
            /\ UNCHANGED pc
    /\ UNCHANGED <<disk, fat, root, inode_list, put, unsaved, risk>>

(* The chain runs into a cluster that is free.                             *)
rw_wild ==
    /\ pc = "rw"
    /\ syc = NoSyc
    /\ call.cluster \notin DataClusters
    /\ Stop("wild")

(* fat12_read and fat12_write: "offset += size" moves the pointer, not what *)
(* it points to.                                                           *)
rw_return ==
    /\ pc = "return"
    /\ syc = NoSyc
    /\ call' = NoCall
    /\ got' = <<>>
    /\ pc' = "idle"
    /\ UNCHANGED <<disk, cache, syc, fat, root, inode_list, put, unsaved, risk>>

(***************************************************************************)
(* fat12_create and fat12_remove: in memory only.                          *)
(***************************************************************************)
Named(n) == {s \in Slots : root[s].name = n}

fat12_create(n) ==
    LET free == Named("")
        c    == get_free_fat_entry(fat)
    IN  /\ pc = "idle"
        /\ syc = NoSyc
        /\ Named(n) = {}
        /\ free # {}
        /\ root' = [root EXCEPT ![Min(free)] = [name |-> n, cluster |-> c, size |-> 0]]
        /\ fat' = Marked(fat, c)
        /\ risk' = IF c = NO_CLUSTER \/ risk # "none" THEN "lost" ELSE risk
        /\ UNCHANGED <<disk, cache, syc, inode_list, call, got, pc, put, unsaved>>

fat12_remove(n) ==
    LET first == {root[s].cluster : s \in Named(n)}
        freed == UNION {Range(Chain(fat, c)) : c \in first}
    IN  /\ pc = "idle"
        /\ syc = NoSyc
        /\ Named(n) # {}
        /\ IF \E c \in first : ~Ends(fat, c)
           THEN Stop("wild")
           ELSE /\ fat' = [c \in Entries |-> IF c \in freed THEN 0 ELSE fat[c]]
                /\ root' = [s \in Slots |-> IF s \in Named(n) THEN NoFile ELSE root[s]]
                /\ unsaved' = TRUE
                /\ risk' = IF risk # "none" THEN "lost" ELSE risk
                /\ UNCHANGED <<disk, cache, syc, inode_list, call, got, pc, put>>
=============================================================================
