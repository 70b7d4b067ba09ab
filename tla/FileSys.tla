------------------------------ MODULE FileSys ------------------------------
(***************************************************************************)
(* Descriptors, fs.c, on Fat12, with the power failing now and then.  One  *)
(* process uses them: descriptors belong to a process, and a call is over  *)
(* before another process runs.                                            *)
(***************************************************************************)
EXTENDS Fat12

CONSTANTS
    FILE_DESC_MAX,
    POSITIONS,      \* what the memory of a new file_t holds where f_pos is
    LENGTHS,        \* bytes asked for in a read or a write
    BYTES,          \* what is written
    MAX_CALLS,      \* bound: calls
    MAX_CRASHES,    \* bound: power failures
    NULL

ASSUME FileSysAssumption ==
    /\ FILE_DESC_MAX \in Nat
    /\ POSITIONS \cup LENGTHS \subseteq Nat
    /\ BYTES \subseteq STRING
    /\ "" \notin NAMES

VARIABLES
    filp,           \* current->filp: NULL, or the inode and f_pos
    tick_left,      \* the word in front of current->filp: a count, or a pointer
    calls, crashes

fileVars == <<filp, tick_left>>
vars == <<bufferVars, fatVars, fileVars, calls, crashes>>

Descriptors == 0 .. FILE_DESC_MAX - 1

Init ==
    /\ disk = DISK
    /\ cache = disk_buffer_init
    /\ syc = NoSyc
    /\ fat = [c \in Entries |-> 0]
    /\ root = [s \in Slots |-> NoFile]
    /\ inode_list = <<>>
    /\ call = NoCall
    /\ got = <<>>
    /\ pc = "boot"
    /\ put = 0
    /\ unsaved = FALSE
    /\ risk = "none"
    /\ filp = [d \in Descriptors |-> NULL]
    /\ tick_left = "count"
    /\ calls = 0
    /\ crashes = 0

Ready == pc = "idle" /\ syc = NoSyc /\ calls < MAX_CALLS

(***************************************************************************)
(* fat12_get_inode.  strcmp compares the file name with the directory      *)
(* entry from its name on, which has no zero byte before the attribute:    *)
(* an inode is found only for a name of eleven characters.  Otherwise an   *)
(* entry of that name gets an inode of its own, once more.                 *)
(***************************************************************************)
Found(n) == {i \in DOMAIN inode_list : n \in FULL_NAMES /\ root[inode_list[i].slot].name = n}

(* inode <<>> is NULL.                                                     *)
Opened(n) ==
    IF Found(n) # {}
    THEN [list |-> [inode_list EXCEPT ![Max(Found(n))].i_count = @ + 1],
          inode |-> <<Max(Found(n))>>]
    ELSE IF Named(n) # {}
    THEN [list |-> Append(inode_list, [slot |-> Min(Named(n)), i_count |-> 1]),
          inode |-> <<Len(inode_list) + 1>>]
    ELSE [list |-> inode_list, inode |-> <<>>]

get_free_fd ==
    LET free == {d \in Descriptors : filp[d] = NULL}
    IN  IF free = {} THEN -1 ELSE Min(free)

(* sys_open.  The descriptor -1 is the word in front of the table.         *)
sys_open(n, pos) ==
    /\ Ready
    /\ inode_list' = Opened(n).list
    /\ IF get_free_fd >= 0
       THEN /\ filp' = [filp EXCEPT ![get_free_fd] = [inode |-> Opened(n).inode, f_pos |-> pos]]
            /\ UNCHANGED tick_left
       ELSE /\ tick_left' = "pointer"
            /\ UNCHANGED filp
    /\ calls' = calls + 1
    /\ UNCHANGED <<bufferVars, fat, root, call, got, pc, put, unsaved, risk, crashes>>

SlotOf(d) == inode_list[filp[d].inode[1]].slot

sys_rw(op, d, len, byte) ==
    /\ Ready
    /\ filp[d] # NULL
    /\ filp[d].inode # <<>>
    /\ fat12_rw_aux(op, SlotOf(d), filp[d].f_pos, len, byte)
    /\ calls' = calls + 1
    /\ UNCHANGED <<fileVars, crashes>>

sys_read(d, len) == sys_rw("read", d, len, "")
sys_write(d, len, byte) == sys_rw("write", d, len, byte)

(* A file that was not found is opened with no inode: its use faults, like  *)
(* that of a descriptor that is not open.                                  *)
UseWithoutInode(d) ==
    /\ Ready
    /\ filp[d] # NULL => filp[d].inode = <<>>
    /\ pc' = "fault"
    /\ UNCHANGED <<bufferVars, fat, root, inode_list, call, got, put, unsaved, risk>>
    /\ UNCHANGED <<fileVars, calls, crashes>>

(***************************************************************************)
(* sys_close, with fat12_put_inode: the last user of an inode frees its    *)
(* directory entry, which kfree has never handed out and calls a bug; a    *)
(* missing inode is one too.                                               *)
(***************************************************************************)
Release(i) ==
    /\ inode_list[i].i_count > 1
    /\ inode_list' = [inode_list EXCEPT ![i].i_count = @ - 1]

sys_close(d) ==
    /\ Ready
    /\ filp[d] # NULL
    /\ filp[d].inode # <<>>
    /\ Release(filp[d].inode[1])
    /\ filp' = [filp EXCEPT ![d] = NULL]
    /\ calls' = calls + 1
    /\ UNCHANGED <<bufferVars, fat, root, call, got, pc, put, unsaved, risk, tick_left, crashes>>

CloseBug(d) ==
    /\ Ready
    /\ filp[d] # NULL
    /\ filp[d].inode # <<>> => inode_list[filp[d].inode[1]].i_count = 1
    /\ pc' = "bug"
    /\ UNCHANGED <<bufferVars, fat, root, inode_list, call, got, put, unsaved, risk>>
    /\ UNCHANGED <<fileVars, calls, crashes>>

ChangeDirectory ==
    /\ Ready
    /\ \E n \in NAMES : fat12_create(n) \/ fat12_remove(n)
    /\ calls' = calls + 1
    /\ UNCHANGED <<fileVars, crashes>>

(***************************************************************************)
(* The power fails and the kernel boots again.  Memory is lost.  A save    *)
(* that was under way is torn, and what was removed since the last one may *)
(* have been given to other files already.                                 *)
(***************************************************************************)
PowerFails ==
    /\ crashes < MAX_CRASHES
    /\ pc # "wild"
    /\ crashes' = crashes + 1
    /\ UNCHANGED calls
    /\ cache' = disk_buffer_init
    /\ syc' = NoSyc
    /\ fat' = [c \in Entries |-> 0]
    /\ root' = [s \in Slots |-> NoFile]
    /\ inode_list' = <<>>
    /\ call' = NoCall
    /\ got' = <<>>
    /\ pc' = "boot"
    /\ put' = 0
    /\ unsaved' = FALSE
    /\ risk' = IF unsaved THEN "lost"
               ELSE IF pc = "info" /\ call # NoCall /\ risk = "none" THEN "torn" ELSE risk
    /\ filp' = [d \in Descriptors |-> NULL]
    /\ tick_left' = "count"
    /\ UNCHANGED disk

Device == SycTurn /\ UNCHANGED <<fatVars, fileVars, calls, crashes>>

CallTurn ==
    /\ set_info_put \/ set_info_return \/ rw_turn \/ rw_wild \/ rw_return
    /\ UNCHANGED <<fileVars, calls, crashes>>

Boot == fat12_init /\ UNCHANGED <<fileVars, calls, crashes>>

Idle ==
    /\ \/ pc \in {"wild", "bug", "fault"}
       \/ pc = "idle" /\ syc = NoSyc /\ calls = MAX_CALLS
    /\ UNCHANGED vars

Next ==
    \/ Boot
    \/ Device
    \/ CallTurn
    \/ \E n \in NAMES, pos \in POSITIONS : sys_open(n, pos)
    \/ \E d \in Descriptors, len \in LENGTHS : sys_read(d, len)
    \/ \E d \in Descriptors, len \in LENGTHS, byte \in BYTES : sys_write(d, len, byte)
    \/ \E d \in Descriptors : UseWithoutInode(d)
    \/ \E d \in Descriptors : sys_close(d) \/ CloseBug(d)
    \/ ChangeDirectory
    \/ PowerFails
    \/ Idle

Spec == Init /\ [][Next]_vars

(***************************************************************************)
(* The files, as a read finds them: the directory and the FAT in memory,   *)
(* or on the floppy until they are read, and the bytes along the chains.   *)
(***************************************************************************)
FatNow == IF pc = "boot" THEN FatOf(disk) ELSE fat
RootNow == IF pc = "boot" THEN RootOf(disk) ELSE root

ByteAt(chain, i) ==
    LET n == i \div SECTOR_SIZE + 1
    IN  IF n \in DOMAIN chain
        THEN Content(DataSector(chain[n]))[(i % SECTOR_SIZE) + 1] ELSE "?"

FileIn(f, file) ==
    LET chain == Chain(f, file.cluster)
    IN  [name |-> file.name, data |-> [i \in 1 .. file.size |-> ByteAt(chain, i - 1)]]

Files == LET r == RootNow IN [s \in Slots |-> FileIn(FatNow, r[s])]

Store == INSTANCE FileStore WITH
    Names    <- NAMES,
    files    <- Files,
    request  <- [op |-> call.op, slot |-> call.slot, offset |-> call.offset,
                 len |-> call.len, byte |-> call.byte],
    result   <- got,
    reliable <- risk # "lost"

(***************************************************************************)
(* Properties                                                              *)
(***************************************************************************)
TypeOK ==
    /\ DOMAIN disk = Sectors
    /\ {fat, FatOf(disk)} \subseteq [Entries -> FatValues]
    /\ {root, RootOf(disk)} \subseteq [Slots -> FileType]
    /\ \A c \in DataClusters : Content(DataSector(c)) \in [1 .. SECTOR_SIZE -> STRING]
    /\ cache.busy \subseteq Blocks
    /\ DOMAIN cache.buffer = UNION {SectorsOf(b) : b \in {x \in Blocks : find_dnode(cache, x)}}
    /\ \A h \in DOMAIN cache.chain : IsInjective(cache.chain[h])
    /\ call.slot \in Slots /\ call.op \in {"none", "read", "write"}
    /\ pc \in {"boot", "info", "idle", "rw", "return", "wild", "bug", "fault"}
    /\ put \in 0 .. Cardinality(InfoBlocks)
    /\ unsaved \in BOOLEAN
    /\ risk \in {"none", "torn", "lost"}

(* What a file with size n occupies of its chain: n / SECTOR_SIZE + 1.     *)
Occupied(f, file) ==
    LET chain == Chain(f, file.cluster)
    IN  {chain[n] : n \in 1 .. IF Needed(file.size) <= Len(chain)
                               THEN Needed(file.size) ELSE Len(chain)}

(* Each file of r has in f the clusters its size needs, and no cluster     *)
(* belongs to two files.                                                   *)
Sound(f, r) ==
    LET used == {s \in Slots : r[s].name # ""}
    IN  /\ \A s \in used :
             Cardinality(Occupied(f, r[s])) = Needed(r[s].size)
        /\ \A s, t \in used :
             s # t => Occupied(f, r[s]) \cap Occupied(f, r[t]) = {}

(* At whatever moment the power fails, the floppy has every cluster of     *)
(* every file its directory lists: the FAT is saved before the directory.  *)
(* Removals excepted, which are not saved before their clusters are used.  *)
DiskSound == risk # "lost" /\ ~unsaved => Sound(FatOf(disk), RootOf(disk))

(* f has exactly the clusters of the files of r: none is missing, shared,  *)
(* or leaked.                                                              *)
Exact(f, r) ==
    LET used == {s \in Slots : r[s].name # ""}
    IN  /\ Sound(f, r)
        /\ \A s \in used :
             /\ Ends(f, r[s].cluster)
             /\ Len(Chain(f, r[s].cluster)) = Needed(r[s].size)
        /\ {c \in DataClusters : f[c] # 0} = UNION {Occupied(f, r[s]) : s \in used}

(* The floppy at first: what a fresh or a used one has, whose files were   *)
(* written by this code.  The first two entries of the FAT are reserved.   *)
ASSUME FloppyAtFirstAssumption ==
    /\ Exact(FatOf(DISK), RootOf(DISK))
    /\ \A c \in {0, 1} : FatOf(DISK)[c] # 0
    /\ \A s \in Slots : RootOf(DISK)[s].name = "" => RootOf(DISK)[s] = NoFile

(* Until the power fails in a save, that is so in memory.                  *)
ChainsExact == pc # "boot" /\ risk = "none" => Exact(fat, root)

(* A file longer than a sector is on the floppy, with its name, its chain  *)
(* and as many sectors, when the call that made it so has returned.        *)
GrowthIsSaved ==
    pc = "idle" /\ risk = "none" /\ ~unsaved =>
        \A s \in Slots :
            LET saved == RootOf(disk)[s]
            IN  root[s].size >= SECTOR_SIZE =>
                    /\ saved.name = root[s].name
                    /\ Needed(saved.size) = Needed(root[s].size)
                    /\ Chain(FatOf(disk), saved.cluster) = Chain(fat, root[s].cluster)

(* Reads and writes of descriptors act on files as FileStore says.         *)
StoresFiles == Store!Spec
=============================================================================
