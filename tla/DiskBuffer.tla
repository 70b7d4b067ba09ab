----------------------------- MODULE DiskBuffer -----------------------------
(***************************************************************************)
(* The disk buffer, disk_buffer.c, over the floppy, of which fd_rw moves   *)
(* some sectors at a time.  A block is a run of sectors; a cached one      *)
(* stands in the chain its number hashes to, most recently used first,     *)
(* and is never dropped.  A content of a sector is whatever the module     *)
(* above stores.                                                           *)
(*                                                                         *)
(* Memory for nodes and buffers does not run out: all blocks of a floppy   *)
(* fit in it.                                                              *)
(***************************************************************************)
EXTENDS Floppy, Sequences, SequencesExt, FiniteSetsExt

CONSTANTS
    BLOCKS,             \* blocks on the floppy
    SECTORS_PER_BLOCK,  \* DISK_BUFFER_BLOCK_SIZE / FD_SECTOR_SIZE
    DISK_BUFFER_MOD

ASSUME DiskBufferAssumption ==
    /\ {BLOCKS, SECTORS_PER_BLOCK, DISK_BUFFER_MOD} \subseteq Nat \ {0}
    /\ SECTORS_PER_BLOCK % SECTORS_PER_FD = 0
    /\ BLOCKS * SECTORS_PER_BLOCK <= (256 * HEADS) * SECTORS_PER_TRACK

VARIABLES
    disk,   \* what is on the floppy, by sector
    cache,  \* the chains, the buffers by sector, the blocks with the busy flag
    syc     \* the write-back in progress: its block, its turns so far

bufferVars == <<disk, cache, syc>>

Blocks == 0 .. BLOCKS - 1
SectorsOf(b) == b * SECTORS_PER_BLOCK .. (b + 1) * SECTORS_PER_BLOCK - 1
Sectors == UNION {SectorsOf(b) : b \in Blocks}
BlockOf(s) == s \div SECTORS_PER_BLOCK

disk_buffer_init ==
    [chain |-> [h \in 0 .. DISK_BUFFER_MOD - 1 |-> <<>>], buffer |-> <<>>, busy |-> {}]

NoSyc == [block |-> BLOCKS, turn |-> 0]

(* The function f, and g where f is not defined.                          *)
Over(f, g) == [x \in DOMAIN f \cup DOMAIN g |-> IF x \in DOMAIN f THEN f[x] ELSE g[x]]

find_dnode(c, b) == b \in Range(c.chain[b % DISK_BUFFER_MOD])

(* The loop of reads: what each fd_rw has moved is copied behind the last. *)
BlockRead(b) ==
    [s \in SectorsOf(b) |-> disk[fd_rw(s - (s % SECTORS_PER_FD))[s % SECTORS_PER_FD]]]

(* Wrong on purpose: the block is not taken out of its chain first.        *)
disk_buffer_get_twice(c, b) ==
    [chain  |-> [c.chain EXCEPT ![b % DISK_BUFFER_MOD] = <<b>> \o @],
     buffer |-> IF find_dnode(c, b) THEN c.buffer ELSE Over(BlockRead(b), c.buffer),
     busy   |-> c.busy \cup {b}]

(***************************************************************************)
(* disk_buffer_get on the cache c: the block moves to the head of its      *)
(* chain, or is put there and read.  The busy flag is set without a look   *)
(* at its old value, but for a message.                                    *)
(***************************************************************************)
disk_buffer_get(c, b) ==
    [chain  |-> [c.chain EXCEPT ![b % DISK_BUFFER_MOD] = <<b>> \o RemoveFirst(@, b)],
     buffer |-> IF find_dnode(c, b) THEN c.buffer ELSE Over(BlockRead(b), c.buffer),
     busy   |-> c.busy \cup {b}]

(* Wrong on purpose: the block is not written back.                        *)
disk_buffer_put_lazy(c, b) ==
    /\ cache' = [c EXCEPT !.busy = @ \ {b}]
    /\ syc' = NoSyc

(* disk_buffer_put: the write-back it ends in is SycTurn, turn by turn.     *)
disk_buffer_put(c, b) ==
    /\ cache' = IF find_dnode(c, b) THEN [c EXCEPT !.busy = @ \ {b}] ELSE c
    /\ syc' = IF find_dnode(c, b) THEN [block |-> b, turn |-> 0] ELSE NoSyc

(* One turn of disk_buffer_syc: one fd_rw.  No other code runs meanwhile.   *)
SycTurn ==
    /\ syc # NoSyc
    /\ LET first == syc.block * SECTORS_PER_BLOCK + syc.turn * SECTORS_PER_FD
           moved == fd_rw(first)
       IN  disk' = [s \in Sectors |->
                       IF s \in Range(moved)
                       THEN cache.buffer[first + (CHOOSE n \in DOMAIN moved : moved[n] = s)]
                       ELSE disk[s]]
    /\ syc' = IF syc.turn + 1 = SECTORS_PER_BLOCK \div SECTORS_PER_FD
              THEN NoSyc ELSE [syc EXCEPT !.turn = @ + 1]
    /\ UNCHANGED cache

(* What a read of sector s returns now.                                    *)
Content(s) == IF s \in DOMAIN cache.buffer THEN cache.buffer[s] ELSE disk[s]

(***************************************************************************)
(* Properties                                                              *)
(***************************************************************************)
(* A cached sector differs from the floppy only while its block is in use  *)
(* or on its way to the floppy: whatever disk_buffer_put has returned from *)
(* survives a power failure.                                               *)
WriteThrough ==
    \A s \in DOMAIN cache.buffer :
        cache.buffer[s] # disk[s] => BlockOf(s) \in cache.busy \cup {syc.block}
=============================================================================
