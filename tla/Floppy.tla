------------------------------- MODULE Floppy -------------------------------
(***************************************************************************)
(* Where a transfer of the floppy driver begins, floppy.c, and which       *)
(* sectors the controller moves from there on.  Sectors are counted as     *)
(* sector_linear counts them.                                              *)
(***************************************************************************)
EXTENDS Integers

CONSTANTS
    SECTORS_PER_TRACK,  \* the track length fd_rw tells the controller
    HEADS,
    SECTORS_PER_FD      \* FD_BLOCK_SIZE / FD_SECTOR_SIZE: sectors of one fd_rw

ASSUME FloppyAssumption ==
    /\ {SECTORS_PER_TRACK, HEADS, SECTORS_PER_FD} \subseteq Nat \ {0}
    /\ SECTORS_PER_TRACK < 256
    /\ HEADS <= 256
    /\ SECTORS_PER_TRACK % SECTORS_PER_FD = 0

(* fd_rw: sector, head and track are bytes.                                *)
Command(sector_linear) ==
    LET side == sector_linear \div SECTORS_PER_TRACK
    IN  [sector |-> ((sector_linear % SECTORS_PER_TRACK) + 1) % 256,
         head   |-> (side % HEADS) % 256,
         track  |-> (side \div HEADS) % 256]

LinearOf(track, head, sector) == (track * HEADS + head) * SECTORS_PER_TRACK + sector - 1

NO_SECTOR == -1

(* The n-th sector behind the first: at the end of a side a command with   *)
(* the multi-track bit, as both are, goes on with the second side, where   *)
(* it ends.                                                                *)
Transferred(cmd, n) ==
    IF cmd.sector + n <= SECTORS_PER_TRACK
    THEN LinearOf(cmd.track, cmd.head, cmd.sector + n)
    ELSE IF cmd.head = 0 /\ cmd.sector + n <= 2 * SECTORS_PER_TRACK
    THEN LinearOf(cmd.track, 1, cmd.sector + n - SECTORS_PER_TRACK)
    ELSE NO_SECTOR

(* The sectors of one fd_rw, by their place in dma_buffer.                 *)
fd_rw(sector_linear) == [n \in 0 .. SECTORS_PER_FD - 1 |-> Transferred(Command(sector_linear), n)]
=============================================================================
