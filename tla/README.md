# nros in TLA+

Specifications, model-checking configurations and proofs for nros, a small
x86 kernel that boots from a FAT12 floppy, runs processes in their own address
spaces and switches between them on the timer. The modules are written from
the C and assembly sources; each definition is mapped to its lines in
`PROJECT.json`.

## The system

| part | source | state | operations | used by |
|---|---|---|---|---|
| page allocator | `kernel/mm.c` | `free_area[]` (a list and a bitmap per order), `free_page_count`, `mem_map` | `buddy_system_init`, `alloc_pages`, `free_pages` | heap, address spaces, process creation, disk buffer |
| kernel heap | `kernel/mm_alloc.c` | `malloc_list` of nodes, each a block of pages with a free and a used list of areas | `kmalloc_init`, `kmalloc`, `kfree` | everything that allocates a struct |
| lists | `include/list.h` | two words per link | `link_init`, `list_insert_after`, `list_insert_before`, `list_remove`, `list_empty` | free lists, run queues, disk buffer chains, inodes |
| address spaces | `kernel/mm_vm.c` | per process a sorted list of areas, a page directory and page tables | `do_vm_alloc`, `vm_free_area`, `do_vm_free` | `create_proc`, `destroy_proc` |
| processes, scheduler | `kernel/proc.c`, `schedule.c` | `run_queue[]`, `current`, `idle_proc`, `tss.esp0`, `cr3` | `create_proc`, `destroy_proc`, `schedule`, `context_switch` | timer, exit |
| interrupts, system calls | `kernel/intr.c`, `syscall.c`, `*_asm.S` | `tick_left`, the controller, the interrupt flag | `do_timer`, `do_floppy`, `do_syscall` | hardware, user programs |
| disk buffer, floppy | `kernel/disk_buffer.c`, `floppy.c` | 13 chains of cached blocks with a busy flag, `dma_buffer` | `disk_buffer_get`, `_put`, `_syc`, `fd_rw` | FAT12 |
| FAT12, files | `kernel/fat12.c`, `fs.c` | copies of FAT and root directory, `inode_list`, `filp[]` | open, read, write, close, create, remove | `load_executable` |
| console | `kernel/console.c` | cursor, scroll region, escape state | `con_write` | keyboard |
| keyboard | `kernel/keyboard.c`, `keyboard_asm.S` | `mode`, `leds`, `e0`, the queue | `keyboard_interrupt` | hardware; calls the console |
| messages | `lib/libc/display.c` | a position in the same video memory | `printf`, `put_char` | the kernel, everywhere |
| boot | `boot/boot.S`, `setup/`, `kernel/head.S` | | load the kernel, probe memory, enter protected mode | |

The kernel runs with interrupts off except in user mode, in the idle call, and
in one place more: `set_cursor` of the console ends with `sti`, so that the
keyboard's handler is interruptible from its call of `con_write` on. Allocator,
heap, files and scheduler are not interrupted, and what is concurrent are the
processes and the handlers on their kernel stacks. What is hard is (1) sequences
of legal calls that leave lists, bitmaps and tables in a state a later call does
not expect, (2) the state that survives a switch of processes, (3) handlers that
are left by one switch and resumed by another, while the interrupt controller
and the keyboard's prefix remember them, (4) the borders: a page count that is
not a power of two, an area that ends with a page, no memory left, the end of a
quantum, the end of a track.

What makes each part correct:

* *page allocator* — no page has two owners, none is lost, the bits say what
  the lists say, "memory alloc failed" is said only when it is true;
* *heap* — what a caller holds is never given to another nor recycled; freed
  bytes become free again; each call ends;
* *lists* — the pointer writes insert and remove in sequences;
* *address spaces* — areas do not overlap, exactly their pages are mapped,
  every page is given back once;
* *scheduler* — queues hold the living processes, the highest runs, the three
  notions of the running process agree, everyone gets the processor;
* *disk buffer, FAT12, files* — cached and stored data agree, chains end and
  are disjoint, what is written is read;
* *interrupts* — what is in service is ended, and by its own handler; every key
  is read;
* *console, keyboard, messages* — the cursor stays on the screen, each writer
  leaves the other's cells alone, the modes follow the keys.

## Modules

| module | models | composed with |
|---|---|---|
| `PageArith` | orders, shifts, buddies, alignment | everything about pages |
| `PageAllocator` | what the page allocator promises (abstract) | |
| `Buddy` | `mm.c`, one action per turn of its loops; implements `PageAllocator` | |
| `DataLemmas` | lemmas on sequences, sets, powers of two, sums and rings | all proofs |
| `BuddyProofs` | proofs about `Buddy` and, at its end, `ListHeap`, their refinements included | |
| `Kmalloc` | `mm_alloc.c`, its pages by `INSTANCE PageAllocator` | `PageAllocator` |
| `KmallocProofs` | proofs about `Kmalloc` | |
| `Links` | `list.h`, word by word, on a heap of cells | |
| `ListSpec` | lists as sequences (abstract) | |
| `ListHeap` | every legal use of `Links`; implements `ListSpec` | `Links` |
| `Sched` | `proc.c`, `schedule.c`, `do_timer`, `do_sys_exit` | `Links` |
| `SchedProofs` | proofs about `Sched` | |
| `VmArea` | `mm_vm.c`, page by page | |
| `VmAreaProofs` | proofs about `VmArea` | |
| `Floppy` | `fd_rw` of `floppy.c`: a command and the sectors it moves | |
| `DiskBuffer` | `disk_buffer.c`, transfer by transfer | extends `Floppy` |
| `Fat12` | `fat12.c`, sector by sector | extends `DiskBuffer` |
| `FileStore` | what the file system promises (abstract) | |
| `FileSys` | `fs.c` and a power that fails; implements `FileStore` | extends `Fat12` |
| `FileSysProofs` | proofs about `FileSys` and the modules it extends | |
| `Terminal` | what the console promises (abstract) | |
| `Display` | `put_char` of `display.c` | |
| `Console` | `console.c` and what keys put into its queue; implements `Terminal` | extends `Display` |
| `ConsoleProofs` | proofs about `Console`, its refinement included | |
| `Keyboard` | the codes of keys, and the routines of `keyboard_asm.S` | |
| `Interrupts` | `*_asm.S` handlers, the interrupt flag, the controller, `do_sys_idle` | extends `Keyboard`, `INSTANCE Sched` |
| `InterruptsProofs` | proofs about `Interrupts` and `Keyboard`; `Interrupts` implements `Sched` | `INSTANCE SchedProofs` |
| `MC*` | values of the constants for TLC | |

**Buddy.** A block of order `k` is a pair of the order and the number of the
block, which is `page_idx >> k`; `page_idx ^ -mask` is `BuddyOf`, the index of
the pair's bit is `ParentOf`. `free_list[k]` is `free_area[k].free_list`,
head first; `map[k]` is the set of bits that are 1. A call is a `pc`: `FreeCall`
or `BootFree` enters `free_pages`, `FreeMerge` is a turn of its loop,
`FreeInsert` its end; `AllocCall` is `alloc_pages` up to the loop of
`_alloc_pages`, `AllocScan` and `AllocTake` its turns, `Expand` a turn of
`expand`. `held` is the history of what the callers have. The order that
passes the check of `alloc_pages` and has no list ends the model (`"wild"`).

**Kmalloc.** Areas keep their offset and size in bytes; the used and the free
list are sequences. `Take` and `FreeList` are the two rewritings of the free
list, including the areas that get lost in them. `live` is the history of what
callers hold. `LOW_MAPPED` says whether the null pointer that `kfree` may write
through is mapped: at boot it is, under the page directory of a process it is
not and the page fault handler panics.

**Sched.** The run queues are cells with a next and a prev word, and so are a
`proc_t` read as a link (its words are `pid` and `vm_area_list`) and the first
`vm_area_t` read as a link: `tick_advance` passes the process where
`list_insert_before` wants a link, and the model follows the four writes to the
words they hit. A `schedule` that finds no list field of a process at the head
of a queue stops the model (`"wild"`). `allocated` says what `create_proc` has taken and `destroy_proc` has
given back; the vm areas and the kernel stack never are.

**VmArea.** Pages are interchangeable model values. The test for presence reads
behind the page table from the second table of an area on; what it can find
there is `BITS_BEHIND`. An entry of the directory whose table has been given
back is `stale`; the first use of a stale table stops the model (`"corrupt"`).

**Floppy, DiskBuffer, Fat12, FileSys.** A transfer is a command for the first of
its sectors; which ones the controller moves from there (`Transferred`) depends
on the geometry, so `fd_rw` yields the sector for each place of `dma_buffer`,
and `BlockRead` and `SycTurn` use it in both directions. `disk` is the floppy by sectors, `cache` the
record of the chains, the buffers and the busy blocks. A block is written back
sector group by sector group: `syc` says how far `disk_buffer_syc` is, and
`SycTurn` is one `fd_rw`. Two files share the cache when the last block of the
directory also holds data, as on the real floppy. `pc` is where the call in
progress is: `"info"` in `fat12_set_info` (one `set_info_put` per block),
`"rw"` in the loop of `fat12_rw_aux` (one `rw_turn` per sector), `"return"`
after it; `"wild"`, `"bug"` and `"fault"` are the ends the code has no way back
from: a cluster that does not exist, the `bug` of `kfree`, a null inode. A
chain is followed through `fat` by `Chain`; a FAT entry is a number, its packing
into twelve bits is abstracted. Three oddities of the code are kept: a file has
`size / 512 + 1` clusters, also when its size is a multiple of 512; a read
behind the end of a file grows it; and `f_pos` is what the memory of the new
`file_t` holds and never moves (`POSITIONS`). A descriptor names a directory
slot, so it follows the slot when a file is removed and another one created.
`PowerFails` may come between any two transfers. `unsaved` is the history of a
removal not yet on the floppy; `risk` says what may no longer be promised:
`"torn"` after a failure inside `fat12_set_info`, `"lost"` after a failure with
a removal unsaved, a full floppy, or growth on a torn one. `FileStore` promises
until `risk` is `"lost"` (`reliable`).

**Console.** `video` is the video memory by cells, `pos` an index into it;
`con_write` is one turn of its loop, with `write_q` the queue that a key has
filled and the interrupt empties before the next key. The parser is `state`,
`npar` and `par`; the fall-through from case 2 to case 3 to case 4 is `Pars` and
`Count`, cleared in state 2, in `Parameter` and `Function`. `origin` is constant
because `con_init` chooses the CGA. `Moves` and `Edit` say by its final
character what a function does; loops that insert or delete `nr` times are given
by their effect. That ESC saves the cursor in column `'7'` and restores it in
column `'8'`, whatever character follows, is in the code (`CODE_7`, `CODE_8`).
`Terminal` knows rows instead of memory, and no `pos`. `printf` prints characters
and controls at `cur_pos` of `Display`, into the same `video`; in `Terminal` it
is another writer that does not move the cursor.

**Keyboard, Interrupts.** A code is named after the routine that `key_table` has
for it. `Makes` and `Breaks` are what the keys of a PC send, with the shifts that
come around a grey key and the six codes of Pause. `keys`, `down` and `locked` are what
the person at the keys knows; `mode`, `leds` and `e0` are the bytes of the
driver. `Interrupts` gives every process a stack of frames: where it left
`start_proc`, `hlt`, a keyboard handler or `schedule` in the timer's handler.
`InterruptFlag` follows from the last frame, `in_service` is the controller's
register, and `END_OF_INTERR` ends the highest request in it, whoever sends it.
A handler that cannot be left is one action (`TimerTick`, `KeyHandled`); one that
can is split where it can be (`TimerSwitches` / `TimerReturns`, `KeyPrinted` /
`KeyReturns`), and an exit or a switch returns into whatever frame the next
process has. `cut` is the history of a keyboard handler that was ended by
another one's EOI; after that `ModeFollowsKeys` promises nothing, and the run
`eoi_after_handling` shows how it happens.

## Runs

| run | question | bounds |
|---|---|---|
| `buddy` | all properties of `Buddy`, and that it implements `PageAllocator` | 3 orders, 9 pages of which one is the kernel's: an odd page at the end, merges up to the top order, splits over two orders, requests that fail and that are refused |
| `kmalloc` | the heap keeps what it gave | 3 pages of 64 bytes, orders 0 and 1, at most 3 allocations held; sizes that split a fresh node, leave a rest too small for an area, need order 1, and cannot be served |
| `list_heap` | `Links` implements `ListSpec` | 2 lists, 4 nodes: every list up to length 4, every position |
| `sched` | queues, switches and priorities | idle and three processes, two of equal priority, quantum of 3 ticks |
| `vm` | placing, mapping, unmapping | tables of 3 pages, 3 tables, 7 physical pages, 3 areas; areas inside a table, across tables, refused at their address, and more than memory holds |
| `files` | the cache, the chains, the floppy after a power failure, and that `FileSys` implements `FileStore` | 12 sectors in 6 blocks; FAT in two blocks, directory sharing its last block with data; two files, a third slot, 2 free clusters, 2 descriptors, 4 calls, 1 power failure |
| `console` | the cursor's variables, the screen's border, the keyboard's sequences, and that `Console` implements `Terminal`, with `printf` beside it | 4 x 3 cells with a text of their own and a line of memory behind them, tabulators every 2 columns, up to two numbers of 1, 2 or 9, three keys, sequences or printed characters |
| `interrupts` | that the controller, the handlers and the modes stay in step, and that keys are read | idle and two processes of one priority, quantum of 1 tick; three sets of keys: right Alt (a prefix), Caps Lock, a letter (prints) and a grey key (both, with shifts around it); both controls and F1; Pause, Num Lock, a shift and a letter; three events: press, auto-repeat or release |

Each of the following violates the property named, which is what a comment or a
check of the source says; `PROJECT.json` quotes it.

| run | what the counterexample shows |
|---|---|
| `freed_area_is_free` | `kfree` of an area with a free one in front and none adjacent puts it on no list |
| `merge_does_not_fault` | `kfree` of an area right in front of the first free one writes through `mb_last == NULL` |
| `schedule_finds_process` | the end of the quantum of the only process of a queue makes `schedule` take a process out of the middle of a `proc_t` |
| `eoi_after_handling` | an exit resumes idle in its timer handler, which had interrupted its keyboard handler: the EOI ends the keyboard's interrupt early, the next key is handled in the middle of the first, and a prefix can be lost |

The bounds are enough in this sense: the actions look at one order, one pair,
one neighbour, one table at a time, and every combination of these with its
border (first, last, top order, no buddy, empty, full) occurs in the bounded
instances; what is said for every memory size is proved. In `files`, windows of
1 and 3 bytes at positions 0 and 1 over sectors of 2 bytes begin, end, and do
both or neither at the border of a sector; four calls suffice to open a file,
grow it, remove it or its neighbour and use its clusters again, and the failure
of the power may be in any of them. In `console`, three sequences set a region, place
the cursor inside or outside of it or behind the last column, and act. In
`interrupts`, one event already fills the buffer with up to four codes, so that
handlers of several keys meet two exits and any number of switches.

**Fairness.** `buddy` and `kmalloc` assume weak fairness of the steps of the
call in progress: the kernel is not interrupted and the processor goes on. No
call is assumed to be made. `sched` assumes it of the boot code and of the
timer, which the hardware drives for ever; nobody is assumed to exit.
`interrupts` assumes it of the boot code and of the code that runs with
interrupts off, and strong fairness of the timer's and the keyboard's interrupt:
a request stays with the controller and is taken at the first instruction at
which it may be, so it is not missed for ever if the chance comes again and
again (it is not enabled continuously: other handlers run in between). The end
of the keyboard's handler has strong fairness too: the timer leaves a handler
the time to go on, which 100 ticks per quantum do. Nobody is assumed to type, to
exit or to call idle. `KeysAreRead` needs its exception: while idle has been
switched away from in the middle of a key, no key is read until idle runs
again, which needs every other process to exit. `vm`,
`list_heap`, `files` and `console` have no liveness property and assume no fairness.

## Proofs

Every theorem holds for every value of the constants that the named assumption
of its module allows; the runs check the same properties on small instances.

| module | theorem | states |
|---|---|---|
| `BuddyProofs` | `TypeCorrect`, `Exclusion`, `Conservation` | `TypeOK`, `NoOverlap`, `NoPageLost` |
| | `BitmapAgrees`, `BitmapSizeEnough` | `BitmapExact`, `BitmapInBounds` |
| | `CountCorrect`, `StopsOnlyWhenFull` | `CountExact`, `BugOnlyWhenFull` |
| | `ImplementsAllocator` | `Buddy` implements `PageAllocator` |
| | `RingsStaySound`, `PointersImplementLists` | the rings; `ListHeap` implements `ListSpec` |
| `KmallocProofs` | `HeapTyped`, `AreasStayDisjoint`, `FreeListStaysOrdered` | `TypeOK`, `AreasDisjoint`, `FreeListOrdered` |
| | `LiveStaysKept`, `NodesKeepBlocks` | `LiveKept`, `NodesOwnBlocks` |
| `SchedProofs` | `SchedTypeCorrect`, `QueuesStayIntact` | `TypeOK`, `QueuesIntact` |
| | `CurrentStaysAlive`, `HighestAlwaysRuns`, `IdleDoesNoHarm` | `CurrentIsAlive`, `HighestRuns`, `IdleQuantumHarmless` |
| `VmAreaProofs` | `VmAreaTypeCorrect`, `AreasInOrder` | `TypeOK`, `AreasSorted` |
| | `PagesAreAccounted`, `MappedExactly` | `PagesAccounted`, `MappedExact`, with a hypothesis each |
| `FileSysProofs` | `TransferIsItsSectors`, `BlockIsRead`, `TurnWritesItsSectors` | which sectors a transfer moves |
| | `FilesInvariance` | the inductive invariant of the files |
| | `FilesTyped`, `BuffersAreWritten` | `TypeOK`, `WriteThrough` |
| | `FollowsIsWhole`, `AppendedGrown` | a floppy in the middle of a save is sound; what the loop of `resize` makes of a chain |
| | `FloppyInvariance` | the inductive invariant of the FATs |
| | `FloppyIsSound`, `ChainsAreExact`, `GrowthIsOnFloppy` | `DiskSound`, `ChainsExact`, `GrowthIsSaved` |
| | `WindowInvariance`, `FilesAreStored` | what a call has done so far; `FileSys` implements `FileStore` |
| `ConsoleProofs` | `ScreenTyped`, `WritesStayOnScreen` | `TypeOK`, `StaysOnScreen` |
| | `ConsoleIsTerminal`, `KeysPrintNothing` | `Console` implements `Terminal`; `CursorKeysPrintNothing` |
| `InterruptsProofs` | `ImplementsSched`, `CurrentAliveHere` | `Interrupts` implements `Sched` |
| | `InServiceStaysHandled`, `ModeStaysWithKeys`, `InterruptsTypeCorrect` | `InServiceIsHandled`, `ModeFollowsKeys`, `TypeOK` |

**Buddy** (`BuddyAssumption`: any number of pages, any start of the managed
memory, any requested orders, up to eleven orders). `NoOverlap`, `NoPageLost` and
`BitmapExact` are not inductive one by one: that the buddy found by its bit is on
the list needs the bitmap; that merging it makes no overlap needs exclusion;
that the bits stay right while blocks move needs both. `IInv` is their
conjunction with the type invariant, over all numbers instead of the pages of
the memory, so that a block beyond its end would violate it too. There is one
lemma per action; each first says how the action changes who has which block and
works with that from there on. `CountInv` adds what `free_page_cnt` is short of or
ahead by in the middle of a call (`InHand`): the counter is changed at the end of
`free_pages` and at the start of an allocation, and blocks move in between. The
sum over the lists is a fold, and `SumFacts` says how one element changes it.
`ScanInv` says what a search that has come to order `k` has seen: no list below
`k` has a block. Then none of the orders asked for has one, and as buddies that
are both free have been merged, no free aligned block of the order exists
(`NothingFits`): the kernel's `BUG_MSG` is the one `PageAllocator` allows. The
refinement maps `free_pages` to the pages nobody holds (`FreeAreManaged`); each
turn of a loop is a stutter but the one that ends the call.

**Kmalloc** (`KmallocAssumption`: a page has room for the header of a node and of
one area; up to eleven orders; any sizes asked for, including those that cannot be
served). `HeapInv` says three things of the whole heap. `NodesSound`: the areas of a
node lie behind its header and inside its pages, the used ones apart from each
other and from the free ones, the free ones in order with a gap between any two.
`PagesGiven`: the blocks taken from the page allocator are those of the nodes, and
no page is in two nodes, or in a node and free. `LiveHeld`: what a caller holds is
the address of a used area with room for it, and two callers have two addresses.
Merging needs the order (the area behind the freed one is where the search stops),
recycling needs all three: that the first free area is as large as the node leaves
no room for a used one (`AllFree`), so nobody loses what he holds, and the pages
that go back are in no other node. The splitting and splicing of lists is proved
on one node (`TakeFree`, `TakeLast`, `FreeMerged`), then put into the list of nodes
(`ChangeNode`, `AddNode`, `DropNode`). That areas may be forgotten, in `Take` and in
`FreeList`, is no obstacle: the invariant does not say that a node's bytes are all
in areas, and the run `freed_area_is_free` shows that they are not.

**ListHeap** (`ListsSpec`; at the end of `BuddyProofs`). The invariant gives each list a sequence of cells such that the
words form a ring of exactly these (`HeapInv`); what the walk along `next` finds
is then that sequence (`ListsOf`), and each operation's pointer writes make the
ring of the sequence that `ListSpec` says. `Links` is used by `Sched` as well.

**Sched** (`SchedAssumption`: any finite set of processes, idle of the lowest
priority and created first, which is what `proc_init` does). As long as the kernel
runs, every queue above idle's is a ring of exactly the processes of its priority
that have been created and have not exited; idle's own words are as `create_proc`
left them, or as `tick_advance` has moved them, and there is one such way
(`IdleMoved`). `tick_advance` hands `list_insert_before` a process instead of a
link: the proof shows that idle survives this and that the end of the quantum of
any other process leads to `"wild"`, where the model stops. That is why the
theorems say "as long as the kernel runs" and why the run
`schedule_finds_process` finds its counterexample at once.

**VmArea** (`VmAssumption`). `ListInv` is the list in the order of addresses,
`TablesInv` which tables the directory has and which pages are in them. Two
theorems carry a hypothesis on the constants, because without it the code does
not keep the property: `PagesAreAccounted` and `MappedExactly` assume `WholePages`
(areas of whole pages, as the kernel's callers ask for; two areas in one page
would unmap each other's), and `MappedExactly` also `NothingBehind` (nothing that
looks like a present entry lies behind the page tables: the test for presence
reads there from the second table of an area on). `AllDue` is the part of an
invariant for the loop that maps an area: the pages before the current one are
mapped, those behind it are not yet.

**Interrupts, Keyboard** (`InterruptsAssumption`, the scheduler's, and
`KeyboardAssumption`: keys used together do not change each other's codes).
Every step of the machine is a step of `Sched` or leaves its variables alone, so
`CurrentIsAlive` and the rest hold under the interrupts. `MachineInv`
says: whoever does not run was left in a frame that has interrupts off; the timer
is in service only under such a frame; a keyboard interrupt in service has its
frame on a living process's stack; and keyboard frames are at most as many as
exits, and one more while the keyboard's interrupt is in service and no other EOI
is due before its own (`Slack`). This counting is what bounds the nesting of
handlers: each exit can end one handler's interrupt early, once. `KeyboardInv`
says that reading everything in the buffer (`Leads`) takes `mode`, `leds` and
`e0` to a state that agrees with the keys held (`Rests`); `Pressed`, `Repeated` and
`Released` go through the codes of each key. The prefix that is read counts as 0
while the keyboard is in service, because the handler puts 0 back at its end,
before the next code is taken: that is the part an early EOI breaks, and why the
theorem, like the run, speaks of behaviours without one (`cut`).

**Console** (`ConsoleAssumption`: a screen of any number of lines, an even number
of columns that the tabulators divide, because scrolling moves two cells at a
time and `TAB` reaches the border only then; memory for at least the screen;
`GlyphsAssumption`: a control character is not also a glyph). `ScreenInv` is the
invariant: `CursorOK` (`pos` is where `x` and `y` say, `x` may stand behind the last
column), `RegionOK`, `ParserOK`, `SavedOK`, where `printf` is, and `Drawn`: a cell
behind the screen is as it was at boot. None of these holds alone: which cells a
write, an erasure or a scroll reaches follows from cursor and region, what
sequences make of these from parser and saved cursor. `NextScreen` is one step
per function of `con_write`. The refinement repeats these steps in the rows that
`Terminal` knows: a loop of copies in memory between two cells is a move of
whole rows (`RowsUp`, `RowsDown`) or of the rest of one (`RowsShiftRight`,
`RowsShiftLeft`), a print is the terminal's other writer (`PrintScreen`), and a
step that only parses leaves the terminal alone. In `KeysPrintNothing` the
sequences of the cursor keys are followed byte by byte (`Understood`), from the
keyboard's queue to the parser at rest.

**Floppy, DiskBuffer, Fat12, FileSys.** The six assumptions on the constants leave
the floppy open: a track is a whole number of transfers, and so is a block
(`FloppyAssumption`, `DiskBufferAssumption`); track, head and sector fit in their
bytes; FAT and root directory lie in front of the data, the FAT first, there are at
most 4080 FAT entries, so that no cluster's number is also an end mark
(`LayoutAssumption`); what is on the floppy at first can be read as a FAT and a
directory (`FormatAssumption`) and its chains are exactly those of its files
(`FloppyAtFirstAssumption`, needed by the last three theorems only); `FileSysAssumption`
types the rest. They hold of
the source's numbers (18 sectors, 2 heads, 2 sectors a transfer, 8 a block,
2730 entries, data from sector 33) as of the small floppy of the run `files`.

The first three theorems are about one transfer: from a sector where a transfer
may begin it moves this one and those next to it (`TransferIsItsSectors`), so
`disk_buffer_get` reads the block it was asked for (`BlockIsRead`), and a turn of
`disk_buffer_syc` writes its sectors to their own places and no other
(`TurnWritesItsSectors`). The argument is arithmetic: a side holds a whole
number of transfers, so none reaches its end.

`FileInv` is inductive. `WriteThrough`, its heart, says that a buffer differs from
the floppy only in a busy block, or in the block that is being written, and
there only from the next transfer on (`Unwritten`). Alone it does not survive a step: that
the turn writes what the buffer holds needs each buffer in its chain, once
(`CacheOK`), and the block in progress to be a buffered one (`SycOK`); that
nobody writes a sector that is not buffered, which is what `disk_buffer_put` without
`disk_buffer_get` would do, needs the calls and the FAT to be sound as data: the FAT's
entries in twelve bits, also the 65535 of a full floppy (`TableInv`), what a
call is at (`CallInv`), and open descriptors that name inodes of the list
(`DescInv`). This last one had to be strengthened: `fat12_init` empties the list
of inodes, so before it has run no descriptor may be open.
Every action has its lemma; the loops that a single action stands for, a chain
that grows (`Appended`) and `fat12_set_info` over its blocks (`WithInfo`), are inductions
over the number of turns (`FromZeroOn`, an induction on a set of numbers instead of
an operator). A power that fails leaves whatever is on the floppy then, and the
kernel starts again from that: `FirstState` says that any such beginning is
sound, `Init` among them.

The FATs are the second part, with `StoreInv` for an invariant. That the FAT on
the floppy is sound at *every* moment is a statement about a save that has come
to some sector: `SaveInv` says that the sectors in front of it (`Frontier`) hold
what memory holds and those behind it what was there before, and `SavedPart`
turns this into a sentence about FAT and directory. `FloppyInv` is about the
two pairs of them, `fat` and `root` in memory and `D` and `R` on the floppy:

* in memory every file has the clusters its size needs, the last one is marked as
  the end, and no cluster is used twice or without a file (`Tight`);
* between saves the floppy is `Tight` too and memory is `Saved` there, but for
  sizes within a cluster and files of one cluster;
* in a save, memory `Follows` the floppy: each file of `R` is in `root` with a size
  not smaller, and each link of its chain but the last, whose end may have been
  replaced by the new clusters already, is the same in both. This is the relation
  that stands at whatever sector the power fails, because the FAT lies in front
  of the directory: `FollowsIsWhole` concludes that the floppy then has a chain of
  distinct clusters for every size in its directory (`Whole`), which is `DiskSound`.

After such a failure the kernel starts from a FAT that may have links too many
and marks of clusters nobody has (`risk = "torn"`): the invariant keeps `Whole`
and gives up `Tight`. `AppendedGrown` is the loop of `resize`: after `n` turns
the chain is the old one and `n` clusters that were free, the rest of the FAT is
unchanged; it is an induction over the turns with `Grown` for a hypothesis.

`ChainsExact` had to be strengthened: it compared the number of clusters a file
occupies with its size, and allowed the chain of one file to run on into that of
another, behind the clusters it needs. No run of the code does that, but no
invariant follows from it either: the next growth would append behind the wrong
file's end. It now says that a chain has the length its size needs.

The refinement of `FileStore` is the third part. Its `files` are read off the
concrete state through the chains, so each step has to be followed to the bytes:
`Look` is what the clusters hold as a read sees them, the buffers over the
floppy, `Under` what the floppy alone holds, and `Cell` the byte at a place of a
file. `FilesAre` says that `files` are made of these, `SameCell` that a file
keeps its bytes when the links of its chain but the last are unchanged, which
`Tight` grants at every growth, creation and removal, to the file that grows and
to the others. `DataInv` is the invariant of a call in progress:

* `CallKnown`: its slot is in use, its window ends within the file, and `cluster`
  is the one at place `curr_sect` of the chain;
* `Done`: up to `Reached`, the end of the sectors gone through clamped to the
  window, a write has set the bytes and a read has collected them. This is where
  the case distinction of the copying loop is shown right for every offset,
  length and sector size (`CopiedPart`: the three kinds of sector it knows
  together are the window);
* `Pending`: a cluster that `Look` and `Under` differ on is one of the file
  being written, and the bytes they differ in are in the window.

A power failure replaces `Look` by `Under` and memory by the floppy. By
`Follows` each file left on the floppy is one of memory, perhaps shorter, with
the same chain up to its last cluster; by `Pending` a byte that changes is in the
window of the write, which is the one exception `FileStore` makes
(`InDangerByte`). `StepImage` puts the steps together. None of this uses a bound:
it holds for any number of calls and failures, also for a second failure after a
torn save.

Liveness (`CallEnds`, `KmallocEnds`,
`EveryoneRuns`, `KeysAreRead`) stays with TLC: the proof system does not reason
about fairness of this kind, nor about what is enabled.

## Not modelled

* the registers of the DMA and the timing of the floppy, which `floppy.c` ignores
  as well: a transfer happens or the power fails in front of it. Its interrupt is
  not delivered: `fd_rw` runs with interrupts off and reads the result, which
  withdraws the request. `fd_init` is not called. Memory for buffers, which
  `disk_buffer_get` takes unchecked, does not run out;
* files made by other tools whose size is a multiple of 512: they have one
  cluster fewer than `resize` assumes;
* what the scheduler does with `tick_left` after a descriptor -1 has
  overwritten it (`sys_open` with no free descriptor);
* the keyboard's answers to the commands of `set_leds` (codes of `none`),
  Ctrl-Alt-Del, `kb_wait`, which hangs if the controller never gets ready, and the
  code segment in `%ds`, through which `keyboard_interrupt` writes: a processor
  that checks segments refuses that, an emulator may not;
* keys for which a keyboard has other codes in combination (a grey key with a
  shift or without Num Lock, Pause with a control key): no set of keys of the run
  holds both;
* colours, the beep and the cursor register; the digits `printf` makes of numbers;
* the loader: `load_file` of `boot.S` follows a chain of
  the FAT that nobody changes meanwhile, with the formula of `fd_rw`; `DiskSound`
  says that such chains are sound;
* areas that share a page: freeing one unmaps it for the other
  (`mm_vm.c:172`); the kernel asks for whole pages only;
* `map_all_memory`, segment and paging set-up, `except.c`: straight-line
  configuration or handlers that print and stop;
* `string.c`, the two user programs: no state of the kernel;
* `kthread.c` and `bit.h` are not compiled;
* one-byte areas in `VmArea`, whose loops turn never or up to the end of the
  address space (the rounding of `mm_vm.c:17`);
* the write of the saved stack pointer into the freed `proc_t` at exit
  (`context_switch(proc, idle_proc)` after `kfree(proc)`): with interrupts off
  nothing allocates in between.

## Plan

1. *Done:* page allocator with its proofs, heap, lists, scheduler, address
   spaces, floppy with its proofs, files, console with `printf`, keyboard,
   interrupts.
2. *Done:* proofs of the page allocator with its refinement, heap, lists,
   scheduler, address spaces, interrupts and keyboard, console with its refinement,
   files with their refinement.
3. *Open:* every safety property of the runs is a theorem; what is left is in the
   list above.
