# AsymptoteOS: specifications, checks and proofs

AsymptoteOS is a small operating system for the S3C2440 (an ARM920T, 64 MB of
memory at `0x30000000`). It has one processor, one address space and no
protection: every task runs in supervisor mode, a timer interrupt switches
between them, and the C code has no locks except a pair of functions that turn
interrupts off and on. Most of its rules are conventions between caller and
callee. The specifications make them explicit: a module says which rules the
code leaves to its callers, what is true as long as they are kept, and where the
code itself breaks what a comment promises.

## 1. The system

| part | source | state it keeps | operations |
|---|---|---|---|
| linked lists | `kernel/list.c`, `include/list.h` | `next`, `prev` of each `list_head` | list_init, list_add, list_add_tail, list_del, list_empty, and the same for chains of nodes |
| scheduler and tasks | `kernel/sched.c`, `kernel/fork.c`, `boot/start.S` | run queue, wait queue, `tmp`, the `task_struct`s, the static counters of slots and pids | task_init, do_fork, do_exit, sleep_on, wake_up, the timer switch |
| page allocator | `mm/mem.c:1-224` | `page_buddy[]`, the array of `struct page` | init_page_map, get_free_pages, put_free_pages |
| object caches | `mm/mem.c:225-368` | `kmalloc_cache[]`, the strings of free objects, `page.cachep` | kmalloc_init, kmalloc, kfree, kmem_cache_* |
| page bitmap | `mm/simple_mem.c` | `mem_map` | get_free_page, free_page |
| VFS switch | `fs/fs.c` | `fs_list`, the cursor `temp_fs_type` | register, unregister, do_open/read/write/close |
| simple_ext2 | `fs/simple_ext2.c` | two bitmaps, inodes and directory on the card; `buf`, `inode_table`, `fd_table`, `filp` in memory | format and mount, open, create, read, write, close |
| romfs | `fs/romfs.c` | the image on the card; `romfs_file`, `open_romfs_inode` | open (path walk), read, close, listing |
| SD card | `drivers/sd.c` | controller and card state | sdi_init, sd_read_sector, sd_write_sector |
| driver model | `drivers/base/*` | lists of devices and drivers of a bus | device and driver registration, match, probe |
| UART, LCD, NAND, timer, keys, LEDs | `drivers/*.c` | hardware registers | polling transfers and set-up |
| shell and init | `init/main.c` | the command buffer | reads lines, runs them, forks `fs_task` for files |
| boot and interrupt entry | `boot/start.S` | mode stacks | reset, IRQ entry, task switch |
| C library | `mylibc/` | `___strtok`, the buffer of printk | formatting, strings, division (from Linux) |
| second copy of the C library | `lib/` | the same | the same, not linked into the kernel |

How they meet: `init()` (boot task) sets everything up and forks the shell and
`lcd_task`. The shell reads lines from the serial line, forks an `fs_task` for
each that names a file, and wakes `lcd_task`, which had put itself to sleep. The timer interrupt saves the running task's context
on its stack, asks `__common_schedule` for the next task and returns into it.
`fs_task` goes through the VFS switch to a file system, which reads and writes
sectors with the SD card driver, polling, while the timer goes on switching.
The page allocator and the caches are called by the boot task only, as are the
registrations of the driver model. Every part prints with printk, which formats
with vsnprintf, which divides with `__do_div64`, into one buffer, and sends that
to the serial line.

What is hard about it:

* *Interleaving.* The timer strikes between any two instructions. The static
  counters of do_fork, the global `tmp` of sleep_on, the file systems' shared
  buffer, inode table and cursor are all read, used and written without a lock.
* *Stale links.* A node's links stay set after list_del; wake_up never takes a
  node off the wait queue; a merged block keeps its old place on a list.
* *Borrowed memory.* A forked `fs_task` is given a pointer to the shell's command
  buffer for its file name.
* *Limits.* Slots for tasks, open files, inodes and caches run out; the code
  prints a message and goes on.
* *What memory holds.* Nothing clears `.bss`; free objects keep their links in
  memory that callers have written to; formatting a card leaves old sectors.
* *Half-done work.* kmalloc_init stops at the first failure and init() goes on;
  romfs_open returns a descriptor whether the file was found or not.
* *One of everything.* romfs has one inode and one open file for all
  descriptors, the switch one cursor, printk one buffer.
* *Edges.* Carries out of a word, areas that overlap, a text that ends on the
  last byte of its buffer, a sign that counts against the width of a field.

What makes each part correct, in one line each: the run queue is one ring of
exactly the runnable tasks, and whoever is runnable runs; a page or an object is
free or with one caller; the mark of a free block is true; a slot and a pid are
handed out once; a name in the directory leads to one inode that is marked as
taken; what was written to a file is what a read returns; a driver is bound to
the devices it matches, whichever of them is registered first; what is typed is
run, and what is printed appears whole.

## 2. Modules

| module | models | kind |
|---|---|---|
| `DList` | `list.c`: every function as an operator on the functions `next` and `prev` | operators |
| `Sched` | scheduler, fork, exit, sleep, wake and the timer | state machine, extends DList |
| `PagePool` | what the page allocator promises | abstract specification |
| `Buddy`, `MCBuddy` | the page lists of `mem.c` | state machine, extends DList, implements PagePool |
| `KHeap` | what kmalloc and kfree promise | abstract specification |
| `Slab`, `MCSlab` | caches, kmalloc and kfree | state machine, implements KHeap |
| `KmemLayout` | the two loops that lay out a cache | state machine |
| `FileNames` | what opening a file promises | abstract specification |
| `Ext2`, `MCExt2` | bitmaps, inodes, directory, open files and the sector buffer of simple_ext2 | state machine, implements FileNames |
| `Ext2Data`, `MCExt2Data` | where the bytes of a read or write go | state machine |
| `Vfs` | the file system switch and the tasks that call it | state machine |
| `Romfs`, `MCFiles` | romfs behind the switch | state machine, extends Vfs and implements it |
| `SdCard`, `MCSdCard` | the SD card driver, its controller and the card | state machine |
| `Drivers` | the buses, devices and drivers of `drivers/base` | state machine |
| `Strings` | `mylibc/string.c`: every function as an operator on memory | operators and the calls that use them |
| `Printf` | vsnprintf and number() of `mylibc/vsprintf.c` | state machine |
| `Division` | `__do_div64` of `mylibc/div64.S` | state machine, its variables the registers |
| `Console` | printk, putc and getc, the shell and the tasks it forks for files | state machine |
| `MCAlone` | KmemLayout, Drivers, Strings, Printf, Division and Console next to one another | instance of all six |
| `SchedProofs`, `BuddyProofs`, `SlabProofs`, `Ext2Proofs`, `Ext2DataProofs`, `VfsProofs`, `SdCardProofs` | theorems about the module they are named after (SchedProofs: about `DList` too; BuddyProofs: about `PagePool`; Ext2DataProofs: about `Ext2`; VfsProofs: about `Romfs`) | proofs |
| `AloneProofs` | theorems about `KmemLayout`, `Drivers`, `Printf`, `Console`, `Division` and `Strings`, each alone | proofs |

Some conventions. A pointer is a node, a slot number or a negative number that
stands for NULL or for memory nobody has set. A rule that the code leaves to its
callers is a member of the ghost variable `breach`: the step that breaks the rule
adds it, and the properties say which rules they need. `wild` says that an unset
or foreign pointer has been followed; nothing is known after that and the model
stutters. So the ways to go wrong are taken by the runs and not assumed away.
An operator marked as a slip, next to an action, is a plausible mistake in that
action; the list of mutants in PROJECT.json says which property notices it.

### Sched

The runnable tasks hang on one ring through `task_struct.list`; `cur` is the
task whose stack is in use. `pc[t]` says where in sleep_on, do_fork or do_exit
the task is; an action is the work between two accesses to memory another task
can see, a section between disable_schedule and enable_schedule is one action.
`Tick` (timer0_irq, `__common_schedule`, `__switch_to`) is enabled in every
state: the handler is atomic because a second interrupt comes 0.1 s later.
Callers are those of `init/main.c`: the boot task only forks, the slots in
`Sleepers` run lcd_task, the others are shell-like: they fork, wake and exit.

The rules: `"boot"` (the timer must not fire before the first do_fork has
cleared the boot task's state word), `"fork"` (one task in do_fork at a time),
`"sleep"` (one task at a time uses the wait queue), `"wake"` (wake_up only when
somebody sleeps) and `"exit"` (a task must not end while a task that is falling
asleep has picked it as its successor).

### Buddy and PagePool

PagePool has two actions on sets of pages: hand out 2^o consecutive pages nobody
has, take them back. Buddy has the lists. `get_pages_from_list` is cut at each
turn of its splitting loop, `put_pages_to_list` at each turn of its merging
loop. Pages in the block a call works on count as free in the refinement mapping
(`FreePages`), so every turn of a loop is a stutter of PagePool. `breach` here
collects what the code does wrong by itself: `"backward"`, `"top"` and
`"outside"` (see the head of the module).

### Slab, KHeap and KmemLayout

Slab has memory as one word per address: `link[a]` is the link a free object
keeps in its first word, and callers overwrite theirs. KHeap says that kmalloc
returns room nobody else has. KmemLayout has the arithmetic of the two loops
with the real page size and limits, one action per turn; Slab uses its result.

### Ext2 and FileNames

FileNames is what a caller of open wants to know: a set of names, and the name
each of its descriptors stands for. Ext2 has the card (`imap`, `smap`,
`dinode`, `dir`), the tables in memory (`itab`, `fdt`, `filp`) and the one
sector buffer `buf`. Changing the card takes three actions: the sector is read
into buf, changed there, written back; `call[t]` holds the locals and the place
of a task between them. The transfer of one sector is one action (what happens
inside it is SdCard's subject); two tasks that meet in it have broken the rule
`"shared"` before. A step that expects a sector in buf and finds another one is
`Astray`. `Boot` may come at any step: the machine starts anew, memory is
cleared, and create_fs formats a card that still holds what it held, except for
the sectors create_fs writes.

The rules: `"shared"` (one task at a time inside the file system), `"files"`
and `"full"` (no table or bitmap used up), `"stale"` (no entry left by an
earlier life of the card in the directory sectors in use). Each of them is
broken by some behaviour of the run, and with any of them broken the properties
would fail: the code does not protect itself. Names are values with a length,
because strcpy leaves the rest of a longer name behind and the search compares
all twelve bytes. Names of twelve bytes and more are left out.

### Ext2Data

`disk` has every byte of every sector of some files that lie behind one
another. A turn of the loop of do_rdwt is an action. The ghosts `image` (what
the sectors ought to hold) and `content` (what was written to a file, in order)
are what the result is compared with. The position from which do_rdwt works is
`fd_pos + i_size` for reading and for writing, so a file can be written once
and, from its first half sector, be read back; the rules `"again"`, `"far"` and
`"past"` say where this ends. WritesLand needs only the last of them: whatever
position was computed, the bytes go exactly there.

### Vfs

`fsList` is `fs_list` (its order is all that the code uses), `tempFsType` the
global cursor. do_open is cut at each use of the cursor, do_read, do_write and
do_close are one action each. Tasks behave like `fs_task`: one file at a time.
The file systems behind it make a file or refuse; romfs has no write operation.
The rules are `"shared"`, `"mixed"`, `"unknown"`, `"missing"` and `"unlisted"`
(see the head of the module). As the code stands vfs_init registers nothing, so
only `"unknown"` happens; the run registers what the two init functions would.

### Romfs

Romfs extends Vfs: `RomOpen`, `ReadStart` and `RomClose` are the steps of the
switch that reach romfs, joined with the first step inside it; all other steps
of the switch are `Elsewhere`. `rom[t]` is the place of a task inside romfs with
its locals: open and the listing read the super block, then a header's sector
and the header in turn (`Fetch`, `Look` or `Show`); a read computes its sectors,
transfers them to the one area at `0x33600000` and copies. `romInode` and
`romPointer` are the one inode and the one file that all descriptors share.
Addresses count units of 16 bytes. The image is a constant: what genromfs makes,
a chain of headers with names, sizes and, for a directory, `spec`.

`path` and `got` are ghosts: what a task asked for, and what it was given.
`RomfsTrue` compares them. The rules (`romBreach`, see the head of the module)
are all broken in the run, by one step each; a behaviour goes on after that to
its end, but no new call is made. `"room"` needs a word: each open reads a
sector of 512 bytes onto a struct of 16, and moves the place by the offset of the
header, so how far it writes depends on the path of headers; the run has builds
that leave 16 and 64 units behind it. The name of the volume is taken to be
short (`RomfsAssumption`), as the address of the first header is computed in one
byte. After FOUNDDIR (a path of two names) the pointer moves by the whole
address on the card, into memory nobody has read: any header may be taken.

### Drivers

A bus has two lists, in the order of registration. `driver_register` adds the
driver and then looks at the devices one after the other (`ProbeTurn`,
`RegisterStop`): it stops at the first device of another name. `device_register`
looks at no driver at all. So whether devices and drivers meet depends on the
order of the registrations; the rules in `unbound` are what that order must
keep. The code's own caller (`drivers/base/test.c`) registers one device, then
its driver. The bus of platform is registered by platform_bus_init; that of mmc
never is (`"nobus"`).

### Strings, Printf and Division

Strings has memory as a row of cells; the functions are operators with the
names of the source that stop, turn and copy as its loops do, and the actions
call them with every argument C allows: strings that end, areas inside the memory, no
overlap where C forbids it. `Promise` says in terms of texts what the comment of
each function says. Printf reads a format a character at a time; a character is
chosen when the code comes to it and an argument when va_arg takes it, so every
format up to the bound is tried. Addresses are a ring: `end` is computed with a
subtraction that may wrap around, and so does `str` as it is counted up. When
lines 184-187 set `end` to the last address there is, every `str <= end` is true,
and a text that reaches the end of memory goes on at address 0. BufferHolds says
nothing of such a text (`Below`); the run has it, with a buffer at 40 of 64
addresses and a field of 55. `full` is a ghost: the whole text, stored or not. Division has the registers and
flags of an ARMv4, which is what `__LINUX_ARM_ARCH__ 1` selects.

### Console

`printing[t]` is the place of a task in printk: vsprintf stores one character of
the text in an action, and the loop looks for the NUL and sends in two more.
`readerAt` is where a forked `fs_task` is: its reports, its two calls of do_open
and its two endings; the file system behind them is the subject of Vfs. A text
is the sequence of its characters, a line what was typed up to the return. The
ghosts `due`, `linesDue` and `asked` are what is still to appear, to be run and
to be served, the flags next to them say that something else was. The rules
(`unheard`, see the head of the module) are those of code without a lock and
without a check on either of its buffers; lcd_task, which prints too, breaks
`"shared"` as the forked tasks do. An `fs_task` whose do_open fails does not call
do_exit: it returns to address 0, where do_fork has its link register point, and
the machine starts anew (`"returned"`).

### SdCard

Three parties run at their own pace: the caller (`c`: which command or loop it
is in), the controller (`csta`, `resp`, `busy`, and the data path with its
FIFO) and the card (`card`: state, bus width, memory, and the block it is being
sent). Controller and card are external and modelled from what the code checks:
the states of lines 225, 375 and 392, the flags of lines 240-298, the status of
line 631, the FIFO bits of lines 639 and 693. Up to `MaxFaults` times in one
behaviour something fails: a command is lost (with CMD0 nobody notices, as it has
no answer), an answer is lost or spoilt, ACMD41 finds a card that is not ready,
a word of a read arrives spoilt, a block of a write is refused. A spoilt word is
reported when its block has ended (`Report`), at a time of the controller's own;
the caller looks at the status (`CheckStatus`) and takes the word (`TakeWord`) in
two steps, and the report may come between them. A card that has refused a block
ignores the blocks behind it until CMD12. The words of a write are counted in
16 bits (`HalfWord`).

The code retries without limit and looks at little, so there are seven cases in
which it cannot go on, or not tell: `"answer"` (the card took the command and the
answer was lost), `"error"` (a read given up leaves the card sending), `"late"`
(the error of the last block comes after the last look), `"cut"` (the
transmission is switched off with words in the FIFO), `"refused"` (nobody reads
the status of a write), `"narrow"` (a write uses four data lines in any case) and
`"long"` (a write of more words than the counter counts). `"cut"` is the rule
rather than the exception on a real board: the loop ends when the last word has
gone into the FIFO, and only a card that empties it before line 700 has it all.
WriteTrue therefore says little of real writes by itself; LostAtEnd, which holds
in all seven cases, says what they may lose. The comments of lines 607-609 say
that 0 is failure and 1 success; the code returns 0 for success and -1 for a read
that failed, which all callers but sdi_test expect.

## 3. Runs

| run | asks | bounds, and why they are enough |
|---|---|---|
| `sched` | do the run queue, the wait queue and the counters survive every interleaving? | 3 slots besides the boot task: one sleeper, two others, so a fork can run while another one forks, sleeps, wakes or exits; every rule gets broken |
| `sched_live` | is every runnable task served, does every fork and sleep complete? | the same |
| `buddy` | do lists and marks stay true, and is PagePool implemented? | 10 pages, largest block 4: a pair of largest blocks, one without a mark, and two odd pages; three callers; one call after the heap has gone bad |
| `buddy_refused` | is a caller that puts back once what it was given ever refused? (it is) | the same, five calls after the first backward merge |
| `slab` | is an object ever lost or given out twice, KHeap implemented? | 2 caches, blocks of one and two pages, one with room left over; 6 pages, so both caches grow; 3 callers |
| `alone` | KmemLayout: are objects counted right, links inside the block? | the real numbers: 128 kmalloc sizes and all sizes around the limits |
| | Division: is the quotient exact, whatever way it takes? | words of 10 bits, 17 values for each half of the dividend, 21 divisors on every edge; a division by 2^16 does not occur, all other branches do |
| | Strings: does each function keep its promise? | 5 cells of 3 byte values, all contents, all arguments: texts of up to 4 bytes that overlap in every way |
| | Printf: does a text stay in its buffer, can a number be read back? | formats of 5 characters with one directive and digits 0 and 5; buffers of 0, 4, 31 bytes and one that is refused; ints of 8 bits and long longs of 10 |
| | Drivers: do devices and drivers find each other? | 2 buses; 4 devices, two of one name; 4 drivers, two of one name, one without a probe function; every order of registration |
| | Console: does every text reach the line whole, is every line run, and served for its file? | the shell and 2 forked tasks; buffers of 3 characters, which texts and lines fill and pass; 4 keys: two lines that name files, or a longer line and a shorter one after it |
| | does every loop end? | all of these |
| `ext2` | is the card sound between any two sectors, are the tables right between calls, is FileNames implemented? | 2 tasks, each with one descriptor; 2 names of different length; 2 entries to a directory sector and 4 bits to a bitmap sector, so both grow into their second sector; 2 starts of the machine |
| `ext2_data` | does every byte land where it belongs and nowhere else, is what was written read back? | sectors of 3 bytes, 2 files of 2 sectors, calls of up to 4 bytes: every alignment, up to three sectors in a call, and calls that pass the end |
| `ext2_limit` | does a write stop at the end of its file's sectors? (it does not) | the same |
| `files` | does every call reach the file system that made the file? does a read of romfs bring the bytes of the file that was named? | 3 tasks, the 2 file systems of the repository; an image of 8 headers: names and data that end on, before and behind the end of a sector of 8 units, an empty file, one that fills more than a sector, a directory, a long name; 8 paths, one of a file that is not there |
| `sd` | is an initialised card ready between calls, is what is read and written true, what can a write lose, does every call return? | 3 blocks of 2 words and a FIFO of 3, so that it fills and drains in a transfer and a block ends inside one; a counter of 6 values, so that a write of 3 blocks is too long for it; 3 faults, 4 calls |
| `sd_refused` | does a write that returns 0 have all its blocks on the card? (it need not) | the same |

A run that ends because its bounds are used up (calls, faults, writes, a rule
broken) stops there, so deadlock is not checked in `ext2`, `ext2_data`, `files`,
`alone` and `sd`; that the calls themselves do not block is CallReturns in `sd`, and in
the others no step waits for another actor.

The six machines of `alone` share no state and never run together, so a
behaviour is one of them at work; they share a run because each is small.

Fairness is assumed in three runs. `sched_live`: `WF(Tick)`, because timer 0
reloads itself (`drivers/init.c:35`), and strong fairness for the steps inside
do_fork and sleep_on, because a time slice is many thousand times longer than
these functions, so that a task that gets the processor again and again gets on
with them. No fairness for a task's own decisions to fork, sleep, wake or exit.
`alone`: the loop of one task, which the timer always comes back to, goes on
(`WF` of the whole step: nothing else happens in these parts; in Console the
timer comes back to each of the tasks, and the keys are finitely many). `sd`: the caller's steps, the card
that takes or misses every command (the controller's own timeout flag says which)
and finishes programming, and the words that move when there is room and the errors the
controller reports; each is hardware that runs by its own clock, and faults are finitely many.

## 4. Proofs

Each module of proofs states an inductive invariant, shows that the initial
states satisfy it and that every action keeps it (one lemma to an action), and
draws the properties from it. TLC has checked each of these invariants on the
states of the run of its module; where one says that something exists (a row of
blocks, a string of objects), with what the walk along the list finds for it.

* `SchedProofs`: list_add_tail and list_del keep a ring a ring, for any nodes;
  and for any number of tasks and pids and any set of sleepers
  (`SchedAssumption`): TypeOK, RunQueueIntact, ForksDistinct, DispatchRunnable,
  NeverWild.
  The inductive invariant is `TypeOK /\ ForkInv /\ (LinksInOrder => InOrder) /\
  (breach = {} => Picked)`. ForkInv says what a task inside do_fork has in its
  registers, InOrder that the run queue is a ring of `Ring` and the wait queue
  is one of the few shapes one sleeper can make, Picked that the successor a
  task falling asleep has saved is still runnable. RunQueueIntact is not
  inductive by itself: list_del is only right for a node that is on the ring,
  and a slot is only new when ForkInv holds.
* `BuddyProofs`: for any number of pages, largest order and set of callers
  (`BuddyAssumption`): ListsOfBlocks, MarksTrue, that Buddy implements PagePool,
  and that until `breach` an honest put is not refused. PagePool shares no page and
  loses none (`PoolKeepsPages`), and by the refinement neither do the lists
  (`PagesNeverShared`). `BuddyInv` says that there
  *is*, for each order, a set `B[o]` of first pages such that the list of the
  order is a row of exactly these blocks; the blocks on the lists, in the hand of
  the call and with the callers are whole (their pages chained in ascending order,
  no order marked inside); no page is in two of them; and the marks say who has
  which. None of the properties is inductive by itself. Cutting 2^order pages off
  the front is right only because the block there is whole; put_pages_to_list
  relinks a block that was away from every list, so that the caller's blocks must
  be known to be whole too; and the merge test of line 162 reads a mark of
  memory it knows nothing of, so that the marks inside blocks matter. That the walk along `next`
  meets exactly the pages of the row is proved by the least place at which they
  would differ, and that 2^o is what it should be from the number of subsets of
  a set, as there is no induction over numbers here.
* `SlabProofs`: for any number of pages and caches and any sizes of blocks and
  objects that fit (`SlabAssumption`): ObjectsAccounted, BlocksStrung,
  KfreeFindsCache, and that Slab implements KHeap. The invariant `SlabInv` says
  what the properties do not: there *is*, for each cache, a sequence of its free
  objects in which each one's first word leads to the next, and a sequence of its
  blocks. The two conditions are about walks along `link`, which are functions
  defined by recursion; `SlabInv` is about sequences, which an action changes at
  one end. That a walk meets exactly the nodes of such a sequence is a lemma of
  its own, proved by the least place at which they would differ.
* `Ext2Proofs`: for any number of tasks, names, descriptors, inodes and sectors
  (`Ext2Assumption`): CardSound, TablesSound, TableOnCard, and that Ext2
  implements FileNames (FilesImplemented). `Ext2Inv` says that, as long as
  `breach` is empty, at most one task is inside a call, and for each of the
  places it can have reached (`Where`) what it has done on the card that the
  directory does not list yet, which slot of the inode table it holds and which
  is ahead of the card, and what `buf` holds. None of the properties is inductive: each
  is about the moments between calls or about the card alone. Three facts about
  the order in which things are taken carry the invariant. No file is ever
  removed, so that inode numbers follow the entries of the directory, and entry g
  has inode g + 1. All sectors below the end of the last file are
  marked, so that the first free bit, and the run behind it that is taken without
  looking, lie behind every file, even across sectors of the bitmap (`RunStarts`,
  `SmapWriteKeeps`). And entries behind the end of the directory are blank where
  they have been looked at (otherwise `"stale"` is in `breach`). For
  FileNames, a new name becomes a file at `claim`; that a name is found exactly if it is
  listed (`FoundListed`, `SearchedOn`) makes the answers right, and every other step is one
  that FileNames does not see (`Unseen`).
* `Ext2DataProofs`: for any number of files and descriptors and any sizes of
  sectors, files and calls (`Ext2DataAssumption`): WritesLand, SizeTrue and, as
  an action property, ReadBack. `DataInv` says what holds after each turn of the
  loop of do_rdwt: its position, kept as a number and as a sector with an offset,
  is the same in both forms as long as bytes are left (`Aligned`), and what is
  left is all that is not on the card yet (`Due`). The properties are silent while a call
  is under way, so none is inductive. That bytes of different files have different
  places is arithmetic with a symbolic sector size, done once (`PlaceOwn`).
* `VfsProofs`: for any number of tasks and file systems, registered in any
  order: TypeOK, ServedRight and NeverWild. The calls do not say which file
  system they are for; the invariant says why the cursor does. Outside do_open
  it stands at the file system of every open file; inside, it has not passed the
  entry that is asked for (`NotPassed` before the comparison, `StillAhead` after
  it failed), no other task walks, and no entry is in the list twice. Without
  that last part a step could lead back to an entry already passed. Every step of the
  switch with romfs behind it is a step of the switch or leaves it alone
  (`SwitchKept`), so what is proved of the switch holds for the two together
  (`RomfsServedRight`). RomfsTrue is proved for every image whose headers go
  forward and whose files do not overlap, and sectors of any size
  (`RomfsAssumption`). `RomInv` says that, as long as `romBreach` is empty, at most
  one task is in romfs and at most one has a file of it open; that a search looks
  for the name the task gave, and the one inode is that of the task's file from its
  end on; that a listing has shown the names before the header it has come to; and
  that a read takes the sectors this inode names. Why they hold all bytes is arithmetic
  with a symbolic sector size (`AreaHolds`); that the names behind a header exist
  as a recursive function follows as some header is the last (`LatestOf`).
* `SdCardProofs`: for any number of blocks, blocks of two words or more, any FIFO
  and counter and any number of faults and calls (`SdAssumption`,
  `SdNoneAssumption`): CardReady, WriteTrue, LostAtEnd and, as an action property,
  ReadTrue. `SdInv` holds until the first breach and relates the three parties: at
  each place of the caller, which state of the card and which answer of the
  controller are possible, and how the words that are in the caller's hands, in
  the FIFO and on the card add up to the block of the call. CardReady and
  WriteTrue follow from it. `SdAlways` holds behind a breach too: the words of a
  write are in the FIFO, in the card's block and in its memory in the order of the
  buffer (`Sending`), and a read that has ended has all but perhaps its last block
  (`ReadEnds`); of a read that was never begun, as the answer to CMD18 was lost, it
  says that it waits for ever. LostAtEnd and ReadTrue follow from it, whatever has
  gone wrong. The two are proved together (`InStepAlways`). Blocks of one word are
  excluded, as the invariant is too weak for them; the code's have 128.
* `AloneProofs`: KmemLayout: for every page size, limit and object size the
  number of objects is right and every link lies inside the block; the offset
  reached and what is left add up to the block. Drivers: for any buses, devices
  and drivers DriversBound; the invariant says of the loop under way that the devices it
  has passed are bound and probed once, and of the other drivers of the bus that they
  have all that was theirs. Printf: for any format, buffer and words (`PrintfAssumption`)
  BufferHolds: as long as the text, were it all stored, ended before memory does, what
  has been printed is in the buffer as far as there is room; its invariant is that
  until then str counts what has been printed, in whichever of the
  loops of number() it stands. That number() has digits to print
  at all, a function defined by recursion over the quotients, is shown by the least number
  without them. NumberTrue, for words of any sizes of which the long long is the widest, as
  it is on the machine: `NumberInv` keeps it of the number printed last. What number()
  prints is brought into the order in which a reader takes it (`NumberLaid`: blanks, sign,
  prefix, zeros, digits, blanks), the parts are found in it by their lengths (`LaidFound`),
  the lengths follow from width, precision and flags (`Widths`), the unsigned value that
  is handed over is the number meant, with or without its sign (`SignAsked`), and its
  digits read back as that value (`DigitsTrue`): reading is the inverse of the
  recursion that wrote them, shown by the least number for which it would not be. Console: for any texts and lines, any size of either buffer and any
  number of tasks (`TextAssumption`) PrintedWhole and LinesServed; `ConsoleInv` says
  what of a text is already in the buffer and on the line and what is still to
  come, and that the tasks forked for a line carry its name. Division: QuotientExact
  for words of any size up to 32 bits, every dividend and every divisor; `DivInv` says at each
  label how the dividend adds up from the quotient so far, the remainder and the bits
  still in `xl`, whose rest is kept as a number of its own (`Below`, `CarriedOut`). Strings:
  StringsRight for any memory, alphabet and calls, function by function: the loop is a
  recursive function, shown to exist and to stop where the promise says by the least place
  at which it would not (`ScanIsFirst`, `CopyUpIs`, `CopyDownIs`); the rest is about
  texts that are cut, joined and split.

The temporal steps use PTL; nothing is assumed but the named assumptions on the
constants. Where a recursive function has to be known for every input, the proof takes
the least number for which it would differ, since a theorem of induction over an operator
cannot be used here. Every invariant and every action property of the passing runs is
stated by a theorem. Only model-checked: liveness under fairness, which these provers
cannot reach.

## 5. Disagreements

Three runs end in a violation, and each shows one place where the code does not
do what a comment or a caller says of it. `buddy_refused`: put_free_pages
refuses a block that was given out and is given back once. `ext2_limit`: a write
passes the limit line 981 of simple_ext2.c computes and changes the next file.
`sd_refused`: sd_write_sector returns 0, which its callers take for success, for
a write of which the card has refused a block. PROJECT.json quotes the lines.

Without a run, but worth knowing: do_open answers 0, not -1, for a file system
nobody registered (fs.c:79), leaves the cursor at the list head, and its callers
test for -1 (main.c:82, 96, 121); in Vfs such a task goes on, which is the rule
`"unknown"`. find_right_order has no order for an object of more than 410*32
bytes although the comment of line 229 of mem.c speaks of 32 pages; the mask of
line 92 leaves every second largest block without a mark; free_page of
simple_mem.c clears a byte behind its map, and get_free_page returns an error
number as an address; virt_to_page accepts the page behind the last; kmalloc of
exactly KMALLOC_MAX_SIZE is refused; the shell does not look at the end of
`command[30]`; the interrupt acknowledge of start.S:157 ORs an address into the
value it writes. romfs_open returns a descriptor for a file that is not there,
and a read then brings the file opened before it; a search in a directory reads
headers from memory nobody has filled. driver_register stops at the first device
that does not match and gives up what the probe returned, and nothing registers
the mmc bus. vsnprintf called with a null pointer and size 0 computes the last
address as its end and writes from address 0 on; %zd does not extend the sign;
"#" prints its 0 before zeros that the precision asked for, and for zero too.
vsprintf limits a text to 2^31 bytes, so that nothing keeps printk inside its
1024. A text that passes the end of memory goes on at address 0.

## 6. Not modelled

* What lies behind `romfs_inode`: the linker decides; the rule `"room"` only says
  when it is overwritten.
* The page bitmap of simple_mem.c: nobody calls it.
* The key interrupt (`irq_handler`, `init/main.c:20`) uses the lists from IRQ
  mode, where `current` is computed from a stack nobody has set up.
* exec: its body is commented out. kmem_cache_destroy: nobody calls it.
* LCD, LEDs, keys, uart0_init: register writes and polling without state.
* execv and the program it loads. Its read_file calls do_open with two of the
  three arguments, so the path is looked for as the name of a file system.
* That the number of task_structs is not limited: the one after 4096 forks lies
  on the kernel's text, and what that does then cannot be stated.
* print_task: nobody forks it.
* The second copy of the C library in `lib/`, which the kernel does not link, and
  bcopy.
* The reset path and the mode stacks of `start.S`.
* NAND: the calls of nand_init and nand_read in `start.S:89-97` and in exec are
  commented out, and copy_code_to_sdram has no caller.

## 7. Plan

The order followed so far: what every other part stands on (lists, scheduler),
the memory allocators, the file system, the driver below it and the switch
above it, romfs behind the switch, the driver model, the C library and the console. What is left, in the order of its worth:

1. Models: a map of who uses which part of memory (task slots, page pool, frame
   buffer, the area romfs reads to, the program area of execv).
2. Composition: Vfs with Ext2 behind it as Romfs is now, Console with Vfs for
   its forked tasks, and Ext2 with the failures SdCard reports and Ext2's callers ignore.
