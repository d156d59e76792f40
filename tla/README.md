# MystOS in TLA+

MystOS is a small 32-bit kernel for the PC: a boot sector, a kernel that sets up
its descriptor tables, a heap, a read-only FAT16 file system, paging and a text
console, and a keyboard interrupt that prints a greeting. There is one
processor, no process and no thread; the only concurrency is between the
kernel's main line and the interrupt handler, and between the processor and the
devices (the ATA drive, the CMOS clock). Paths below are relative to the
repository, whose code is under `src/`.

## 1. Inventory

| part | state | operations | used by |
|---|---|---|---|
| kernel heap `mem/heap/heap.c`, `kheap.c` | the block table, one byte per 4 KB block | `kmalloc`, `kzalloc`, `kfree` | everything |
| console `io/vgaio/vgaio.c` | cursor `row`, `col`; the video memory | `clear`, `print`, `printc`, `log`, scrolling | main line, keyboard handler |
| interrupts `idt/idt.c`, `idt.asm` | the descriptor table | `idt_init`, `INT21H`, `no_int` | the processor |
| disk driver `disk/disk.c` | none of its own; the drive's registers | `read_block`, `read_sector` | streams |
| disk streams `disk/stream.c` | position | `stream_seek`, `stream_read` | FAT16 |
| file calls `fs/vfs.c` | the descriptor table, the table of file systems | `fopen`, `fread`, `fseek`, `fstat`, `fclose` | `check_fs` |
| FAT16 `fs/fat/fat16.c` | mounted header and root directory; per open file an item and a position | `resolve`, `open`, `read`, `seek`, `stat`, `close` | file calls |
| path parser `fs/pparser.c` | none | `parse_path`, `parser_free` | `fopen` |
| clock `cmos/cmos.c` | none; the registers of the RTC | `time`, `utime`, `sleep` | nobody yet |
| timer `idt/irq/*.c` | tick counters | `IRQs_init`; `IRQ0` (not installed), `relative_time`, `setIRQ` (no callers) | `idt_init` |
| paging `mem/page/pagefile.c` | a page directory and its 1024 tables | `paging_new_4gb`, `paging_set`, `page_switch` | `kernel_main` |
| GDT, TSS `gdt/gdt.c`, `task/` | six descriptors, one task state | `gdt_structured_to_gdt`, `gdt_load`, `tss_load` | `kernel_main` |
| boot `boot/mosboot.asm`, `moskernel.asm` | none | load the kernel, enter protected mode, remap the PIC | the BIOS |
| main line `moskernel.c` | `kernel_chunk` | `kernel_main`: the boot steps and the numbered lines; `panic` | `_start` |

How the parts interact. `kernel_main` calls them in one fixed order and switches
interrupts on only at `moskernel.c:97`, after paging and after the file system
test. From then on `INT21H_HANDLER` runs between any two instructions of the
main line, through an interrupt gate (so it is not itself interrupted), and uses
the console and, when the screen is full, the heap, with no lock anywhere. The
file calls own heap blocks by pointers kept inside other heap blocks. FAT16 reads
through three streams on the one disk; each stream read is a conversation with
the drive through its registers.

What is hard in it, and what would make each part correct:

* **Heap.** The table keeps no lengths: `kfree` finds the end of an allocation by
  flags that `heap_mark_blocks_taken` has put there one loop round ahead. Correct
  means: allocations never share a block, the table tells exactly who owns what,
  freeing gives back exactly what was given, and that also when the handler
  allocates in the middle of a call.
* **Console.** Wrapping, new lines and scrolling share two counters with the
  handler, the test for a full screen is an equality made once per call, and
  `row++` is three instructions. Correct means: the screen shows the end of an
  endless page, and nothing is written below it.
* **Disk.** A sector number goes out in four registers, the drive answers when it
  likes, and a stream cuts requests into sectors by recursion. Correct means: a
  read delivers the bytes at the position, and returns.
* **Files.** An open file is four heap blocks linked by pointers, `fopen` can fail
  after any of its steps and `fclose` gives back only some of them. Correct means:
  a live descriptor leads to its own, whole file, however many were opened before
  and whatever ran out.
* **FAT16.** The root directory is counted by one rule and searched by another, a
  file's clusters are a linked list on the disk, and a read is cut three times: into
  members, clusters and sectors. Correct means: the name leads to its file whatever
  has been deleted before, and the bytes are the file's.
* **Paths.** The parser writes into fixed buffers and builds a list that somebody
  has to free. Correct means: a path gives its components or is refused, the
  buffers suffice, the loops end.
* **Clock.** It counts while it is read, register by register, in one of several
  formats. Correct means: a time that was true at some moment of the call, and a
  sleep that is long enough and ends.
* **Paging.** The kernel edits its page tables through the translation they define,
  and the processor remembers old words. Correct means: the tables lie where the
  directory says, apart from each other and mapped onto themselves, and a call
  changes the page it was asked to change.
* **Boot.** Thirteen steps in one order, of which three can end in a panic, then the
  first interrupt, which may have been waiting for long. Correct means: each step finds
  what it uses, an interrupt finds a handler and all that the handler uses, and a request
  is answered.
* **GDT.** A base and a limit are spread over seven fields, and the limit has two units.
  Correct means: the processor reads the segment that the source describes.

`PROJECT.json` lists every part under `components` and every hazard at its line
under `hazards`.

## 2. Modules

| module | what it is | models |
|---|---|---|
| `BlockAllocator` | abstract: intervals of blocks, granted and released | the contract of `heap_malloc`, `heap_free` |
| `Heap` | the block table, one call per step | `heap.c`, `kheap.c` |
| `HeapLoops` | the same, one loop iteration per step | the loops of `heap.c` |
| `HeapInterrupt` | `HeapLoops` with a handler that scrolls between two iterations; the properties of both | `copy_row` called from `INT21H_HANDLER` |
| `HeapProofs` | theorems about `Heap`, its loops and the handler | |
| `Terminal` | abstract: an endless page | the contract of `print` |
| `Console` | cursor, rows, scrolling, for two users | the screen driver in `vgaio.c` |
| `Strings` | operators: numbers as digits | `inttostr`, `hex` of `vgaio.c` |
| `Gdt` | operators: writing and reading a descriptor | `gdt.c`, the processor |
| `Kernel` | boot, main line, interrupt controllers; extends the three above | `moskernel.c`, `moskernel.asm`, `idt.c`, `idt/irq/irq.c` |
| `KernelProofs` | theorems about descriptors, the boot and the screen | |
| `ByteStream` | abstract: a position and the bytes behind it | the contract of a stream |
| `DiskStream` | sector buffer, registers, polling, recursion | `stream.c`, `disk.c`, the drive |
| `DiskProofs` | theorems about `DiskStream` and about `Fat16`; extends both | |
| `FileService` | abstract: descriptors with a file and a position each | the contract of the file calls |
| `Vfs` | descriptor table and the heap blocks of open files | `vfs.c`, parts of `fat16.c` and `pparser.c` |
| `VfsProofs` | theorems about `Vfs` | |
| `Fat16` | mounting, opening and reading, with a disk that others write to between boots | `fat16.c` |
| `PathParser` | the parser, one character per step | `pparser.c` |
| `PathParserProofs` | theorems about `PathParser` | |
| `Calendar` | operators: formats of the clock and day counts | the arithmetic of `cmos.c` |
| `Rtc` | reading the clock while it runs, extends `Calendar` | `time`, `utime`, `sleep` of `cmos.c`, the RTC |
| `RtcProofs` | theorems about `Rtc` | |
| `AddressSpace` | abstract: pages mapped to words | the contract of `pagefile.c` |
| `Paging` | directory and tables in memory, the processor's walk | `pagefile.c` |
| `PagingProofs` | theorems about `Paging` | |
| `NaturalLemmas` | lemmas on quotients, least elements and induction, used by the other proofs | |

An `MC` module with the same name gives a specification its instance, and a
`.cfg` the bounds.

### Heap

`entries[b]` is the set of flags of block `b` (the empty set is a free byte),
`ret` what the last `heap_malloc` returned. `held` is the callers' side: the
pointers they have not freed, with the number of blocks they asked for. It is
what the code cannot know and what the properties are about. `heap_get_start_block`
is a closed form of the search (first run long enough, otherwise the run that
reaches the end of the table, otherwise an error) and `heap_mark_blocks_free` of
the freeing loop; `HeapLoops` runs the loops themselves, and `Atomic` says that an
uninterrupted call does what `Heap` says. `Heap` implements
`BlockAllocator!Actual`: the allocator a caller would expect, plus `GrantShort`.

Addresses are numbers, `WordSize` stands for 2^32, so the rounding in
`heap_align_value_to_upper` wraps as it does in `uint32_t`. Entries behind the
table, which a short grant writes, are left out: in the memory map of the kernel
nothing lies there.

`HeapInterrupt` adds `ScrollInHandler`: one block for each row that is moved,
none freed. Its calls fall between any two iterations of the main line's loops;
`disturbed` remembers whether one fell into the running call.

### Console and kernel

`Console` is the driver, used by two parties. The calls of the main line are cut between the
loads and stores of the variables they share with the handler (`LoadRow`, `StoreRow`, ...) and at
each row of a scroll. Three steps take two accesses together, where a handler in between adds
nothing to what the properties tell apart. `Fetch` loads `col` and `row` for `put_char`
(`vgaio.c:105`): a handler between the two would change the column of one character, and the
properties are about its row. `StoreCol` stores `col` and compares it (`vgaio.c:106-107`): a
handler between the two would reset `col` and so only save a wrap, which the next character can
also do without. `EndScroll` is `row -= 1` (`vgaio.c:92`): a handler there has already torn the
scroll. `ShowsPage` and `CountsUp` end with the first such interrupt in any case (`mixed`).
The handler is one step, since its gate keeps interrupts off.
`gone` remembers the rows that were scrolled away, so that the screen can be compared with
`Terminal`; `mixed` and `torn` remember where interrupts came. Colours are left out.

`Kernel` is the program that uses it. Each boot step is an action: `at` is the next one,
`todo` what the steps so far have still to print, `up` what they have brought up. The inside
of the steps is the other modules' business; here a step may fail (`gdt_load` on a segment
that cannot be encoded, `disks_init` without a file system, `check_fs`), and then the kernel
panics. `base`, `irr` and `isr` are the interrupt controllers: requests wait, the line with
the lowest number comes first, and one in service keeps out those behind it. `_start` remaps
the first controller only, and the second sits behind its line 2. The timer, the keyboard
and whatever else is in `Lines` raise theirs at any time, the drive when its sectors are read
(line 14). `MainLine` waits while the processor is `Interrupted`. The code reads no data
from the keyboard, whose controller then raises its line no further; the model lets it,
which only adds behaviours. `ScreenAssumption` says that the texts fit on a row of the screen,
the lines that are printed with interrupts on together with the handler's and the two parts of
a panic together, otherwise one call could go below the screen by itself. Of the 80 columns,
the code's longest line takes 62, the longest with interrupts on and the handler's 57 together,
a panic 67. What lies behind the buffer of `hex` is unknown; that it fits too is assumed.
`NumbersAssumption` says that only the numbered lines look like numbers, and that no text has a
`\r`. In the code the marks and words of a log line see to the first; they are left out of the
model, so the assumption stands for them.

`Gdt` encodes a segment as `encodeGdtEntry` does and decodes it as the processor does. `R`
stands for 16, so that byte, page and word keep their proportions in a smaller instance.

### Disk streams

A byte is named by its address, so "the right bytes" is an equation. `Radix` is
256; the drive and head register has four bits of the sector number, next to the bits that are
always set (`| 0xE0`). The drive is external: it answers a command at some later time
(`DriveReady`) with the sector that its registers address.

### Files

A pointer is the number of a heap block and `mem` says what is in it.
`handles` are the descriptors that callers have open: they close each one once
and do not use it afterwards, as `check_fs` does. Everything `fopen` loses is in
the model: the parsed path (`parser_free` has no caller), the FAT descriptor of a
file that is not found, the directory that `fat16_new_fat_item_for_dir_item` loads
before it declares it a file. The items of a directory take as many blocks in a row as they
need (`kzalloc_blocks`), of a short run what there is; a directory whose items cannot be read is
given back. So `Root` says of each directory how many blocks that are and whether they can be read.
The block that `get_path_part` takes and gives back for an empty last component is left out:
it is free again before anything else is taken.

When memory runs out, `fopen` can give out half-open files: without a directory item
(`fat16_clone_directory_item` is not checked), or with an empty slot, whose number will be
given out again (`new_file_descriptor` does not check its `kzalloc`); `OpenFilesIntact` and
`OpenFilesApart` hold through all that. `ImplementsFileService` is about the calls that begin
with memory for one more file (`Enough`) while no half-open file is there (`Sound`) and the
last slot is not the only empty one: none of them gives out a half-open file, so that with
enough memory there is never one, whatever calls have failed before. What the service
promises of `SEEK_CUR` is what the code does: the offset is checked, not the sum.

### FAT16

The disk is `slots`, the root directory with the cluster chain of each file. The
bytes of a file are named by their position on the disk, as in `DiskStream`, so that
"the bytes of the file" is an equation between the layout of FAT16 (`ByteOf`) and
the arithmetic of the code. `Create` and `Delete` are what another system does while
the machine is off; a deleted slot can be used again, and that is how a disk comes
to have its holes. `fat16_get_fat_entry` computes a position that lies outside of
the FATs on a disk of the usual layout (in the instance as on the real disk);
`stray` is what the disk holds there. One file is open at a time, since
`Vfs` is about several.

In a full directory the scan for the first unused slot goes on in the data behind it, and
counts any of the numbers in `Behind`. The search then looks at as many items in memory. The
root directory was loaded into whole heap blocks, which kzalloc has cleared: up to
`BlockItems` (128 in the code, for 64 slots) there are zeros. What follows is the memory of
something else, chosen anew in each `fat16_open` from `Debris`: it may look like a file, and is then
opened. `OpensFile` is about the mounts whose count stays within `BlockItems`; in the instance
other counts occur and foreign memory is opened. `ReadsFile` is about the open files that are on
the disk.

A name is the bytes of its two fields. One that fills its field is read on into the next
one, and an extension of full length into the attribute byte behind it, which may look like
a space or like a letter; such a file answers to the glued name only (`bax.x` opens the file
`BA.X` in the instance, whose name fills its field), and `OpensFile` promises that it never takes the
place of a file whose name `ReadsBack`. Names are compared without case. Paths have one or two parts; for
two, the code has to find a directory first, and it opens directories as files of size 0.
Long file names are not modelled: the code does not know them either. What a disk must be like for
all this is said by two assumptions: `Geometry` (the directory fills its sectors, every cluster has
an entry in the FAT) and `NamesFit` (names fit their fields, are written in capitals, and have a
dot only between their two parts).

### Path parser

One step per character, with the part being copied, the list and the heap blocks
taken. A path is drawn when parsing starts, from the beginnings that
`validate_path_format` can tell apart and every continuation up to beyond the limit.
The reference (`Components`) says where the n-th component ends (`EndOf`: at the next slash or
the end of the path) and is the sequence of what lies between, up to the first empty one; it knows
neither the buffer nor the list of the code.

### Clock

`Rtc` has two actors. The clock raises its flag, changes its registers one by one
in any order and drops the flag; the kernel polls, reads and compares, one port
access per step. The registers hold a date in one of the clock's formats (`mode`:
binary or BCD, 12 or 24 hours, with or without a century), and what `time` and
`utime` make of them is compared with the calendar itself (`DaysSince1970` counts by
another rule than the code). The unit is an hour: minutes and seconds are read,
compared and converted like the rest, and with them left out an update comes every
hour. `recent` is the sequence of the dates since the running `time()` began. The read-twice
protocol is sound only while the lowest register does not go all the way around
inside one call (a minute in the code, `MaxTicks <= 22` here). The machine is switched on before 2036, runs for at most
48 weeks and sleeps no longer than that at once (`RtcAssumption`, `NapsAssumption`), so that neither
`utime` nor `end_utime` passes what an `int` can hold, in January 2038.

`UtimeRight` compares `utime` with the calendar from an `Epoch` on: 1970, and for later dates
March 2000, so that the day which the code loses in 2000 lies before the second epoch and not
between the epoch and the date. Everything else the loops count is compared with
the calendar, each other leap year included.
The hours that begin at noon and midnight of a 12-hour clock, which `time` takes for each
other, are left out of `TimeWasTrue` and `UtimeRight` (`TwelveOClock`).

### Paging

`mem` is the heap's frames, word by word: the directory, its tables and the chunk are ordinary
heap blocks, each the first that is free when it is asked for (`FirstFit`). `used` are those that
paging has taken; what other code holds at that moment is any set of `Elsewhere`, so the tables of
one directory need not lie in a row, and a later directory may lie between them. Once `paging` is on, the kernel's own writes go through `Reached`, the
translation. `tlb` is what the processor remembers: an access may add to it, only
loading the directory empties it. `changed` are the pages set since then. Nobody in
the repository calls `paging_set` yet; the model's callers set pages outside of the
heap, since a kernel that unmaps its heap cannot go on. `Paging` implements
`AddressSpace`, whose spaces are what a walk of each directory gives.

## 3. Runs

| run | module | bounds | shows |
|---|---|---|---|
| `heap` | `Heap` | 5 blocks of 2 bytes, a word of 16 values, 6 sizes | allocations stay apart, the table is exact, each call is a step of the abstract allocator |
| `heap_short_grant` | `Heap` | the same | **violated**: a short run at the end is handed out |
| `heap_interrupt` | `HeapInterrupt` | 5 blocks, 5 sizes, 2 scrolls of 2 rows | the loops compute what `Heap` says and return; what the main line holds survives a handler that allocates in the middle of its calls |
| `kernel` | `Kernel` | 6 x 5 cells, memory for 16 rows, 3 numbered lines, 2 keys and 1 tick, binary digits, `R` = 4 | every step and every interrupt finds what it needs, requests are answered, the screen is the end of an endless page with all numbers in order; a character below it needs a key during a line on the last row, or during a scroll |
| `disk_stream` | `DiskStream`, `FittingSpec` | 9 sectors of 4 bytes, reads of up to 10 bytes | aligned or one-sector reads deliver the right bytes and return |
| `disk_stream_straddle` | `DiskStream`, `Spec` | the same | **violated**: an unaligned read over a sector's end takes bytes from behind the buffer |
| `files` | `Vfs` | 3 slots, 4 opens, 28 blocks; 2 files, a directory of 2 blocks and an unreadable one | open files stay whole and apart until slots and memory run out; with memory for one more file the calls are steps of the file service |
| `clock` | `Rtc` | 4 starting dates, 30 hours, sleeps of 1 and 2 hours, 2 updates a call | no torn time, right days and hours since each epoch, no short sleep, calls return |
| `path_parser` | `PathParser` | limit of 8, paths of up to 11 characters | components, buffer, memory, termination |
| `fat16` | `Fat16` | 3 slots, 3 clusters of 2 sectors of 2 bytes, fields of 2 and 1 characters, 4 entries, 7 paths; a block of 4 items, 0 or 2 counted behind a full directory | the file of the name or none; first-cluster reads |
| `fat16_chain` | `Fat16` | the same with 2 entries, 2 values for stray words | **violated**: the cluster for an offset behind the first one |
| `paging` | `Paging` | 4 tables of 4 pages, a heap of 12 blocks with 2 address spaces, all free or 2 held by other code; 2 pages set and looked at | tables apart and reachable, calls map to `AddressSpace`, accesses follow the tables |

Why the bounds are enough. Five blocks hold two allocations of different length
with a hole before, between and behind them, which is every situation the search
distinguishes; the sizes need one, two, three and four blocks, none, and
wrap around to none. Five screen rows are the fewest that the lines
before `kheap_init` fit on (the code's 25 rows leave twenty to spare; see section 5), and
the boot alone scrolls many times; two keys are one more than the first loss needs, and
the tick lets one line wait while another is served. Nine sectors with binary registers
need all four registers; the longest read recurses twice. The file run reaches a
full table, a full heap at the allocations of `fopen`, and a second opening of
the same file. The clock starts one or two hours before the end of a century, of
February in a leap year that the code misses and in one that it knows, and before
the noon of the last day of a month; 30 hours are what a sleep takes over the lost
day; two updates spoil two passes. Path limits are crossed by one, two and three
characters, with slashes and ends at every place. Three slots give a deleted slot
before, between and behind files and a full directory, whose count ends inside of the heap block
or leads out of it; two clusters are the
shortest chain that has a link; the entries are a name that leaves room, one that fills its
field, one with a letter-like attribute behind a full extension, and a directory. The two pages of `paging` lie in different tables
at different places, and the second address space is made both before and after
paging is on, behind the tables of the first or between them.

Fairness. `WF` on the steps of a running call: the processor goes on, and the
handler returns. `WF` on `DriveReady`: a drive that got a command raises DRQ some
time; `read_sector` has no timeout, so without that it never returns. `WF` on the
steps of the clock: an update ends and the next one comes, without which a `sleep`
waits for ever; `MaxTicks` says that updates are rare compared with port accesses
(one a second), without which no two passes need agree. In `Kernel`, `WF` on the main line
and `WF` on taking a pending interrupt: the processor looks at its interrupt line before each
instruction. Lines are raised finitely often (`MaxEdges`), so that they cannot keep the main
line from running. Nothing is assumed about when a caller calls or a key is pressed.

Deadlock is checked except where the system may stop: in the kernel (it
halts after its last text, or panics), in the files (the number of opens is bounded) and in the
path parser (when the path is parsed).

## 4. Proofs

All theorems hold for every value of the constants that the module's assumptions allow.

**Heap** (`HeapProofs`): `TypeOK`, `Disjoint`, `TableExact` and `ChainExact`.
`Disjoint` alone is not inductive: a search that finds free blocks
gives disjoint extents only if "free" means "held by nobody", and that is
`TableExact`. `TableExact` is preserved by a free only if the flags describe the
extents, and that is `FlagsExact`: inside the table, a held block carries HAS_NEXT
exactly when it is not the last of its allocation. The inductive invariant `IInv` is
the four together. `GetStartBlock` says what the search
returns (a free run, long enough or reaching the end of the table), using
well-founded induction on the naturals for "the first"; `ChainIsExtent` says that
the freeing loop visits exactly the allocation.

**Heap implements its allocator** (`HeapProofs`): `Spec => ImplementsActual`. The
mapping decodes allocations from flags, so it needs one more invariant, `FirstExact`:
IS_FIRST stands exactly where an allocation begins. With it `DecodeIsRuns` says that what is
decoded is what the callers hold, and each of the outcomes of a call has a lemma of its own
(`RefusedStep`, `NothingStep`, `GrantedStep`, `ReleasedStep`).

**The interrupted heap** (`HeapProofs`): `Disjoint`, `HeldChains`, `HandlerApart`,
`LostOnlyInHandler` and `Atomic`, with the handler between any two entries. The handler allocates
and never frees, so `SafeInv` may claim all that the main line has marked (`HeldFlagged`, `Taking`,
`Freeing`) and that nobody holds the run a search is counting (`Searching`, `Granting`); it must not
claim that the run is still free, since the handler may have taken it, and the main line then
overwrites the handler's blocks, which nobody frees. `NextRowGrows` and `RowsGrow` say what a scroll
does to a table: its recursive function is shown to be defined, row by row, with `SetInduction`.
For the lost blocks, `LostBounded` counts what is taken and not owned, where the main line owns a
block from the moment it marks it until it clears it: only a scroll adds to that, a block for each
row. `Atomic` needs `Progress`: as long as nothing interrupts, what a loop has scanned holds no run
long enough and what it has written is what `Heap` writes there, so that the step which returns is
the one step of `Heap` on the table the call began with.

**Disk streams** (`DiskProofs`): the reads of `FittingSpec` deliver the disk's bytes
(`ReadsBytes`). The invariant says that what is still to be read fits, and that the four
registers, put together again, give the sector of the present position (`RegistersAddress`).
What has been delivered and what is still asked for then always make up the same stretch of the
disk (`RoundKeepsDelivered`), so that the last round is the one step of the abstract read.

**FAT16** (`DiskProofs`, which extends `Fat16` and `DiskStream`, so no name is in both): `OpensFile`
and `ReadsFile`, from `Geometry` and `NamesFit`. The invariant `FatInv` says of the disk that unused
slots are at the end and that no two files have the same path, and of the mount that the directory
in memory is that of the disk and that every file in it is counted. That last bound is all the code
needs and all it has: the slots before a file are as many files as long as none of them is
deleted, so its slot is not beyond the count (`OpenStep`). Between the last slot and the end of
the heap block nothing matches, since what is there is zero (`MatchesAre`). That nothing else is found is a question of
names: a name that leaves room in its fields is read back as it was written (`NameReadBack`), and
one that does not has its dot, if any, where no name that does can have it, or is longer
(`NotTakenFor`); so the matches of such a name are one file. A read is three recursive functions inside
each other. As far as the first cluster goes the walk along the chain takes no step
(`FirstCluster`), there is at most one round (`OneRound`), and what it reads fits its sector, for
which `Fat16` and `DiskStream` deliver the same bytes (`StreamBytesAre`). `ClusterPosition` takes the
sectors of the code to the bytes of the layout, and `NextMember` carries the result from each
member to the next.

**Files** (`VfsProofs`): `TypeOK`, `OpenFilesIntact`, `OpenFilesApart` and
`ImplementsFileService`. An open file is a chain of blocks, and nothing in a block says whose it is.
The invariant `IInv` says of every slot which descriptor it can hold, of every open file that its
chain is whole, and of two blocks of the same kind on two chains that they differ; that blocks of
different kinds differ is plain. The rest of the argument is one idea: all that `parse_path` and
`fat16_open` do before a descriptor is handed out is to write to free blocks (`Extends`), whichever
of their allocations fails, and `kzalloc` hands out no block in use. The components of a path are
taken by a recursive function, and induction over it shows that it extends memory. The refinement
counts as well (`Room`): three blocks pay for a path of one part, four for an open file, and what a directory loses is one block and those of
its items (`LoadRoom`), so that with `Enough` an `fopen` of a file that exists can only fail for
want of a slot; and the slot's number is the descriptor that the
file service hands out, for the file that was asked for.

**Descriptors** (`KernelProofs`): what `encodeGdtEntry` writes, the processor decodes to the same
segment, for each segment that is not `Invalid` (`DecodesEncoded`). The argument splits the base
and the limit into digits of the radices of the fields.

**Boot** (`KernelProofs`): each step comes after what it needs (`StepsInOrder`), an interrupt is
allowed only when all is ready for it (`InterruptsAlwaysReady`), and the segments that are
loaded are those of the source (`SegmentsLoaded`). The invariant lists, for each value of `at`,
what is up. That nothing scrolls before there is a heap (`NeverTooEarly`) needs what is known
of the screen too: `BeforeHeap` counts the row of the cursor, the texts in `todo` and the running
call together, and there are three when `gdt_load` runs and five when `kheap_init` does or a panic.

**Screen** (`KernelProofs`): `OffScreenOnlyWhenTorn`. The cursor goes down once per call only if
no text wraps, and a text wraps only if it does not fit behind the column where it goes on. That
column is in `col`, or in `reg` between a load and its store, and the handler sets `col` to 0 at any
time: `Columns` says that what is left of the text fits in each of these places, `Unprinted` that
all texts to come are lines, or the two parts of a panic, or the last message. `Rows` is then what
is asked, with the copies of the cursor (`y`, `reg`). `KeyTextPrints` takes the handler's recursive
`printc` through its line.

`ShowsPage` follows the rows (`ScreenShowsPage`). `Now` is the page as `gone`, the screen and the
cursor show it at any moment. The invariant `PageInv` says that until an interrupt has printed in a
running call the cursor is in the screen or one row below it, the rows below the cursor are blank
(`Proper`), and `y`, `reg` and `col` agree wherever one is used for another (`Steady`); `PageLines`
itself knows which rows a scroll has copied. Then each step that writes a character writes it on the
page, and all the others, each row of a scroll included, leave `Now` as it is; the handler's text
between two calls is one `Write`.

`CountsUp` is about that page (`NumbersCountUp`). `NumeralRight` says that `inttostr` is right: for
any digits, two or more, and any number from 0 on, it gives digits only, and those denote the number.
The page grows by characters and the property counts lines, so `CountInv` keeps both: the page
`Ends` in a text without a new line, the lines above it show the numbers below `Done`, and that text
together with what the running call has left is the line of the next number or no number at all
(`Unfinished`). A new line then adds one number or none (`TypeEnd`), and a handler's line, which comes
between two calls or counts as `mixed`, adds none.

**Paths** (`PathParserProofs`): a part never leaves its buffer (`PartFits`), and each block that was
taken is in the list or free again (`NothingLost`), for paths of any length. `ParsesComponents` says
that the list is the components of the path. Its invariant follows the cut: what has been copied to the
buffer is the stretch of the path since the last end, the parts in the list are the first components,
and none of them was empty. `EndOf` is a recursive function; that it exists and that a component lies
between two of its values (`EndsDefined`, `ComponentEnds`) is proved first.

**Clock** (`RtcProofs`): `TypeOK` and `TimeWasTrue`, for each mode of the clock and any updates.
A register that is read is that of the newest date of the call or, within an update, of the date
before (`ReadIsOfPass`). What is proved of the passes (`Passes`) is only between which dates of the
call each value was read. That is enough: the hours differ between any two dates of the call
(`HoursTellDates`, from the 22 updates that the assumption allows), so two passes that agree have both
read the hours of the date at which the second began; another register that differs from that date's
would have to do so before and after it, and midnight comes once (`OneMidnight`). `DateBack` takes the
registers through BCD, the flag of the afternoon and the century, back to the date. The assumption
keeps the clock below 2038: `Index` is a bound on dates that rises by at most one an hour.
`UtimeRight` is then a fact of the calendar alone: the loop over the years and the one over the months
(`UtimeCounts`, by induction over each) count the days of `DaysSince1970` on either side of the
lost one.
`SleepsLongEnough` needs to know where `end_utime` can be (`EndFarEnough`): the seconds of `utime` rise
by at most 3600 in an hour (`Paced`), through the ends of days, months and years and through
February 2000, where they fall; so `end_utime` is always as far from a date as the sleep has still to
last at that date, and the first such date is one since `sleep` was called (`Sleeping`).

**Paging** (`PagingProofs`): all six properties of the run. The difficulty is a circle: the kernel
edits its tables through the translation that these tables define. The invariant `PInv` says
where every table lies (`Located`; that `FirstFit` gives each of them a block of its own is
`FirstFitApart`), that directory words point there, and that the heap, where the tables
are, is mapped onto itself; `ReachedItself` closes the circle: a write to a table reaches that
table. `SameIndexes` says that two pages with the same indexes are the same page, so that setting
one changes no other. From there, each call is a step of `AddressSpace`.

Recursion. A recursive function `f` of the models is a CHOOSE until it is shown that a function with
these values exists; `SetInduction` of `NaturalLemmas`, which takes a set and not an operator, is
what shows it and what then carries a fact from `f[k]` to `f[k + 1]`.

Only model-checked: liveness, whose fairness and ENABLED are beyond the prover (`CallsReturn`,
`Answered`, `ReadsReturn`, `ParsingEnds`). Every other property that a passing run checks is also
a theorem.

## 5. Observed and not claimed

Behaviour of the code that contradicts no sentence of the repository, so no run
refutes it, but that a reader of the models should know:

* A key pressed while the main line prints on the last row can take `row` past
  `VGA_HEIGHT`; the overflow test is an equality, so the console never scrolls
  again and writes on below the screen. `OffScreenOnlyWhenTorn` names the only places
  where the key must come for that.
* `copy_row` loses a heap block per row: 24 for every line printed on a full
  screen. 25600 blocks last for about a thousand lines.
* `fread` does not move the position, `SEEK_CUR` checks the offset and not the sum.
* `fclose` never empties its slot nor frees the descriptor, so descriptors are spent
  and a second `fclose` frees blocks that may belong to somebody else.
* `fopen` loses the parsed path each time.
* `new_file_descriptor` numbers the slots from 1, as its comments say (`vfs.c:56`,
  `vfs.c:73`), and `get_file_descriptor` refuses numbers from `MYSTOS_MAX_DESCRIPTORS`
  on: the last slot's descriptor is given out and then refused by every call.
* In a full root directory the scan counts what it finds in the data behind it. If that is more
  than 64 items, the search reads heap memory behind the loaded directory as items, part of which
  is the path it searches for, and may open a file that does not exist (`Debris`).
* An `fopen` without enough memory can give out a file without its directory item, whose size and
  cluster are then read at address 0, or a descriptor whose slot stays empty.
* The count of the root directory leaves deleted slots out and the search does not, so
  the files at its end are missed, one for each deleted slot (`OpensFile` promises the
  file only when no slot before it is deleted).
* `fread` is limited neither by the file's size nor by the rest of the cluster it
  starts in.
* A `sleep` that begins in the middle of a second is shorter by what had passed of it:
  `SleepsLongEnough` counts changes of the clock.
* After `time()` interrupts stay off: the `sti` of `get_RTC_register` stands behind its
  `return`. `interrupts` in `Rtc` never becomes TRUE again.
* On a 12-hour clock noon becomes 0 and midnight 12, although `cmos.c:92` speaks of a
  conversion to the 24-hour clock; a `sleep` over midnight is then too short
  (`TimeWasTrue` and `SleepsLongEnough` leave these cases out).
* `utime` is a day short since March 2000 (`Epoch` in `Rtc`); at that moment a
  `sleep` takes a day longer. A clock without a century register is taken to be in
  the twenty-first century.
* A path is parsed up to its first empty component: `0:/a//b` opens `0:/a`.
* A page set since the last `page_switch` may still be reached at its old frame, or not
  at all; `AccessFollowsTables` leaves such pages out.
* The name of an item is read until its field's padding, and a name or extension that fills its
  field runs on into the next one. `ReadsBack` in `Fat16` says which files can be opened by their
  own name; the others are found only under what their fields make when glued together.
* A directory is opened as a file of size 0, and every path of two parts is refused, since
  `fat16_new_fat_item_for_dir_item` sets an item's type to file last.
* `fs_resolve` logs `fs -> name` before it tests whether there is an `fs` (`vfs.c:85`), so
  for a disk without a file system it prints what lies behind a null pointer before the panic.
* `hex` does not end its buffer: what lies behind the digits on the stack is printed with
  them. The buffer of `check_fs` is not ended either, and the comparison takes its length from
  it.
* `strtoint` tests one character and converts the one behind it, so it meets the final
  zero and always fails; `inttostr` asks for one byte too few for negative numbers; `strcut`
  writes through a pointer it never sets; `panic` turns a string literal into small
  letters in place. Nothing that runs today depends on the first three.
* The first interrupt controller is told of four words of initialisation and gets three; the
  second is not remapped. `no_int` and the keyboard handler acknowledge the first only, so a
  line of the second that was served stays in service there. `IRQ_ack` acknowledges the
  second for lines from 12 on, not 8, and `setIRQ` expects it at vector 0x82 (no callers).
* `INT21H` does not read port 0x60, without which the keyboard sends no second key.
* `gdt_load` and `idt_load` differ: the first passes the size of its table where the processor
  expects the last offset, and the TSS's limit is its size too.
* On a screen of fewer than five rows, the lines before `kheap_init` would scroll and
  so take heap blocks before there is a heap (`NothingTooEarly`, `ScreenAssumption`).
* `paging_new_4gb` and `time` do not test what `kzalloc` returns; the structure of `time` is
  freed by `utime` only.
* Seconds since 1970 are an `int` and overflow in 2038.
* `relative_time` carries when the sum of subticks is greater than 100, and not at 100.

## 6. Not modelled, and what could follow

Not modelled: the boot sector (straight-line code in 16-bit mode, before any state of the
kernel; its loader speaks to the drive as `disk.c` does); what is in the task state (constants
that nothing uses, since the kernel stays in ring 0); the tick counters, `relative_time`,
`setIRQ` and `IRQ_ack`, and `strtoint`, `strcut` and `find`, which nothing calls;
`memset`, `memcpy` and `memcmp` as such (part of the actions that call them); colours, log marks
and wording; SHA-1 (third-party code that the Makefile does not link).

Compositions that are made by assumption and not by module: `Fat16` takes stream reads from
what `DiskStream` is proved to deliver (`DiskProofs` has both and compares them); `Vfs` takes its blocks from a set, which is what
`HeapProofs` proves a heap to be; `Kernel` and `HeapInterrupt` each have the handler, one
for what it prints and one for the blocks it takes.

Proofs that could follow: that `CorrectCluster` holds of a code that adds where
`fat16_get_fat_entry` multiplies, and with it reads beyond the first cluster; and that `Fat16` and `Vfs`
are one file system, by a mapping of the item a descriptor leads to onto the one that `Fat16` finds.
