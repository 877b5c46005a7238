# BasicOS-Hue in TLA+

BasicOS-Hue is a 64-bit kernel that UEFI starts as an application. It takes the
memory map from the firmware, leaves the boot services, builds its own page
tables, and runs an init program in ring 0 that forks and yields through software
interrupts. This directory models the parts that keep state, checks them with TLC
and proves what can be proved with TLAPS. Paths below are relative to `src/src/`.

## 1. The system

| Component | State | Operations | Hard about it |
|---|---|---|---|
| Page allocator (`memory.c`) | `first_free_page`, the first word of every free page, present bits | `allocate_page_inner`, `allocate_page`, `deallocate_page`, two loops of `init_memory` | the list lives in the pages it manages; a present bit is cleared without `invlpg` |
| Page tables (`memory.c`) | `pml4_table`, the table pages, `max_addr`, cr3 | `allocate_tables`, permissions, framebuffer, `map_page`, `create_memory_entry_for` | tables are taken from the list while the list is being changed; entries inherit what was there |
| Heap (`memory.c`) | `freep`, `brk`, headers in memory | `kmalloc`, `morecore`, `kfree` | pointer arithmetic, unsigned sizes, zero and off by one |
| Processes (`process.c`, `handlers.c`) | `ps[16]`, `current_process`, `running_processes` | `start_init`, INT 35 (fork), INT 36 (yield), INT 38, INT 33 | the table's limit; whose context is saved where; no stack at first |
| Serial port (`serial.c`) | the UART and its FIFO | `init_serial_port`, `serial_port_write` | IRQ 1 prints in the middle of a print |
| Interrupt table, APIC (`interrupts.c`, `acpi.c`, `handlers.c`) | IDT, I/O APIC entry, PIC masks, MADT walk | `init_apic`, `init_interrupts`, IRQ 1 | table loaded before it is filled; a key at any moment; firmware tables trusted |
| Memory map (`uefi.c`, `memory.c`) | buffer, its size, map key | `efi_memory_map`, `efi_realloc_buffer`, `ExitBootServices` | retry against a firmware that changes the map; pools that cannot be had |
| Graphics (`graphics.c`, INT 39) | mode, framebuffer | `select_mode`, `set_pixel` | choice among modes; drawing of a fixed size |
| Init program (`init.s`) | two processes' places and stacks | INT 34 to 39 in a fixed order | correct only if turns are taken in one order |
| Exceptions, GDT, CPU, library, `main.c` | registers | straight-line code | undefined behaviour in inline assembly |

How they interact: everything is called synchronously on one processor. `efi_main`
initialises the components in order and enters init, which never returns. `map_page`
and `allocate_tables` take pages from the allocator; `morecore` and `start_init`
call `allocate_page` and then `map_page`; INT 37 calls `kmalloc`. All INT handlers
run with interrupts off (interrupt gates), so that the only interleavings are with
hardware: IRQ 1 (the keyboard), which interrupts processes and the kernel's own code
before init starts and whose handler writes to the serial port and touches nothing else;
and, until the kernel's interrupt table is loaded, the firmware's timer, whose events may
allocate memory and poll the keyboard. Everything shares one address space, so that the
components meet in physical memory and in the UART. What makes each component correct is stated with its module in section 3;
PROJECT.json lists the hazards line by line.

## 2. Modules and plan

| Module | Built on | Proofs | Instance for TLC |
|---|---|---|---|
| PageAllocator | implements PagePool (abstract) | PageAllocatorProofs | itself |
| Paging | implements PageAllocator | PagingProofs | MCPaging |
| Processes | implements RoundRobin (abstract) | ProcessesProofs | MCProcesses |
| Graphics | | GraphicsProofs | MCInitProgram |
| InitProgram | extends Graphics, instantiates Processes | InitProgramProofs | MCInitProgram |
| Interrupts | | BootProofs | MCBoot |
| Boot | extends Interrupts | BootProofs | MCBoot |
| Heap | | HeapProofs | MCHeap |
| Serial | | SerialProofs | MCSerial |

"Implements" is a property `Implements...` of the module, which instantiates the abstract one
with a refinement mapping. InitProgram and Boot are compositions: their next-state relations
contain the actions of the modules they are built on. An operator whose comment begins
"Mutant of" changes the action after it the way a plausible bug would; PROJECT.json pairs it
with a property that then fails.

Done: the modules above. Planned, in this order:

1. In `PagingProofs`, the refinement of PageAllocator (`ImplementsAllocator`), which needs
   the distance of a free page from the end of the list, for every machine.
2. `SerialFormat`: `serial_print_int` and `serial_print_hex` against positional
   notation.

## 3. What is modelled, checked and proved

### PageAllocator (abstract: PagePool)

State: `first_free_page`, the first word of each page (`link`), its present bit, and
which cleared present bits the TLB may not have noticed (`stale`). `phase` is the
place in `init_memory`. `managed`, `pages`, `tables` and `depth` are history: the
pages ever given to the list, those `allocate_page` handed out, those taken for page
tables, and each free page's distance from the end of the list. One action per loop
body or function; `UsePage` lets the owner of a page overwrite its first word, as a
word of user data or a table entry may look like any link. The owners are the heap,
`start_init` with init's image, and the page tables; `UsePage` lets each write anything,
which is more than they do.

Run `allocator` (2 conventional pages, 2 of boot services code, in any order):
`FreeListSound` says that the list runs through exactly the free pages, each once;
`HaltsOnlyWhenExhausted` that no page drops off it (memory.h:43 says that NULL is returned
where the code halts; the property holds of either); `AllocatedPagesUsable` that pages
have one owner and stay mapped; `ImplementsPool` that the whole is a pool. Two pages
of each kind give lists of length 4, every order, and pages that come back while
others are out; the proofs below cover any number.

Run `allocator_invalid` refutes "Never returns NULL or otherwise invalid pages":
`allocate_page` makes a page present before it reads the link, but
`allocate_page_inner(k, true)`, which serves page tables, does not. After boot services
code was reclaimed the front of the list is not present, and the first page table taken
from there faults, unless the TLB still has the old translation.

Proofs (`PageAllocatorProofs`), for any sets of pages: `Invariant` (`IInv` is
`TypeOK /\ FreeListSound /\ AllocatedPagesUsable`), and from it `TypeCorrect`,
`FreeListStaysSound`, `AllocatedPagesStayUsable`, `NoPageLeaks` and `RefinesPool`.
The list is followed without recursion: `depth` numbers free pages from the end, links
go down by one, no two free pages have the same number and none is above the head.
That makes "every free page is on the list" inductive, where reachability along links
would need induction over the list. The assumption is `PagesAssumption`: the two sets
are disjoint and do not contain page 0 (memory.c:205; were page 0 conventional, its
address would read as the end of the list).

### Paging

Physical memory word by word, in which both the free list and the tables live. A word
is a page number with flags; addresses are page numbers; a table has `Fanout` entries
where the machine has 512. `init_memory` is a sequence of loops (`pc`, `n`, `j`);
`allocate_tables` builds one table per step in the order of its recursion;
`create_memory_entry_for` goes down one level per step (`job`), since each level may take
a page. `Accessible` is the processor: before cr3 is loaded everything is, afterwards
what the tables or the TLB say. A fault or an empty list stops the machine.

Run `paging`: a machine of 16 pages, tables of 8 entries, a framebuffer beyond memory,
and up to 3 pages each mapped for init and the heap. `TranslationSound` says that memory
is mapped to itself or not at all, page 0 not at all, the framebuffer completely, and
each page where `map_page` put it; `TablesAreATree` that no page is a table twice, or a
table and data; `WalkStaysInTables` that a walk never leaves the tables;
`CodeAndDataProtected` what holds of the permissions. `ImplementsAllocator` maps the words
back to PageAllocator. The state space is small (515 states) because `init_memory` is
sequential: the nondeterminism is in the TLB and in the order of mappings. The bounds
make each case happen: a second level 0 table, new tables for each region, running out
of pages, a fault on a reclaimed page, a shared upper table.

Run `paging_large_memory` refutes "Map a single page to a specified address": addresses are
ORed into an entry in use. Three more disagreements have a configuration each (section 5).
`MCPagingFree.cfg`: "all the unallocated memory is, obviously, not present", but the branch
that is to make it so never runs (memory.c:155, `|` for `&`). `MCPagingExecutable.cfg`: pages taken for
tables "should stay present, but not executable", but the pages of a descriptor are counted
from 1, so that its first page stays executable and the one behind it loses that
(memory.c:153); the machine has its conventional memory in two parts, of which the second is the first to
be used for tables. `MCPagingLeftover.cfg`: `Leftover`, the word that the firmware leaves everywhere in free
memory, is zero elsewhere; if its present bit is set, a walk leaves the tables (`EntriesLeadToTables`), as
`allocate_tables` writes only the entries it needs and clears nothing. `WalkStaysInTables` says that there is
no other way out.

The instances keep code away from the end of conventional memory; right behind it the count from 1 makes code non-executable.
`MapFrameBuffer` maps one large page more than the buffer has when its size is a multiple of a large
page's (memory.c:189); `TranslationSound` speaks of the buffer only, and no comment of what is
behind it.

`AllocateTable` writes the entry for a table when the table's page is taken; the code writes it
when the tables below are complete (memory.c:310-313). Nothing reads these entries in between: cr3
is loaded later, and the walks of `init_memory` start after the recursion.

Proofs (`PagingProofs`), for every memory map, framebuffer, size of a table and set of
regions that satisfy `Apart` and `Blank`: `TypeCorrect`, `TranslationIsSound`, `TablesStayATree`,
`WalkInTables` (of which `Blank` is a part) and `Protected`, each from `InvHolds`. Both are hypotheses of the theorems, not
assumptions of the module, because the machines of `paging_large_memory` and `MCPagingLeftover.cfg` do not meet
them; they are what `init_memory` takes for granted, and the theorems say nothing of other machines.
`Apart`: memory ends below the regions (`paging_large_memory` shows what happens otherwise); the
framebuffer starts at a large page and its large pages are neither memory nor a region; four
indexes are enough for every address; a conventional descriptor is not the one that ends
highest (its pages are counted from 1, and the entry behind the last would be one of a table
that was never made). `Blank`: no word left by the firmware has its present bit set
(`MCPagingLeftover.cfg` shows what happens otherwise). TLC checks that the machine of `paging` is `Apart`
(`ApartAssumption`).

The invariant is about places. The table of level l that translates the addresses v with
`Up(v, l + 1) = q` is at place q of that level, whether it is there or not. `Inv` says that
there are `live`, the places of the tables that exist, and `at`, their pages, such that
no page is at two places, each table hangs in the entry that is its place, and a present entry
above level 0 leads to the table of its place or is a large page of the framebuffer (`Tree`).
With that a walk from the pml4 table cannot arrive anywhere but at the place of its address
(`OnPath`), so that two addresses share an entry only if they are equal (`OneEntry`), and what a
step writes through one entry changes the translation of no other address. The other conjuncts
say what the entries of level 0 hold (`Leaves`: memory its own address, everything above what
`map_page` put there or nothing), which tables exist (`BuildInv` for the recursion of
`allocate_tables`, `CoverInv` afterwards), that tables whose entries the framebuffer took over lead
nowhere any more (`Orphans`), and how far each loop has come. `ListInv` keeps list and tables
out of each other's words: every link of a free page leads to a free page, no two to the
same one, none to the head, and no page that is not a table has a word with its present
bit set. `live` and `at` are quantified in the invariant, and each step that makes a
table (`AllocateTable`, `WalkDown`) or cuts one off (`SetFrameBufferEntry`) gives the new ones. That
the `Links` form no cycle is not part of it; `ImplementsAllocator` says so and is only model-checked.

`CodeAndDataProtected` is about pages that the memory map describes: allocate_tables maps the
gaps between descriptors writeable and executable and no loop touches them again.

### Processes (abstract: RoundRobin)

State: the table of `process.h` (`ps`, `current_process`, `running_processes` as a set of
bits) and the two registers INT 36 switches. A process between two interrupts may do
anything to its registers (`Execute`); a handler is one step, as its gate turns
interrupts off. `Fork` past the last slot writes `ps[NSLOTS]`, which is
`current_process` and the mask: the low byte of the entry point, and zero or the old
mask, depending on the order the compiler chose. From then on `current_process` may
name another process's slot, whose saved context the next yield overwrites, or none: then
`YieldOutside` ends in `lost`, as handlers.c:199-201 writes behind the table, to memory that is not in
the model. `InterruptWithoutStack`: a process is
entered with sp 0, and an interrupt before it has set up a stack resets the machine.

Run `processes` (3 slots, 4 forks, 2 code addresses, 2 stacks; 2 forks fill the table, the
third is the first without a slot, the fourth works on what that one left; the low byte of one
code address is a slot, that of the other none):
`TableSound`, `YieldReturns` and `ImplementsRoundRobin` hold until a fork finds no slot
(RoundRobin allows anything after it). After that nothing is claimed: contexts do get lost.
`YieldingStarvesNobody` is a liveness property whose fairness is its own antecedent:
processes are cooperative, nothing makes one yield, so it says that *if* yields keep
coming, every process in the table has its turn. `Spec` itself has no fairness.

Run `processes_forks` refutes "Up to 16 forks": the 16th finds no slot, as the first
process has one.

Proofs (`ProcessesProofs`), for any number of slots, programs and forks: `TypeCorrect`,
`TableStaysSound`, `YieldAlwaysReturns` and `RefinesRoundRobin` with the invariant `IInv` (types, `TableSound`,
`YieldReturns` while `forks < NSLOTS`). The lemmas `NextFreeSlot` and `NextInTurn` say what
`__builtin_ffs` and the scan of INT 36 find.

### Heap

Memory as words one byte wide, so that a header is 2 bytes, addresses wrap around at `M`,
and adding `n` to a header pointer adds `2 * n`, as the C code's arithmetic has it at 16.
`Kmalloc` starts a request, `Morecore` is a round of the search that came back to `freep`,
`TakeBlock` one that found a block; the search itself is `Stops`. Pages are consecutive
in the heap's virtual addresses, so the physical ones do not appear.

The code breaks its heap in three ways. It takes a block that is not large enough as it
lies: the rest is smaller than a header, or the last block of a `morecore` counts its own
header and ends behind the mapped pages. It merges blocks by pointer arithmetic: `a +
a->s.size` lies a header's size times too far, so neighbours stay apart and blocks that
are not neighbours may join. And it does not refuse `kmalloc(0)`: `base`, whose size is 0, is large
enough and is handed out, though it belongs to the list and not to the heap. The history variable
`sound` turns `FALSE` at the first such step. The properties say that there is no fourth way:
while `sound` holds, blocks are disjoint and mapped (`BlocksDisjointWhileSound`), the free list is
one cycle in the order of addresses through mapped headers (`ListCircular`), every header is
found behind the block before it (`NothingLost`), and the loops end (`NeverSpins`).

Run `heap`: three pages of 6 bytes, requests of 0 bytes, 1 byte (many small blocks) and 5 (which
`kmalloc` takes two pages for), in every order with every order of frees, up to and
including the first unsound step. All three kinds of unsound step, exact fits, splits, an
extension by one page and by two, and running out of pages occur. Two caveats:
with headers of 2 bytes the merge test is right for one size, 2 (`2 * 2 = 2 + 2`); with
headers of 16 it is right for none. And what an unsound step leaves behind is explored by
`heap_boot` and `MCHeapZero.cfg` only. That neighbours are not merged is no violation of these properties.

Proofs (`HeapProofs`), for every width of a word, page size, heap size and set of requests that
satisfies `HeapAssumption` (the heap, with a header behind it, fits below the end of the
addresses; requests may be of any number of bytes, 0 included): `TypeCorrect`, in all states, and while the heap is sound `BlocksAreTheCallers`,
`ListIsCircular`, `NothingIsLost` and `LoopsEnd`. The invariant is `Shape`: the free list is a
set of blocks that memory links in the order of addresses, the last to `base` (`Cyclic`); every
header, free or in use, is followed by the next one or by the end of the heap (`Block`); the
block of a caller has the size that was asked for. It speaks of the set, not of a walk from `freep`, so
that an insertion or a removal changes it at one place. That the set is what the walk
finds (`BlocksFromIsAll`: a walk of a bounded number of steps meets every block) takes
induction, once, over addresses. `Intact` adds that pages which were mapped by a call that then ran out of
memory belong to no block. `LoopsEnd` follows since the order is cyclic: a place to insert at
exists (`PlaceFound`), and a search comes back to `freep`.

Run `heap_boot` makes the calls of `efi_main` itself (main.c:46-56), with 0x10, 0x1002, 1,
and 0x1001 bytes scaled to this machine, and refutes "a block of memory large enough": a
rest smaller than a header gets a size close to `M`. `MCHeapPage.cfg` refutes "Request for as many
pages as necessary": after a request of `PAGE - HDR` bytes the header of the rest goes behind the last
page, as the size of a new block counts its own header (memory.c:586). `MCHeapZero.cfg` refutes "looking for the
position in the list to place the insertion block": the `kfree` of what `kmalloc(0)` returned
on a fresh heap goes round for ever, as the only block, the next one and the one to be placed are all
`base`.

### Serial

The 16550's transmitter (FIFO, shift register), the kernel's `serial_port_write` byte by
byte, and `irq1_inner`, which prints three strings while the kernel's write stands still.

Run `serial` (FIFO of 3 for 16, writes of 0, 1, 3 and 7 bytes, 2 key presses):
`OnlyInterruptibleWritesLose` says that writes made with interrupts off (every INT) and
the handler's own lose nothing, `WritesReturn` that every write ends. Fairness: the
processor goes on (`Step`) and the port sends what it holds (`Load`, `Send`); nobody has to
print or press a key. Run `serial_interrupted` refutes "both the transmit FIFO and shift
register empty": after a key press in the middle of a burst they need not be. What may still be in the
FIFO then is the end of what the handler printed (it waits for the port before each of its bursts);
the kernel's burst overruns it if the port has not moved a byte to the shift register by then. The ports of both
runs have their FIFO on; one that the firmware left at the right speed with its FIFO
off is taken as set up (serial.c:83), and then loses bytes without any interrupt.

Proofs (`SerialProofs`), for any FIFO size, strings and number of key presses, from
`SerialAssumption` and the assumption `FifoOn` that a port that is taken as set up has its
FIFO on: `TypeCorrect` and `OthersLoseNothing`. The invariant says that a writer that has
seen the port empty finds only its own bytes in the FIFO (`OwnBytesOnly`), which holds of the
handler always and of the kernel only while it cannot be interrupted (`HandlerOnlyIfOn`).
`WritesReturn` is model-checked only.

### Graphics

`init_graphics` and `select_mode`: one mode of the firmware's list per step, in the order of the
list; `best` and `mode` are `most_appropriate_info` and `most_appropriate_mode`, and `i` is the
loop's. The code's condition is split into `TakePerfect`, `TakeBetter` and `Skip`; `Fail` is an
error of any of the three firmware calls. A mode is its size, its stride, and whether it has
8 bits each of red, green and blue. `SelectsBestMode` relates the choice to the whole list: a mode
of just the size wanted if there is one; otherwise none that cannot be used, unless the screen
is in it already; and of those that can be used none higher is left. Which of the two to take, a lower mode or
the current one that cannot be used, it leaves open. `AcceptedMode` does not: by "We only accept RGB or BGR"
and "we cannot use the mode" (graphics.c:43, 48) it is the lower one, and `MCInitProgramMode.cfg` shows
that the code stays where it is, since the current mode is the best one so far, whatever it is.

Proofs (`GraphicsProofs`), for any list of modes, any mode wanted and any mode to start in:
`TypeCorrect` and `SelectionCorrect`. The invariant adds what `best` is among the first `i`
modes (`BestSoFar`).

### InitProgram

`init.s` as blocks of code from one INT to the next, executed on the process table of Processes
(`P`, an instance with the program's places as code addresses) and the screen of Graphics,
which it extends; its own next-state relation is `SystemNext`. `Run` is a block, after
which `trap` holds the INT; the actions `int34` to `int39` are the handlers. `log` is the history of what the program prints, and `stray` that INT 39 drew
beyond the framebuffer.

Run `init` (every list of up to 3 modes of 6 kinds, with every current mode; the flag and the mode
wanted scaled to 3 by 3): `MarksInOrder` says that the two processes take turns so that their marks
come in the order the program is written for (`Turns`), with the text of init.s:13 before them or without it;
`FlagFitsTheScreen` that INT 39, which draws
1920 by 1080 pixels whatever the mode, stays inside the framebuffer if the firmware offers any
mode that can show the flag (on a screen without one it may draw outside, `stray`); `PowersOff` that init comes to INT 38 although the other
process never stops yielding. Three modes are enough for a better one before, between and
after two others. Fairness is weak, of `SystemNext`: the firmware's calls return, and one processor
executes one program.

`MCInitProgramHello.cfg` refutes "Try printing something" (`HelloFirst`): the program's first INT 34 does not
print "Hello". It passes its arguments in rax and rcx,
the handler (a function with the Microsoft calling convention) takes them from rcx and rdx,
and so prints from address 6, which is not mapped, unless rdx is 0 by then (init.s:14,
handlers.c:147-161). Both outcomes are in the model.

Proofs (`InitProgramProofs`), on a table of two or more slots, for every flag and all tables of modes:
`SystemTypeCorrect`, `MarksStayInOrder` and `FlagStaysOnScreen`. `MarksInOrder` says nothing of where
the processes are, so the invariant does: `Course` lists the 20 places the two are at together, each
with the registers, the other's saved context, and how many marks are printed; every step leads from
one of them to another, to a halt, or to a reset (`CourseInv`). `FlagStaysOnScreen` follows from `SelectsBestMode`,
whose inductive invariant is that of GraphicsProofs. `InitProgramAssumption` asks for the second slot
(the code has 16) and that the lines of a framebuffer do not overlap, which is what UEFI's
`PixelsPerScanLine` means. `PowersOff` is model-checked only.

### Interrupts and Boot

Interrupts is `init_apic` and `init_interrupts` step by step: an entry of the MADT per step, a
vector of the table per step, and the two halves of the keyboard's entry in the I/O APIC one
after the other. Beside it is the hardware: the keyboard's buffer (`data`, `full`), the
local APIC's request (`irr`), and `irq1_handler`, which reads port 0x60 until the byte is not
0. Boot puts it into `efi_main`: features the kernel asks for, graphics (only whether it fails),
interrupts, `init_gdt`, then `efi_memory_map` and `ExitBootServices`. The firmware is an action
too: until its table is replaced or the PIC masked, `FirmwareTick` may change the memory
map and take bytes from the keyboard.

Run `boot` (12 machines: one and two processors and I/O APICs in both orders, an entry that
ends the walk with an error, no I/O APIC, a MADT without entries, no MADT, no ACPI tables at all, and
one machine each without SSE, x2APIC, EFER and a PIC; 3 key presses of which any may send 0; maps of 1 to 4 descriptors; 3 tries for 32; the
vectors are the real ones, 0 to 255):

- `InterruptsFindHandlers`: although the table is loaded before it is written, and interrupts
  are turned on in three places, none can arrive before all vectors but 255 have their
  handler. Vector 255 is never written (interrupts.c:62 divides the limit, which is one less
  than the size); no source in the model uses it. `MCBootVectors.cfg` refutes "Set all interrupts to
  unknown handler first" (`AllVectorsSet`).
- `KeyNotForgotten` and `KeysRead`: a key that waits in the keyboard's buffer is one the
  processor is told of, so that the keyboard does not fall silent. Two conditions are needed, and
  are in the property: the MADT lists the boot processor and the keyboard's I/O APIC last
  (`ListedLast`; the code keeps the last of each), and no key was pressed before the I/O
  APIC's entry was unmasked (`early`; one that comes after the firmware's last timer event
  is neither signalled nor polled, and blocks the keyboard). Where they are not met the keyboard does
  fall silent, in the model as in the code.
- `ExitsWithCurrentMap`: `ExitBootServices`, called only once, is never refused, and what was
  counted is the map in the buffer. It holds because interrupts of the firmware are cut off
  by then. `GetMemoryMap` succeeds or finds the buffer too small, as the sizes fall out.
- `BootEnds`: the boot is over, or stops, whatever keys are pressed, except as long as
  `irq1_inner` waits for a byte that is not 0 with interrupts off (`WaitsOnZero`).

Three keys give one before, one during and one after the setup, or two of which the
interrupt of one finds its byte read already; three tries let the loop give up, succeed at the first try, and succeed at a
later one. Fairness is `WF_vars(Processor)`: the processor goes on; neither keys nor
timer events are ever owed.

`MCBootEmptyMadt.cfg` refutes, of a MADT without entries, that the walk reads only the entries the length
implies (`WalkStaysInMadt`): the code reads an entry before it asks for the length, so that it takes
what lies behind the table (`behind`, here something like an I/O APIC) for one; there it
ends, as every length is at least the 0 that remains. With entries the walk ends at the last one, since `left` is what remains of them. Without ACPI
tables `find_acpi_table` reads through a NULL pointer, and without an I/O APIC `ioapic_setup` writes to addresses 0
and 0x10; both may fault, and in the second case the boot may also go on with a keyboard that is silent.

What the boot may end in, in the model as in the code: the machine is lost when the PIC, set up
again with interrupts on, raises a timer interrupt at a vector the firmware knows nothing of
(interrupts.c:155-167), and it halts in a division by zero when the first pool for the memory
map cannot be had, as the status is still success (uefi.c:48).

Proofs (`BootProofs`), for any machines, keyboards, sizes of the memory map and numbers of tries:
`MapStaysCurrent` and `TableReady`. The first rests on an invariant that ties `idt` and
`status` to the place in the boot (`IInv`). The second follows the table through its three
parts: `UnknownUpTo`, `SoftwareUpTo` and `NamedUpTo` say what is written before vector (or
name) `n`, one lemma extends each by a step and one leads from each to the next, and
`QInv` that interrupts are off all the while.

The bytes that are left in the walk are those of the entries not yet read (`WalkInv`), or none when the
MADT has no entries and the memory behind it is read. The length of a table is a sum, so that this takes two
facts by induction: the sum exists (`LengthExists`), and it grows with every entry, as none is
empty (`LengthGrows`). A MADT whose length is not that of its entries is not a machine of the model, and
neither is an entry of length 0 (section 4). `NoKeyForgotten`: the ids kept are those of the
last entries read (`IdInv`, `LastOfAll`), so that on a machine with `ListedLast` the I/O APIC signals the
processor that boots; from the entry's unmasking on, every key that waits is in `irr` or about to be read.
`TypeCorrect` bounds the tries of `efi_memory_map` and the count of bytes left, too. `KeysRead` and
`BootEnds`, which are liveness properties, are model-checked only.

## 4. Not modelled

Registers other than ip and sp, and the flags (a yield passes them on to the next
process); 2 MB pages inside memory (the code has none); user mode (the kernel has none);
hardware flow control (compiled out); the text of what is printed (number printing
is planned, section 2); `fill_screen` and `add_gdt_entry`, which nothing calls. Double fault,
general protection and invalid opcode print one character and halt; what raises them is not
in the models, and neither are spurious interrupts (vector 255), NMIs, a firmware whose timer
is the local APIC's, or MADT entries of length 0, for which the walk never ends
(interrupts.c:185). Without the legacy PIC's flag the PIC is left alone, and its interrupts after
the new table is loaded would use whatever vectors the firmware chose; these are not in the
model. The descriptors of the GDT are not: the code works on an uninitialised pointer and
has its `kmemset` arguments swapped, and a model would consist of the undefined behaviour
alone. Of the library and the control registers only the effect appears, and of
the searches of `find_acpi_table` only what they find. `SetVirtualAddressMap` (memory.c:135-141), which may fail
and stop the boot, is not in the models. Liveness stays with TLC: TLAPS
has no rules for fairness and ENABLED in the version used. Induction is over sets, from the
least element of a set of naturals (the library's `WFMin`; `MinNat`, `SetInduction`): the library's
own induction theorems take a predicate as a parameter, which the installed provers cannot
instantiate.

## 5. Running

    tlc -config MCPaging.cfg MCPaging      # any pair of PROJECT.json's "runs"
    tlapm PageAllocatorProofs.tla          # or PagingProofs (ten minutes), HeapProofs,
                                           # ProcessesProofs, SerialProofs, GraphicsProofs,
                                           # InitProgramProofs, BootProofs

These configurations are not among PROJECT.json's runs. TLC finds the counterexample of each within seconds:

| Configuration | Refutes | Source |
|---|---|---|
| MCPagingFree | `FreePagesNotPresent`: "all the unallocated memory is, obviously, not present" | memory.c:155-156 |
| MCPagingExecutable | `TablesNotExecutable`: tables "should stay present, but not executable" | memory.c:153, 159-160 |
| MCPagingLeftover | `EntriesLeadToTables`, if the firmware left present bits in free memory | memory.c:307-318, 340 |
| MCHeapZero | `KfreeFindsPlace`: the `kfree` of a block of 0 bytes ends | memory.c:535, 601-603 |
| MCHeapPage | `HeadersOnPages`: "as many pages as necessary" | memory.c:572, 586 |
| MCInitProgramMode | `AcceptedMode`: "we cannot use the mode" | graphics.c:34, 48 |
| MCInitProgramHello | `HelloFirst`: "Try printing something" | init.s:13-16 |
| MCBootVectors | `AllVectorsSet`: "Set all interrupts to unknown handler first" | interrupts.c:62-64 |
| MCBootEmptyMadt | `WalkStaysInMadt`: the length "implies the number of Entry fields" | interrupts.c:186, acpi.h:35 |

`CHECK_DEADLOCK FALSE` is in every configuration: the machine halts, is switched off, or
has nothing left to do. The longest run, `boot`, takes about half a minute.
