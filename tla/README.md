# Verification of drastic

drastic is a small x86-64 kernel in C that is booted by Limine, with an
experimental range tree meant for its virtual memory manager and a build driver
in Go. This directory holds TLA+ specifications of all parts of the kernel that
keep state or compute something, of the range tree and of the build driver, TLC
configurations that check them on small instances, and TLAPS proofs of the safety
properties of all parts but the range tree, for every value of the constants.

## The system

| Part | Source | State | Operations | Used by |
|---|---|---|---|---|
| Physical allocator | `system/system_physical_allocator.c` | bitmap, stack of free pages, stack top, base, size; stored in the first pages of its own region | init, alloc, is_free, free | physical memory |
| Physical memory | `system/system_paging.c` 32-135, 364-462 | three linked lists of allocators (all, below 16 MiB, below 4 GiB), sentinel, first allocator outside 16 MiB | setup, physical_alloc (3 kinds), physical_free | page tables |
| Page tables | `system/system_paging.c` 137-360, 464-471 | the four levels of tables, cr3; the CPU's TLB | clone and switch, map, unmap | kernel start; nobody calls map or unmap yet |
| Range tree | `experiments/rbtree.c` | red-black tree and circular list over the same nodes, node pages, free list | init, insert, delete, find prev/next, clear, destroy | its own test program |
| Entry and setup | `main.c`, `system/system.c` | interrupt flag, output streams, the bootloader's responses | kmain, system_setup | boot |
| Descriptor tables | `system/system_{gdt,idt}.c`, `system_idt.S` | GDT and IDT data, segment registers | encode, setup, load | setup |
| Interrupts | `system/system_idt.c`, `system_idt.S`, `system_apic.c` | stack frame, legacy controllers | stubs, handler, disabling of the controllers | CPU, devices |
| ACPI | `system/system_acpi.c` | root pointer, root table | setup, count, get | setup; nobody calls count or get yet |
| Serial port and streams | `serial/serial.c`, `base/base_{stream,panic}.c` | the UART | init, write, read, kpanic, kassert, halt | all output |
| Format and logging | `base/base_{format,logging,string,bytes}.c` | position in the format, arguments taken | vformat, printf, logger_printf | all output |
| Memory routines | `memory.c` | none | memcpy, memset, memmove, memcmp | the code and the compiler |
| Build driver | `make/make.go` | downloads, goroutines, files | download, unpack, assemble, link, image | developer |

The kernel runs on one CPU. `system_setup` loads GDT and IDT, enables
interrupts, and calls `system_paging_setup`, which turns every usable entry of
Limine's memory map into an allocator, links the allocators into the lists,
copies the bootloader's page tables into pages from those allocators and loads
cr3. The interrupt handler ends in `kpanic`; it never allocates. So calls into
the memory code never overlap each other. What is concurrent is the hardware: the
CPU walks the tables and fills its TLB while the code rewrites them; exceptions
and device interrupts come between any two steps; the UART sends and receives
while the code polls it. `kassert` and `kpanic` write a message and halt for ever,
with interrupts still on.

What is hard here: two records of the same fact (stack and bitmap) over long
sequences of calls; arithmetic at the 32-bit and zone limits; three lists
threaded through the same structs, with a sentinel that must be met by every
walk; copying tables that are in use; stale translations; the many cases of
red-black deletion combined with a list and a free list; running out of memory
half way; interrupts that arrive while the tables and controllers that should
handle them are being set up; firmware data of any length; output that is cut off
by a panic and must still come out whole. The build driver is concurrent in the
usual sense: goroutines that report over channels, a timeout, and files that
outlive an invocation that failed.
`PROJECT.json` lists these as hazards, each at its line.

## Modules

```
PagePool            abstract: free, held and reserved pages
  ^ implemented by
PhysicalAllocator   operators on one allocator's struct
  ^ extended by
AllocatorClients    one allocator and its callers        -> AllocatorClientsProofs
PhysicalMemory      setup, lists, alloc/free over zones  -> PhysicalMemoryProofs
                    (both use the lemmas of                 PhysicalAllocatorProofs)
PageTables          clone, switch, map, unmap, MMU, TLB  -> PageTablesProofs
RangeSet            abstract: a set of disjoint ranges
  ^ implemented by
RbTree              red-black tree, list and node slots

Kernel              where the boot is, the bootloader's answers, halting
  ^ extended by
Descriptors         GDT and IDT: encoding, setup, layout of the stubs, decoding
Acpi                root pointer, checksums, entries of the root table
  ^ both composed by
Boot                kmain, system_setup, interrupts      -> BootProofs
                    and legacy controllers

Serial              UART, streams, panic output          -> SerialProofs

Memory              memcpy, memset, memmove, memcmp
Format              vformat, numbers, log lines
  ^ both composed by
Library             one call at a time                   -> LibraryProofs

Build               downloads, goroutines, files, image  -> BuildProofs
```

`Boot` takes `system_paging_setup` as a whole; what happens inside it is in
`PhysicalMemory` and `PageTables`. `Serial` writes byte sequences, which `Format`
produces.

`MC*` modules hold the constants for TLC. Definitions named "Bug variant" are
deliberately wrong versions of the definition they stand before; no
specification uses them. They show that a property notices that bug. An arrow
leads to the module with the theorems and proofs about the one on its left.

**PhysicalAllocator / AllocatorClients.** The struct is a record with the C
fields. The bitmap is the set of pages whose bit is 1; the stack is an array of
`page_count` entries of which `0 .. stack_top` are live, so stale entries above
the top exist as they do in C. `AllocAddress` keeps the 32-bit product
(`% (U32_MAX + 1)`). The kasserts of an operation are one predicate
(`..._asserts`); if it is false the system halts. Callers allocate, free what
they hold, and also free what they do not hold. In `PagePool`, which both modules
implement, the pages that hold the allocator's metadata are a third set, apart from
the free and the held ones: a region that comes under management (`Grow`) may not
free them.

**PhysicalMemory.** `Init` and the `Setup...` actions are the loop of
`system_paging_setup`, one step for each memory map entry, with `AppendTo` for
`SL_APPEND_BASE` on the lists concerned. A call of `physical_alloc` or
`physical_free` is begun by a caller and then runs one step for each iteration;
`op` holds the loop variable. NULL is a value of its own, so a list that got no
entry is visible. The printing of the memory map is left out.

**PageTables.** A table is a function from index to entry (flags and address).
`system_paging_entry` is a walk that allocates, zeroes and enters what is
missing; `Descend` is one level. The three nested clone loops are a work list
`todo` of entries, in the code's order. `Translate` is the MMU, external code
modelled from the x86-64 rules that `system_paging.c` relies on: the rights are
those that all levels grant, PS ends the walk. `CpuAccess` may happen between
any two steps and caches a translation. Frames of the pool start with left-over
contents that look like entries. Frames come from the pool that PagePool
describes and PhysicalMemory implements; which one is taken makes no difference.
Physical addresses above 2^48 and the accessed, dirty, global and cache flags
are not modelled. Mapping below a huge page writes into the page's data; the
model records that (`clobbered`) and stops there.

**RbTree.** The heap is one record that is passed through the C functions,
written as operators. Node slots are numbers, so slot recycling and page
changes are explicit; the colour bit that C keeps in the left pointer is a
field. `assert` sets a flag. An insertion chooses whether a page can be
allocated. `MCRbTree` gives TLC a view that forgets slot numbers but keeps
shape, colours, ranges, counters and whether list and slots are in order: the
operations treat slots alike, so this merges only states that behave the same.

**Boot.** `pc` is the next call of `kmain` or `system_setup`; the calls that concern
the descriptor tables and ACPI are actions of `Descriptors` and `Acpi`, which share
`pc` through `Kernel`. `Init` chooses which requests the bootloader has answered.
`Exception` may happen at every step once the kernel's IDT is loaded (before that
the bootloader's table is in place and the behaviour is not ours), in the handler
and the halted loop too; `Irq` wherever the interrupt flag is set and the
controllers let a line through. The 8259 is external: it clears its mask on the
first initialisation word and delivers again after the last. An interrupt goes
through its gate as the CPU decodes it; the stack that the handler sees is put
together from what CPU, the stub found there and the common stub push, and read
through the fields of the C struct. So `FrameMatchesCpu` relates the encoding of
gates and segments, the layout of the stubs, the choice of their macros and the
struct. If the bootloader has not answered a request that is read without a test,
the model takes a page fault (`ReadsNULL`).

**Descriptors.** A descriptor is eight bytes, a gate eight 16-bit words, an address
four words. The two setup functions are one action each: until they load the table
nothing can come between their iterations. The decoders (`Segment`, `Gate`,
`GateWorks`) are the CPU's, and the placement of the stubs is the assembler's
(`.align 16`, lengths of push and jump); neither uses the code's own arithmetic.

**Acpi.** The firmware's structures are the sums that are tested and the length
that the table's header claims. The U32 sum is kept modulo 256, which the width
allows since 256 divides 2^32. The setup looks at the firmware when it is reached.
Nothing calls `system_acpi_sdt_get` yet; the model calls it before the setup and
after the rest of the boot.

**Serial.** The UART is a record with its FIFOs, divisor latch and loopback;
`Transmit` and `Receive` may happen between any two port accesses. A poll and the
access after it are two steps, so an interrupt can fall between them. Interrupts
take the port over at any time after `serial_init`, the halted loop after a panic
included. The line has no flow control, as the driver uses none: a byte that arrives
while the receive FIFO is full is lost (`Receive`), and `accepted` remembers those
that were not. `InputInOrder` is about the accepted ones.

**Format.** `pc` and `i` follow `vformat`; an argument is chosen when `va_arg` is
reached, unless the call has fixed ones (the header of a log line). Numbers are
bit patterns of `Width` bits, the buffer and the padding scale with it (96 bytes
and 64 digits for 64 bits); `Quotients` is what the division loop leaves of the value
after each of its iterations. `-value` of the least signed number overflows, which C
leaves undefined: the model lets any number come of it (`Negations`). The fixed messages are single characters. Arguments
of another type than the specifier says are undefined in C and not modelled. A
failed kassert of `string_get` or `bytes_set` is a state without successor, which
the deadlock check of the run would report.

**Memory.** One step for each byte; `before` remembers the memory at the call.
`memcpy` is only called on disjoint buffers, as `restrict` demands.

**Build.** The process is the record `p` (program counter, goroutines, channels,
context), the other variables are what is on disk; `Start` begins an invocation
on the disk that the one before has left. An object file is the number of the
invocation that wrote it, so that "this kernel is made of this build" can be
said. Downloads report over a channel of capacity `DoneCap`; compilers block on
an unbuffered one. `Timeout`, `CcKilled` and `AsmTimesOut` are the context: the
kill of a compiler and the exit of the process race, so a compiler can become an
orphan. `Interrupt` ends the process at any step. Assembly files come and go between
invocations: each one finds some set of them (`matches`). Flags, output and names that
are files where directories are expected are left out; so is what a failing tool
leaves of its output, which the next invocation writes again. Three things the model
shows without a property being claimed, because no comment promises otherwise: a
download that gets no response makes the driver panic while it formats the error
(line 132, `body` is nil); an archive whose body breaks off while it is unpacked
leaves its directory half filled, the next archive is unpacked all the same, and the
directory counts as downloaded for ever (lines 549 and 578-584); and the object file
of an assembly file that has been removed or renamed is linked into every later
kernel, because `linkKernel` takes all that match `*/*.o` (line 323) and nothing
deletes them.

## Runs

| Run | Configuration | Result |
|---|---|---|
| `allocator` | one region of 9 pages (5 for callers, 4 of metadata), its end exactly at the 32-bit limit | pass: type, partition of pages, agreement of stack and bitmap, kasserts, refinement of PagePool |
| `allocator_wrap` | the same code with a region twice the 32-bit range | violation: finding 1 |
| `physical_memory` | five memory maps | pass: refinement of PagePool over all regions (no page handed out twice, or while it holds metadata), zone limits, sparing of low memory, failure only when exhausted, halting only on misuse, every call ends |
| `no_low_memory` | a map without usable memory below 16 MiB | violation: finding 2 |
| `four_gb_first` | a region in each zone | violation: finding 3 |
| `page_tables` | four shapes of boot tables, 8 frames, 5 virtual pages | pass: tables form a tree of exactly the allocated frames, TLB never stale, boot tables untouched, the switch changes no translation, an update changes only its page, the clone ends |
| `rb_tree` | ranges of length 1 and 2, two pages of 4 slots, so up to 8 nodes | pass: red-black rules, list follows tree, slots conserved, searches, no assert fails, refinement of RangeSet with every reply |
| `build` | two archives, any of two assembly files, two files of the image, two invocations | pass: in what QEMU boots, every source that this invocation found was compiled by it (or by a late orphan), leftovers of iso_root never block, unpacking begins only when every missing archive was opened, the assembly step ends |
| `boot` | all subsets of answers, 6 exceptions with and without error code, two lines on each controller, 16 shapes of firmware | pass: every interrupt reaches its stub and the frame is read as it was pushed, device interrupts only in the window and never taken for exceptions, segment registers usable, ACPI entries read inside checked tables |
| `acpi_items` | the same, well-formed tables of up to six entries | violation: finding 4 |
| `serial` | FIFO of 2, a message of 3 bytes, 4 bytes of input, 3 calls | pass: output complete and in order, the input that found room in the FIFO complete, in order and inside the buffer, panics come out whole |
| `library` | 5 bytes of 3 values, all buffers; all formats of up to 4 characters over 5, and 15 conversions, of 9 numbers of 8 bits, printed and logged | pass: memory as the C standard has it, comparison, arguments in order, numbers (but the least signed one) read back, no assertion fails |

Bounds. Five pages give every order of calls on a stack at its empty, middle and
full ends. The memory maps contain what the zone tests tell apart: inside,
straddling, ending exactly at a limit, adjacent regions, reserved and too small
entries, no member of a zone. Pages of 128 bytes and zones of 8 and 16 pages
keep the proportions of metadata and limits without the size. Two entries per
table give present, absent and huge entries at each level and shared tables;
8 frames run dry in the middle of a clone and in the middle of a walk. Trees of
up to eight nodes reach every case of both fix-ups (red sibling, red outer and inner
nephew, recolouring that goes on upwards) but the nil sibling, which a valid tree
does not have. Two invocations are one that
ends anywhere and one that meets its leftovers; two archives and two compilers
give one that succeeds beside one that fails or hangs.
The 6 exceptions contain every kind of stub; the stubs lie across a carry between
the words of their addresses. The lengths of tables are those around one header of
29 bytes and one of 36, and of one and two entries. A FIFO of 2 is overrun by a message
of 3, and by the third of four bytes of input, with one more to come after the gap. Formats of 4 characters hold two conversions, or one with a base and
something after it, and every way to end too early. The nine numbers are those at
which the number of digits, the padding or the sign changes; at 8 bits these ends
are those of 64. Five bytes hold two overlapping buffers of
three at every distance.

Fairness. `PhysicalMemory` assumes weak fairness of the steps inside a call, and
`PageTables` of the steps of the clone: the CPU keeps executing, and none of
these loops waits for anything. No caller is assumed ever to call. `Build`
assumes weak fairness of the steps of `buildAssembly` itself: time passes and the
process is scheduled. That a compiler or a server ever answers is not assumed.
`Serial` assumes that the CPU executes and that the UART sends what it holds, not
that anybody types: reads may wait for ever, writes may not.

## Findings

1. `system_physical_allocator.c:126`: the product `offset * SYSTEM_PAGE_SIZE` is
   32 bits wide. In a region longer than 4 GiB a page is returned under the
   address of another, and the bitmap ("bitmask that says if a page is used or
   not", line 23) marks a different page than the one handed out.
2. `system_paging.c:454-456`: a list without members is published as NULL, not
   as the sentinel that is there "to allow for not handling NULL" (lines 40-41),
   and the next walk over it reads through NULL.
3. `system_paging.c:98-108`: requests for the 4 GiB zone take the memory of the
   16 MiB zone first, against "Pages that are not required to be in the first
   16mb should use memory later, save on that" (line 52).
4. `system_acpi.c:34`: `oem_table_id` is one byte long instead of eight, the header
   29 bytes instead of 36. Entries are read seven bytes too early, and the
   assertion of `system_acpi_sdt_get` accepts one item too many of an RSDT. The
   functions have no caller yet.

Observations without a run, seen while the code was modelled:

- `system_gdt.c:82`: the byte that holds bits 16 to 19 of the limit is overwritten
  with the flags, so limits above 0xFFFF are not encoded, though the code takes up
  to 0xFFFFF ("only 20-bits", line 24). `EncodeSegment` does the same. In 64-bit
  mode the CPU ignores these limits, and `SegmentsUsable` does not speak of them.
- `system_paging.c:380` and 437: the responses to the HHDM and executable address
  requests are read without a test; `kassert(system_hhdm_request.response != NULL)`
  (`system_acpi.c:67`) runs later. The base revision is tested last of all
  (`main.c:81`).
- Until `system_apic_pic_disable` the kernel relies on the bootloader having masked
  the controllers, and inside it there is a window of two writes in which a device
  can interrupt, which ends in a panic; `IrqOnlyInPicWindow` states that there is
  no other.
- `serial.c:33`: a byte that arrives before the loopback test is read in place of
  the test byte, and `kmain` halts. `InputInOrder` says nothing of a port whose test
  has failed.
- `serial.c:69-95`: input has no flow control and the overrun bit is not looked at, so
  bytes that arrive while the receive FIFO is full disappear without a trace.
- `base_format.c:62`: `-value` is signed overflow for the least `I64`, undefined in C;
  neither the flags of `make.go` nor those of `kernel/GNUmakefile` have `-fwrapv`.
  `NumbersReadBack` leaves that number out.
- `make.go:323`: objects of sources that no longer exist are linked (see **Build**).

`OnlyMisuseHalts` excludes finding 2 by allowing a walk of a list without
members to halt; `PagesPartitioned` is checked and proved for regions within the
limit of finding 1.

## Proofs

`tlapm` checks the eight `*Proofs` modules with SMT, Zenon and LS4, nothing is
assumed but the named assumptions on the constants. Each proof goes the same way:
an inductive invariant made of named parts, one lemma for each action (or kind of
action) that it preserves the invariant, then the properties from the invariant.
Every inductive invariant was checked by TLC on the instance of the run before it
was proved.

| Theorem | States | Under |
|---|---|---|
| **AllocatorClientsProofs** | | |
| `TypeCorrect` | `[]TypeOK` | `RegionBelow4GiB` |
| `NoPageLostOrShared` | `[]PagesPartitioned` | `RegionBelow4GiB` |
| `StackAndBitmapAgree` | `[]BitmapAgreesWithStack` | `RegionBelow4GiB` |
| `KassertsOnlyCatchDoubleFree` | `OnlyDoubleFreeHalts` | `RegionBelow4GiB` |
| `ImplementsPool` | refinement of PagePool, metadata apart | `RegionBelow4GiB` |
| **PhysicalAllocatorProofs** | | |
| `MetadataFits` | the reserved pages hold struct, bitmap and stack | pages of at least 77 bytes |
| **PhysicalMemoryProofs** | | |
| `TypeCorrect` | `[]TypeOK` | `RegionsBelow4GiB` |
| `MemoryImplementsPool` | refinement of PagePool over all regions, metadata apart | `RegionsBelow4GiB` |
| `KindIsRespected` | `KindRespected` | `RegionsBelow4GiB` |
| `LowMemoryIsSpared` | `NormalSparesLowMemory` | `RegionsBelow4GiB` |
| `FailureMeansExhausted` | `FailsOnlyWhenExhausted` | `RegionsBelow4GiB` |
| `OnlyMisuseStops` | `OnlyMisuseHalts` | that, and pages of at least 77 bytes |
| **PageTablesProofs** | | |
| `TypeCorrect` | `[]TypeOK` | |
| `TablesAreATree` | `[]TablesFormTree` | |
| `NoStaleTranslation` | `[]TlbCoherent` | |
| `BootTablesAreKept` | `BootTablesUntouched` | |
| `SwitchIsTransparent` | `SwitchKeepsTranslations` | |
| `UpdatesAreLocal` | `UpdatesOnlyItsPage` | `BootTablesOpen` |
| **BootProofs** | | |
| `IrqsOnlyInPicWindow` | `[]IrqOnlyInPicWindow` | |
| `SegmentsAreUsable` | `[]SegmentsUsable` | |
| `FramesMatchTheCpu` | `[]FrameMatchesCpu` | |
| `AcpiReadsAreChecked` | `[]ReadsInsideCheckedTable` | |
| **SerialProofs** | | |
| `NothingIsLost` | `[]NothingLost` | |
| `InputIsInOrder` | `[]InputInOrder` | `TestByteNotTyped` |
| **LibraryProofs** | | |
| `ResultsAreMandated` | `[]ResultsInMemory` | |
| `CompareIsRight` | `[]CompareIsLexicographic` | |
| `LibraryImplementsMemory`, `LibraryResults` | the same while formatting goes on in between | |
| `WrittenNumbersReadBack` | `[]NumbersReadBack` | |
| `ArgumentsAreInOrder` | `[]ArgumentsInOrder` | |
| **BuildProofs** | | |
| `QemuRunsWhatWasBuilt` | `[]QemuRunsThisBuild` | |
| `LeftoversDoNotBlock` | `[]LeftoversNeverBlock` | |
| `UnpacksAfterAllOpened` | `UnpackOnlyAfterAllOpened` | |

The theorems named `...InvHolds` state the inductive invariants themselves.

Inductions over numbers are made in the form that the provers can follow: the set
of the counterexamples has a least member (`LeastNumber`, from the library's theorem
that `<` is well-founded), and that one leads to a contradiction. A recursive function
is first shown to exist, by giving or iterating (`Iterates`) a function that satisfies
its equation, and then to be the only one, by the least place where two solutions
differ. The models are written for that: `StubOffset`, `TwoTo`, the quotients of
`format_number` and the reader of `ReadBack` are recursive functions over a range
of numbers.

**Allocator.** For every page size, base and page count. `RegionBelow4GiB`
(`PageCount * SYSTEM_PAGE_SIZE <= U32_MAX + 1`) is exactly what finding 1 shows to
be needed; `RegionAssumption` says that the kasserts of `system_pa_init` hold for
the region. The inductive invariant is `IInv == TypeOK /\ BitmapAgreesWithStack /\
HeldIsUsed`. `PagesPartitioned` alone is not inductive: it speaks of addresses,
and says neither that a page is stacked once nor that the bitmap, which decides
whether a free passes, follows the stack. `HeldIsUsed` ties the callers' pages to
the bitmap. The partition then follows because an address determines its page
(`PageAddressFacts`). That the stack cannot overflow in `system_pa_free` is a
counting argument (`DistinctBound`): distinct entries from a range that lacks one
page are fewer than the range. Stack, bitmap and addresses are treated in
`PhysicalAllocatorProofs` by lemmas about the operators (`AllocMatches`,
`FreeMatches`, `FreeAddressesWithout`, `FreeAddressesWith`), which the proofs about
one allocator and about all of them share. `MetadataFits` discharges
`RegionAssumption`: for pages of at least 77 bytes and every 32-bit page count, the
pages that `system_paging_setup` reserves hold struct, bitmap and stack, and the
kasserts of `system_pa_init` pass.

**Physical memory.** For every page size, both zone limits, any number of memory
maps of any length; the maps are sorted and do not overlap, as Limine promises
(`MemMapsAssumption`). `RegionsBelow4GiB` is again finding 1, for each usable entry.
`MemInv` has five parts. `MapInv`: how far setup has come. `RegionInv`: the
allocator of an entry covers that entry and its stack and bitmap agree. `HeldInv`:
the callers hold exactly the pages that some bitmap has as used, metadata excepted. `ListsInv`: each of
the three lists holds exactly the allocators of its zone, in the order of the map,
and ends in the sentinel (or is NULL when it has no member). `WalkInv`: a walk in
progress is on a member of its list and has passed only exhausted allocators, or
only ones that do not own the address that is freed. The properties are about a
single step, the one that ends a call; it is `WalkInv` that carries what the
iterations before it have seen. Without `ListsInv` neither "exhausted" (a list might
skip an allocator) nor `KindRespected` (it might hold one too many) follows.
`OnlyMisuseStops` needs `MetadataFits` for the kasserts in setup, hence the bound on
the page size.

**Page tables.** For every number of entries per table, every pool (finite), and
all boot tables that lie outside the memory reported as usable
(`BootTablesAssumption`; a boot table may be entered many times, and on several
levels). `TablesInv` says for the
clone and for the time after it that the allocated frames form a tree: each has one
level, each but the root is entered in one place, links go one level down. While the
clone runs, places that are still in `todo` hold entries of the boot tables and are
left out of the tree, and the frames reachable on each level are a mixture of boot
frames and copies that is closed under walking. The lemmas about walks carry the
rest: redirecting an entry to a copy of its table changes no translation
(`RedirectWalk`), nor does entering an empty table (`OpenWalk`), and two walks that
meet in a tree came the same way (`PathUnique`). So a write to an entry of a page
table changes the translation of one page only, and the `invlpg` of that one page is
enough for `TlbCoherent`. None of this is visible in `TlbCoherent` alone: with a
table entered twice, one `invlpg` would leave a second page stale. `TablesFormTree`
counts links against frames, which is a counting lemma over the tree (`TreeCount`).
`UpdatesAreLocal` says also that a mapped page gets the rights asked for. For that
the entries above the page table must not take rights away; those that
`system_paging_entry` writes do not, those that were copied are the bootloader's,
hence `BootTablesOpen` (writable, not no-execute), which holds in the instance of the
run. That nothing else changes does not depend on it.

**Boot.** For any set of interrupt lines and exceptions and for any firmware of the
type `Firmware`. `PicInv` follows the ten port writes: which controller is in which
state of its initialisation after each of them (`MasterInv`, `SlaveInv`), that the
boot reaches the writes once (`FlowInv`), and that an interrupt that has come in came
in the window (`IrqInv`). `AcpiInv` ties the root table to the tests that were passed
when it was taken; the property speaks of a later read. `GdtInv` says that after the
table is loaded all its descriptors are the encodings of the constants;
`SegmentsAreUsable` decodes them as the CPU does. For `FramesMatchTheCpu`, `IdtInv`
says that once the IDT is loaded each of its 256 gates encodes the address 16 bytes
times the vector after the first stub, that its code segment is loaded and that the
streams for the handler's output are set. `GatesLeadToStubs` decodes the gates as the
CPU does; that the stub of the vector lies there is `StubsSixteenApart`, the solution
of the assembler's equation. The
stubs push a code for exactly the vectors for which the CPU pushes none
(`PushesAlike`), so at the common stub the stack has one layout for all of them, and
it is that of the struct (`FrameOfPushes`). `FrameMatchesCpu` is not inductive without
`IdtInv`, which relates what system_idt_setup wrote earlier to the interrupt that
comes later, nor without `GdtInv` (the gate's selector must be a code segment when
the CPU goes through it) and `PicInv` (the vector of a device is one of the vectors
without a code).

**Serial.** For every FIFO size, message, input and number of calls. `OutputInv`
describes the registers after each write of `serial_init`, the divisor latch in
particular, and relates what is on the wire, in the FIFO and still to be written to
the message. That nothing is lost rests on one fact that no test of the FIFO's
length makes: a byte is written only to an empty transmitter, and nothing can fill
it between the poll and the write, since an interrupt that takes the port over in
between never gives it back. `InputInv` does the same for reads: what was read and what
waits in the FIFO is what was accepted since `serial_init`, whatever was lost to a full
FIFO in between. `TestByteNotTyped`
is needed: if the test byte itself is typed between the clearing of the FIFOs and
loopback, it is taken for the echo, the test passes, and the echo is later read as
input.

**Memory routines.** For every memory size and all values of bytes. `LoopInv` has a
part for each direction and routine: the part gone over is as mandated, the rest is
as before the call. For overlapping buffers (`memmove`) it says that the bytes still
to be read are not among those already written. The proof found that `Mandated`,
which says what the C standard demands, was a CASE with overlapping guards, so that
it did not determine a result; it is now an IF.

**Formatting.** For every set of formats and strings, and numbers of every width that
is a multiple of four bits, at least eight. `FormattingInv` has, beside the two
properties, `PositionInv`: what the position in the code says of the characters just
read, in particular that outside a conversion the last ones are neither a percent sign
nor one with a base. So a specifier that is met as text never follows what
`Conversions` takes for a start, and one that is met in a conversion always does.
`HeaderInv` counts the arguments of a log line, so that the one that is written as a
number is the number of the line. For the numbers: after at most `Width` divisions, a
quarter of that in base 16, nothing is left (`QuotientsVanish`), so the loop ends and
digits, zeros and sign fit the buffer (`NumberIsBody`); a zero on the left is the digit
of what is left of the number at that place (`PaddedDigits`), so the padded number is
the sequence of all remainders; reading it from the left multiplies and adds what was
divided and taken away, one quotient after the other (`ReadingUndoes`). The least signed
number is excepted, since any number may be written for it.

**Build driver.** For any sets of archives and assembly files, any capacity of the
channel, any number of invocations, and image files without duplicates
(`BuildConstants`; a second link to the same name would fail). `BuildInv`: what is in
the channel and what has been received together account for every goroutine that has
ended (`DownloadInv`, `AsmInv`), the objects of the sources that were found are of
this invocation or of an orphan (`CompiledInv`), the links made so far are a prefix of the list and the
directory was emptied before (`LinksInv`), and an archive whose files are being
written is the first of those received (`UntarInv`).

Only model-checked:

- liveness (`EveryCallReturns`, `CloneFinishes`, `PanicReachesWire`,
  `AsmAlwaysReturns`): TLAPS has no support here for fairness and ENABLED;
- the range tree with all its properties and its refinement of `RangeSet`: it is
  built from recursive operators over the heap, which the provers do not take, and an
  induction over trees that are being restructured has no set to range over;
- the properties of the violation runs, which are false.

## Not modelled

The wording of messages and the painted pattern of `kmain`; the test programs;
`system_vmm.c` (types only); build files; `serial_read_blocking` (no caller); the
return path of the interrupt stub (the handler never returns); what happens on an
exception before the kernel's IDT is loaded. A second CPU: the source says that
the allocator is not made for one.

## Plan

Done: allocator, physical memory, page tables, range tree, build driver, boot and
interrupts, descriptors, ACPI, serial port, formatting, memory routines; the proofs
above. Next:

1. Composition: `PageTables` on top of the allocator of `PhysicalMemory` instead
   of the abstract pool. Both sides of the interface are proved: PhysicalMemory
   implements `PagePool`, and PageTables takes any free frame.
2. The range tree on a finite set of heaps, with its recursion bounded by the height,
   so that its invariants could be proved as well.
