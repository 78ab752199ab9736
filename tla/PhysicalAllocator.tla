------------------------- MODULE PhysicalAllocator -------------------------
(***************************************************************************)
(* The operations of system_physical_allocator.c on one allocator, as      *)
(* operators on the struct System_Physical_Allocator.  The bitmap is the   *)
(* set of the pages whose bit is 1; the stack keeps its C layout, an array *)
(* of page_count entries of which the first stack_top + 1 are live.        *)
(*                                                                         *)
(* A kassert that fails stops the kernel, so every operation that has some *)
(* comes with the predicate (..._asserts) that they all hold.              *)
(***************************************************************************)
EXTENDS Integers

CONSTANTS
  SYSTEM_PAGE_SIZE,   \* 4096 in system.c
  U32_MAX             \* 2^32 - 1; page offsets are computed modulo U32_MAX + 1

ASSUME PageSizeAssumption == SYSTEM_PAGE_SIZE \in Nat \ {0}
ASSUME U32Assumption == U32_MAX \in Nat \ {0}

-----------------------------------------------------------------------------
(* Metadata: the struct, then the bitmap, then the stack, in the first     *)
(* pages of the region itself.                                             *)

SizeOfAllocator == 64   \* eight 8-byte fields
SizeOfU32 == 4
SizeOfU64 == 8

system_pa_calculate_size_specification(page_count) ==
  [stack_size  |-> page_count * SizeOfU32,
   bitmap_size |-> ((page_count + 63) \div 64) * SizeOfU64]

system_pa_calculate_required_size(page_count) ==
  LET spec == system_pa_calculate_size_specification(page_count)
  IN  SizeOfAllocator + spec.stack_size + spec.bitmap_size

\* required_pages of system_paging_setup.
RequiredPages(page_count) ==
  system_pa_calculate_required_size(page_count) \div SYSTEM_PAGE_SIZE + 1

-----------------------------------------------------------------------------
(* system_pa_init                                                          *)

system_pa_init_asserts(metadata_pages, page_count) ==
  /\ page_count <= U32_MAX
  /\ 0 < page_count
  /\ 0 < metadata_pages
  /\ metadata_pages <= page_count    \* system_pa_set_used of each of them

\* Bug variant: stack_top set to the number of pages, not the last index.
InitOneTooMany(address_base, metadata_pages, page_count) ==
  [size         |-> page_count,
   stack_top    |-> page_count - metadata_pages,
   pages_bitmap |-> 0 .. metadata_pages - 1,
   pages_stack  |-> [i \in 0 .. page_count - 1 |->
                       IF i < page_count - metadata_pages
                       THEN metadata_pages + i
                       ELSE 0],
   address_base |-> address_base]

system_pa_init(address_base, metadata_pages, page_count) ==
  [size         |-> page_count,
   stack_top    |-> page_count - metadata_pages - 1,
   pages_bitmap |-> 0 .. metadata_pages - 1,
   pages_stack  |-> [i \in 0 .. page_count - 1 |->
                       IF i < page_count - metadata_pages
                       THEN metadata_pages + i
                       ELSE 0],
   address_base |-> address_base]

-----------------------------------------------------------------------------
(* Addresses                                                               *)

\* Is the address one of the region's?
InRegion(pa, address) ==
  /\ pa.address_base <= address
  /\ address < pa.address_base + pa.size * SYSTEM_PAGE_SIZE

PageIndex(pa, address) == (address - pa.address_base) \div SYSTEM_PAGE_SIZE

PageAddress(pa, page) == pa.address_base + page * SYSTEM_PAGE_SIZE

\* system_pa_is_free; a bit that is clear means the page is available.
system_pa_is_free(pa, address) == PageIndex(pa, address) \notin pa.pages_bitmap

-----------------------------------------------------------------------------
(* system_pa_alloc                                                         *)

system_pa_exhausted(pa) == pa.stack_top < 0 \/ pa.size <= 0

AllocOffset(pa) == pa.pages_stack[pa.stack_top]

\* offset * SYSTEM_PAGE_SIZE is a product of 32-bit unsigned integers: it is
\* taken modulo 2^32 before it is widened and added to the base.
AllocAddress(pa) ==
  pa.address_base + ((AllocOffset(pa) * SYSTEM_PAGE_SIZE) % (U32_MAX + 1))

\* Bug variant: a bounds check that rejects the last page.
AllocAssertsOffByOne(pa) ==
  /\ AllocOffset(pa) + 1 < pa.size
  /\ InRegion(pa, AllocAddress(pa))

system_pa_alloc_asserts(pa) ==
  /\ AllocOffset(pa) < pa.size
  /\ InRegion(pa, AllocAddress(pa))

system_pa_alloc(pa) ==
  [pa EXCEPT !.pages_bitmap = @ \cup {AllocOffset(pa)},
             !.stack_top    = @ - 1]

-----------------------------------------------------------------------------
(* system_pa_free                                                          *)

system_pa_free_asserts(pa, address) ==
  /\ InRegion(pa, address)
  /\ ~ system_pa_is_free(pa, address)
  /\ pa.stack_top + 1 < pa.size
  /\ pa.stack_top >= -1

\* Bug variant: the bit of the page stays set.
FreeKeepsBit(pa, address) ==
  [pa EXCEPT !.stack_top    = @ + 1,
             !.pages_stack  = [@ EXCEPT ![pa.stack_top + 1] = PageIndex(pa, address)]]

\* Bug variant: the stack counts pages from 1.
FreePushesNext(pa, address) ==
  [pa EXCEPT !.stack_top    = @ + 1,
             !.pages_stack  = [@ EXCEPT ![pa.stack_top + 1] = PageIndex(pa, address) + 1],
             !.pages_bitmap = @ \ {PageIndex(pa, address)}]

\* Bug variant: the page is written below the new top of the stack.
FreeBelowTop(pa, address) ==
  [pa EXCEPT !.stack_top    = @ + 1,
             !.pages_stack  = [@ EXCEPT ![IF pa.stack_top < 0 THEN 0 ELSE pa.stack_top] =
                                           PageIndex(pa, address)],
             !.pages_bitmap = @ \ {PageIndex(pa, address)}]

system_pa_free(pa, address) ==
  [pa EXCEPT !.stack_top    = @ + 1,
             !.pages_stack  = [@ EXCEPT ![pa.stack_top + 1] = PageIndex(pa, address)],
             !.pages_bitmap = @ \ {PageIndex(pa, address)}]

-----------------------------------------------------------------------------
(* Views of the struct that the properties are about.                      *)

\* The values of the struct for a region of page_count pages.
Structs(address_base, page_count) ==
  [size         : {page_count},
   stack_top    : -1 .. page_count - 1,
   pages_bitmap : SUBSET (0 .. page_count - 1),
   pages_stack  : [0 .. page_count - 1 -> 0 .. page_count - 1],
   address_base : {address_base}]

\* The pages on the live part of the stack.
StackPages(pa) == {pa.pages_stack[s] : s \in 0 .. pa.stack_top}

\* The addresses the allocator can still hand out.
FreeAddresses(pa) == {PageAddress(pa, page) : page \in StackPages(pa)}

\* No page is on the stack twice.
StackDistinct(pa) ==
  \A s, t \in 0 .. pa.stack_top : pa.pages_stack[s] = pa.pages_stack[t] => s = t

\* The stack holds, once each, exactly the pages whose bit is clear; the pages
\* of the metadata are marked as used.
StackMatchesBitmap(pa, metadata_pages) ==
  /\ StackDistinct(pa)
  /\ StackPages(pa) = (0 .. pa.size - 1) \ pa.pages_bitmap
  /\ 0 .. metadata_pages - 1 \subseteq pa.pages_bitmap

=============================================================================
