-------------------------- MODULE AllocatorClients --------------------------
(***************************************************************************)
(* One physical allocator in use: callers take pages from it and give them *)
(* back, in any order.  A caller may also free a page it does not hold     *)
(* (the kernel's own double free), which the kasserts of system_pa_free    *)
(* are there to catch.                                                     *)
(***************************************************************************)
EXTENDS PhysicalAllocator

CONSTANTS
  AddressBase,   \* physical address of the region
  PageCount      \* its length in pages, metadata included

MetadataPages == RequiredPages(PageCount)

ASSUME RegionAssumption ==
  /\ AddressBase \in Nat
  /\ PageCount \in Nat
  /\ system_pa_init_asserts(MetadataPages, PageCount)

VARIABLES
  pa,      \* the allocator's struct
  held,    \* the addresses callers hold
  halted   \* a kassert has failed: the kernel sits in hcf

vars == <<pa, held, halted>>

\* The pages under management: all but those that hold the metadata.
ManagedPages == MetadataPages .. PageCount - 1

Managed == {AddressBase + page * SYSTEM_PAGE_SIZE : page \in ManagedPages}

Metadata == {AddressBase + page * SYSTEM_PAGE_SIZE : page \in 0 .. MetadataPages - 1}

Init ==
  /\ pa = system_pa_init(AddressBase, MetadataPages, PageCount)
  /\ held = {}
  /\ halted = FALSE

\* When a kassert stops the kernel, how far the struct was updated no longer
\* matters.
Alloc ==
  /\ ~ halted
  /\ ~ system_pa_exhausted(pa)
  /\ pa' = system_pa_alloc(pa)
  /\ halted' = ~ system_pa_alloc_asserts(pa)
  /\ held' = IF system_pa_alloc_asserts(pa) THEN held \cup {AllocAddress(pa)} ELSE held

\* *ok = false: the allocator is left as it is.
AllocFails ==
  /\ ~ halted
  /\ system_pa_exhausted(pa)
  /\ UNCHANGED vars

Free(address) ==
  /\ ~ halted
  /\ system_pa_free_asserts(pa, address)
  /\ pa' = system_pa_free(pa, address)
  /\ held' = held \ {address}
  /\ UNCHANGED halted

FreeHalts(address) ==
  /\ ~ halted
  /\ ~ system_pa_free_asserts(pa, address)
  /\ halted' = TRUE
  /\ UNCHANGED <<pa, held>>

hcf == halted /\ UNCHANGED vars

Next ==
  \/ Alloc
  \/ AllocFails
  \/ \E address \in Managed : Free(address) \/ FreeHalts(address)
  \/ hcf

Spec == Init /\ [][Next]_vars

-----------------------------------------------------------------------------
(* Correctness properties                                                  *)

\* Type invariant: the stack pointer stays within the array, the stack holds
\* page numbers of the region, callers hold addresses of the region.
TypeOK ==
  /\ pa \in Structs(AddressBase, PageCount)
  /\ \A address \in held : InRegion(pa, address)
  /\ halted \in BOOLEAN

\* Every managed page is either on the stack, ready to be handed out, or held
\* by a caller, never both and never neither; the metadata pages are neither
\* (system_pa_alloc and system_pa_free move pages between the two).
PagesPartitioned ==
  /\ FreeAddresses(pa) \cap held = {}
  /\ FreeAddresses(pa) \cup held = Managed

\* The bitmap that answers system_pa_is_free and the stack that feeds
\* system_pa_alloc describe the same set of pages, each of them stacked once.
BitmapAgreesWithStack == StackMatchesBitmap(pa, MetadataPages)

\* A page in a caller's hands is marked as used in the bitmap ("bitmask that
\* says if a page is used or not", pages_bitmap in the struct).
HeldPagesMarkedUsed == \A address \in held : ~ system_pa_is_free(pa, address)

\* The pages callers hold are exactly the managed pages marked as used; with
\* the agreement of bitmap and stack this makes the invariant inductive.
HeldIsUsed ==
  held = {AddressBase + page * SYSTEM_PAGE_SIZE : page \in pa.pages_bitmap \cap ManagedPages}

\* The kasserts of alloc and free never stop the kernel on account of the
\* allocator itself: it only halts when a caller frees a page it does not hold.
OnlyDoubleFreeHalts ==
  [][halted' => \E address \in Managed \ held : FreeHalts(address)]_vars

\* The allocator implements the abstract pool of pages: in particular a page
\* that is handed out was free, had no other owner and holds no metadata.
Pool == INSTANCE PagePool WITH free <- FreeAddresses(pa), reserved <- Metadata

PoolSpec == Pool!Spec

=============================================================================
