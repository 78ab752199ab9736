----------------------- MODULE AllocatorClientsProofs -----------------------
(***************************************************************************)
(* For every region whose page offsets fit in 32 bits (RegionBelow4GiB):   *)
(* the invariants of AllocatorClients, and that it implements PagePool.    *)
(* A larger region breaks them: see the run that violates                  *)
(* HeldPagesMarkedUsed.                                                    *)
(***************************************************************************)
EXTENDS AllocatorClients, PhysicalAllocatorProofs

RegionBelow4GiB == PageCount * SYSTEM_PAGE_SIZE <= U32_MAX + 1

\* The inductive invariant.
IInv == TypeOK /\ BitmapAgreesWithStack /\ HeldIsUsed

-----------------------------------------------------------------------------
(* Constants and addresses                                                 *)

\* The metadata takes at least one page and at most the whole region.
LEMMA MetadataFacts ==
  /\ MetadataPages \in Nat \ {0}
  /\ MetadataPages <= PageCount
  /\ system_pa_init_asserts(MetadataPages, PageCount)
<1>1. /\ PageCount \in Nat
      /\ 0 < MetadataPages
      /\ MetadataPages <= PageCount
  BY RegionAssumption DEF system_pa_init_asserts
<1>2. MetadataPages \in Int
  <2>1. system_pa_calculate_required_size(PageCount) \in Int
    BY <1>1 DEF system_pa_calculate_required_size, system_pa_calculate_size_specification,
                SizeOfAllocator, SizeOfU32, SizeOfU64
  <2> QED BY <2>1, PageSizeAssumption DEF MetadataPages, RequiredPages
<1> HIDE DEF MetadataPages
<1> QED BY <1>1, <1>2, RegionAssumption

\* The address of a page determines the page.
LEMMA AddressOfPage ==
  ASSUME TypeOK, NEW p \in 0 .. PageCount - 1
  PROVE  /\ PageAddress(pa, p) = AddressBase + p * SYSTEM_PAGE_SIZE
         /\ PageIndex(pa, PageAddress(pa, p)) = p
         /\ InRegion(pa, PageAddress(pa, p))
BY RegionAssumption, PageAddressFacts DEF TypeOK

\* The free addresses are those of the managed pages whose bit is clear.
LEMMA FreeIsClear ==
  ASSUME TypeOK, BitmapAgreesWithStack
  PROVE  /\ StackPages(pa) = ManagedPages \ pa.pages_bitmap
         /\ StackPages(pa) \subseteq 0 .. PageCount - 1
<1>1. pa.size = PageCount
  BY DEF TypeOK, Structs
<1>2. /\ StackPages(pa) = (0 .. PageCount - 1) \ pa.pages_bitmap
      /\ 0 .. MetadataPages - 1 \subseteq pa.pages_bitmap
  BY <1>1 DEF BitmapAgreesWithStack, StackMatchesBitmap
<1>3. (0 .. MetadataPages - 1) \cup ManagedPages = 0 .. PageCount - 1
  BY MetadataFacts, RegionAssumption DEF ManagedPages
<1> QED BY <1>2, <1>3

\* One address, one page: an address is free or held according to the page's bit.
LEMMA PartitionFromIInv ==
  ASSUME IInv
  PROVE  PagesPartitioned
<1>1. StackPages(pa) = ManagedPages \ pa.pages_bitmap
      /\ StackPages(pa) \subseteq 0 .. PageCount - 1
  BY FreeIsClear DEF IInv
<1>2. \A p \in ManagedPages : p \in 0 .. PageCount - 1
  BY MetadataFacts, RegionAssumption DEF ManagedPages
<1>3. \A p \in 0 .. PageCount - 1 :
         PageAddress(pa, p) = AddressBase + p * SYSTEM_PAGE_SIZE
         /\ PageIndex(pa, PageAddress(pa, p)) = p
  BY AddressOfPage DEF IInv
<1>4. FreeAddresses(pa) \cap held = {}
  <2>1. SUFFICES ASSUME NEW p \in ManagedPages \ pa.pages_bitmap,
                        NEW q \in ManagedPages \cap pa.pages_bitmap,
                        PageAddress(pa, p) = AddressBase + q * SYSTEM_PAGE_SIZE
                 PROVE  FALSE
    BY <1>1, Zenon DEF IInv, HeldIsUsed, FreeAddresses
  <2>2. PageAddress(pa, p) = PageAddress(pa, q)
    BY <1>2, <1>3, <2>1
  <2>3. p = q
    BY <1>2, <1>3, <2>2
  <2> QED BY <2>3
<1>5. ASSUME NEW x \in FreeAddresses(pa)
      PROVE  x \in Managed
  BY <1>1, <1>3 DEF FreeAddresses, Managed
<1>6. ASSUME NEW x \in Managed
      PROVE  x \in FreeAddresses(pa) \cup held
  <2>1. PICK p \in ManagedPages : x = AddressBase + p * SYSTEM_PAGE_SIZE
    BY DEF Managed
  <2>2. CASE p \in pa.pages_bitmap
    BY <2>1, <2>2 DEF IInv, HeldIsUsed
  <2>3. CASE p \notin pa.pages_bitmap
    BY <1>1, <1>2, <1>3, <2>1, <2>3 DEF FreeAddresses
  <2> QED BY <2>2, <2>3
<1>7. held \subseteq Managed
  BY DEF IInv, HeldIsUsed, Managed
<1> QED BY <1>4, <1>5, <1>6, <1>7 DEF PagesPartitioned

-----------------------------------------------------------------------------
(* The steps                                                               *)

\* The allocator that system_pa_init leaves behind satisfies the invariant.
LEMMA InitIInv ==
  ASSUME Init
  PROVE  IInv
<1>1. /\ pa \in Structs(AddressBase, PageCount)
      /\ StackMatchesBitmap(pa, MetadataPages)
  BY MetadataFacts, RegionAssumption, InitMatches DEF Init
<1>2. pa.pages_bitmap \cap ManagedPages = {}
  <2>1. pa.pages_bitmap = 0 .. MetadataPages - 1
    BY DEF Init, system_pa_init
  <2> QED BY <2>1, MetadataFacts, RegionAssumption DEF ManagedPages
<1> QED
  BY <1>1, <1>2 DEF Init, IInv, TypeOK, BitmapAgreesWithStack, HeldIsUsed

\* system_pa_alloc passes its kasserts and hands out a page nobody holds.
LEMMA AllocStep ==
  ASSUME IInv, RegionBelow4GiB, Alloc
  PROVE  IInv' /\ Pool!Take /\ ~ halted'
<1> DEFINE off == AllocOffset(pa)
<1>1. /\ pa \in Structs(AddressBase, PageCount)
      /\ StackMatchesBitmap(pa, MetadataPages)
      /\ AddressBase \in Nat /\ PageCount \in Nat /\ MetadataPages \in Nat
  BY MetadataFacts, RegionAssumption DEF IInv, TypeOK, BitmapAgreesWithStack
<1>2. pa.stack_top >= 0
  <2>1. pa.stack_top \in Int
    BY <1>1 DEF Structs
  <2> QED BY <2>1 DEF Alloc, system_pa_exhausted
<1>3. /\ off \in 0 .. PageCount - 1
      /\ AllocAddress(pa) = PageAddress(pa, off)
      /\ system_pa_alloc_asserts(pa)
  BY <1>1, <1>2, AllocAddressExact DEF RegionBelow4GiB
<1>4. /\ pa' = system_pa_alloc(pa)
      /\ held' = held \cup {PageAddress(pa, off)}
      /\ halted' = FALSE
  BY <1>3 DEF Alloc
<1>5. /\ pa' \in Structs(AddressBase, PageCount)
      /\ StackMatchesBitmap(pa', MetadataPages)
      /\ off \in StackPages(pa)
      /\ StackPages(pa') = StackPages(pa) \ {off}
  BY <1>1, <1>2, <1>4, AllocMatches
<1>6. pa'.pages_bitmap = pa.pages_bitmap \cup {off}
  BY <1>1, <1>4 DEF system_pa_alloc, Structs
<1> HIDE DEF off
<1>7. /\ off \in ManagedPages
      /\ StackPages(pa) \subseteq 0 .. PageCount - 1
  BY <1>5, FreeIsClear DEF IInv
<1>8. /\ PageAddress(pa, off) = AddressBase + off * SYSTEM_PAGE_SIZE
      /\ InRegion(pa, PageAddress(pa, off))
  BY <1>3, AddressOfPage DEF IInv
<1>9. HeldIsUsed'
  BY <1>4, <1>6, <1>7, <1>8 DEF IInv, HeldIsUsed, ManagedPages
<1>10. TypeOK'
  <2>1. \A x : InRegion(pa, x) => InRegion(pa', x)
    BY <1>1, <1>5 DEF InRegion, Structs
  <2> QED BY <1>4, <1>5, <1>8, <2>1 DEF IInv, TypeOK
<1>11. Pool!Take
  <2>1. FreeAddresses(pa') = FreeAddresses(pa) \ {PageAddress(pa, off)}
    BY <1>1, <1>3, <1>5, <1>7, FreeAddressesWithout
  <2>2. PageAddress(pa, off) \in FreeAddresses(pa)
    BY <1>5 DEF FreeAddresses
  <2> QED BY <1>4, <2>1, <2>2 DEF Pool!Take
<1> QED
  BY <1>4, <1>5, <1>9, <1>10, <1>11 DEF IInv, BitmapAgreesWithStack

\* A managed address whose page is marked as used is a held one, and freeing it
\* passes the kasserts of system_pa_free.
LEMMA HeldCanBeFreed ==
  ASSUME IInv, NEW p \in ManagedPages
  PROVE  /\ p \in 0 .. PageCount - 1
         /\ PageAddress(pa, p) \in held <=> p \in pa.pages_bitmap
         /\ system_pa_free_asserts(pa, PageAddress(pa, p)) <=> p \in pa.pages_bitmap
<1>1. \A q \in ManagedPages : q \in 0 .. PageCount - 1
  BY MetadataFacts, RegionAssumption DEF ManagedPages
<1>2. \A q \in ManagedPages :
         PageAddress(pa, q) = AddressBase + q * SYSTEM_PAGE_SIZE
         /\ PageIndex(pa, PageAddress(pa, q)) = q
  BY <1>1, AddressOfPage DEF IInv
<1>3. PageAddress(pa, p) \in held <=> p \in pa.pages_bitmap
  <2>1. ASSUME PageAddress(pa, p) \in held
        PROVE  p \in pa.pages_bitmap
    <3>1. PICK q \in pa.pages_bitmap \cap ManagedPages :
            PageAddress(pa, p) = AddressBase + q * SYSTEM_PAGE_SIZE
      BY <2>1 DEF IInv, HeldIsUsed
    <3>2. p = q
      BY <1>2, <3>1
    <3> QED BY <3>2
  <2>2. ASSUME p \in pa.pages_bitmap
        PROVE  PageAddress(pa, p) \in held
    BY <1>2, <2>2 DEF IInv, HeldIsUsed
  <2> QED BY <2>1, <2>2
<1>4. ASSUME p \in pa.pages_bitmap
      PROVE  system_pa_free_asserts(pa, PageAddress(pa, p))
  BY <1>4, MetadataFacts, RegionAssumption, FreeMatches
     DEF IInv, TypeOK, BitmapAgreesWithStack, ManagedPages
<1>5. ASSUME system_pa_free_asserts(pa, PageAddress(pa, p))
      PROVE  p \in pa.pages_bitmap
  BY <1>2, <1>5 DEF system_pa_free_asserts, system_pa_is_free
<1> QED BY <1>1, <1>3, <1>4, <1>5

\* system_pa_free, when its kasserts pass, takes back a page that was held.
LEMMA FreeStep ==
  ASSUME IInv, NEW address \in Managed, Free(address)
  PROVE  IInv' /\ Pool!Give /\ ~ halted'
<1>1. PICK p \in ManagedPages : address = AddressBase + p * SYSTEM_PAGE_SIZE
  BY DEF Managed
<1>2. p \in 0 .. PageCount - 1
  BY HeldCanBeFreed
<1>3. address = PageAddress(pa, p)
  BY <1>1, <1>2, AddressOfPage DEF IInv
<1>4. /\ system_pa_free_asserts(pa, PageAddress(pa, p))
      /\ pa' = system_pa_free(pa, PageAddress(pa, p))
      /\ held' = held \ {PageAddress(pa, p)}
      /\ halted' = halted /\ ~ halted
  BY <1>3 DEF Free
<1>5. p \in pa.pages_bitmap /\ PageAddress(pa, p) \in held
  BY <1>4, HeldCanBeFreed
<1>6. /\ pa \in Structs(AddressBase, PageCount)
      /\ StackMatchesBitmap(pa, MetadataPages)
      /\ AddressBase \in Nat /\ PageCount \in Nat /\ MetadataPages \in Nat \ {0}
      /\ p \in MetadataPages .. PageCount - 1
  BY MetadataFacts, RegionAssumption DEF IInv, TypeOK, BitmapAgreesWithStack, ManagedPages
<1>7. /\ pa' \in Structs(AddressBase, PageCount)
      /\ StackMatchesBitmap(pa', MetadataPages)
      /\ StackPages(pa') = StackPages(pa) \cup {p}
  BY <1>4, <1>5, <1>6, FreeMatches
<1>8. pa'.pages_bitmap = pa.pages_bitmap \ {p}
  <2>1. PageIndex(pa, PageAddress(pa, p)) = p
    BY <1>2, AddressOfPage DEF IInv
  <2> QED BY <1>4, <1>6, <2>1 DEF system_pa_free, Structs
<1>9. \A q \in ManagedPages :
         /\ PageAddress(pa, q) = AddressBase + q * SYSTEM_PAGE_SIZE
         /\ q # p => PageAddress(pa, q) # PageAddress(pa, p)
  <2>1. \A q \in ManagedPages :
           PageAddress(pa, q) = AddressBase + q * SYSTEM_PAGE_SIZE
           /\ PageIndex(pa, PageAddress(pa, q)) = q
    BY HeldCanBeFreed, AddressOfPage DEF IInv
  <2> QED BY <2>1
<1>10. HeldIsUsed'
  <2> DEFINE A(q) == AddressBase + q * SYSTEM_PAGE_SIZE
             U    == pa.pages_bitmap \cap ManagedPages
  <2>1. \A q \in U : q # p => A(q) # A(p)
    BY <1>9
  <2>2. held = {A(q) : q \in U} /\ held' = held \ {A(p)}
    BY <1>4, <1>9 DEF IInv, HeldIsUsed
  <2>3. pa'.pages_bitmap \cap ManagedPages' = U \ {p}
    BY <1>8 DEF ManagedPages
  <2> HIDE DEF A, U
  <2>4. held' = {A(q) : q \in U \ {p}}
    BY <2>1, <2>2
  <2> QED BY <2>3, <2>4 DEF HeldIsUsed, A
<1>11. TypeOK'
  <2>1. \A x : InRegion(pa, x) => InRegion(pa', x)
    BY <1>6, <1>7 DEF InRegion, Structs
  <2> QED BY <1>4, <1>7, <2>1 DEF IInv, TypeOK
<1>12. Pool!Give
  <2>1. StackPages(pa) \subseteq 0 .. PageCount - 1
    BY FreeIsClear DEF IInv
  <2>2. FreeAddresses(pa') = FreeAddresses(pa) \cup {PageAddress(pa, p)}
    BY <1>2, <1>6, <1>7, <2>1, FreeAddressesWith
  <2> QED BY <1>4, <1>5, <2>2 DEF Pool!Give
<1> QED
  BY <1>4, <1>7, <1>10, <1>11, <1>12 DEF IInv, BitmapAgreesWithStack

\* A step that leaves allocator and callers as they are.
LEMMA StutterStep ==
  ASSUME IInv, UNCHANGED <<pa, held>>, halted' \in BOOLEAN
  PROVE  IInv' /\ UNCHANGED <<FreeAddresses(pa), held>>
BY DEF IInv, TypeOK, BitmapAgreesWithStack, HeldIsUsed

-----------------------------------------------------------------------------
(* Theorems                                                                *)

\* Every step keeps the invariant, is a step of the pool or changes nothing
\* there, and halts only when a page is freed that nobody holds.
LEMMA StepFacts ==
  ASSUME IInv, RegionBelow4GiB, [Next]_vars
  PROVE  /\ IInv'
         /\ [Pool!Next]_<<FreeAddresses(pa), held, Metadata>>
         /\ [halted' => \E address \in Managed \ held : FreeHalts(address)]_vars
<1>1. CASE Alloc
  BY <1>1, AllocStep DEF Pool!Next
<1>2. CASE AllocFails
  BY <1>2, StutterStep DEF AllocFails, vars, IInv, TypeOK
<1>3. CASE \E address \in Managed : Free(address)
  BY <1>3, FreeStep DEF Pool!Next
<1>4. ASSUME NEW address \in Managed, FreeHalts(address)
      PROVE  /\ IInv'
             /\ [Pool!Next]_<<FreeAddresses(pa), held, Metadata>>
             /\ [halted' => \E a \in Managed \ held : FreeHalts(a)]_vars
  <2>1. PICK p \in ManagedPages : address = AddressBase + p * SYSTEM_PAGE_SIZE
    BY DEF Managed
  <2>2. address = PageAddress(pa, p)
    BY <2>1, HeldCanBeFreed, AddressOfPage DEF IInv
  <2>3. address \notin held
    BY <1>4, <2>2, HeldCanBeFreed DEF FreeHalts
  <2> QED BY <1>4, <2>3, StutterStep DEF FreeHalts
<1>5. CASE hcf \/ UNCHANGED vars
  BY <1>5, StutterStep DEF hcf, vars, IInv, TypeOK
<1> QED BY <1>1, <1>2, <1>3, <1>4, <1>5 DEF Next

\* The invariant holds throughout, by induction on the steps.
LEMMA Inductive == RegionBelow4GiB => (Spec => []IInv)
<1> SUFFICES ASSUME RegionBelow4GiB
             PROVE  Spec => []IInv
  OBVIOUS
<1>1. Init => IInv
  BY InitIInv
<1>2. IInv /\ [Next]_vars => IInv'
  BY StepFacts
<1> QED BY <1>1, <1>2, PTL DEF Spec

\* The allocator's struct keeps its type: the stack pointer never leaves the
\* array, whatever the order of calls to system_pa_alloc and system_pa_free.
THEOREM TypeCorrect == RegionBelow4GiB => (Spec => []TypeOK)
<1>1. IInv => TypeOK
  BY DEF IInv
<1> QED BY <1>1, Inductive, PTL

\* No page is ever lost or owned twice.
THEOREM NoPageLostOrShared == RegionBelow4GiB => (Spec => []PagesPartitioned)
<1>1. IInv => PagesPartitioned
  BY PartitionFromIInv
<1> QED BY <1>1, Inductive, PTL

\* system_pa_is_free and system_pa_alloc always agree on which pages are free.
THEOREM StackAndBitmapAgree == RegionBelow4GiB => (Spec => []BitmapAgreesWithStack)
<1>1. IInv => BitmapAgreesWithStack
  BY DEF IInv
<1> QED BY <1>1, Inductive, PTL

\* The kasserts fire for a double free and for nothing else.
THEOREM KassertsOnlyCatchDoubleFree == RegionBelow4GiB => (Spec => OnlyDoubleFreeHalts)
<1> SUFFICES ASSUME RegionBelow4GiB
             PROVE  Spec => OnlyDoubleFreeHalts
  OBVIOUS
<1>1. IInv /\ [Next]_vars => [halted' => \E address \in Managed \ held : FreeHalts(address)]_vars
  BY StepFacts
<1> QED BY <1>1, Inductive, PTL DEF Spec, OnlyDoubleFreeHalts

\* The physical allocator implements the abstract pool of pages.
THEOREM ImplementsPool == RegionBelow4GiB => (Spec => PoolSpec)
<1> SUFFICES ASSUME RegionBelow4GiB
             PROVE  Spec => PoolSpec
  OBVIOUS
<1>1. Init => Pool!Init
  <2> SUFFICES ASSUME Init, NEW p \in ManagedPages \ pa.pages_bitmap,
                      NEW q \in 0 .. MetadataPages - 1,
                      PageAddress(pa, p) = AddressBase + q * SYSTEM_PAGE_SIZE
               PROVE  FALSE
    <3>1. ASSUME Init PROVE StackPages(pa) = ManagedPages \ pa.pages_bitmap
      BY <3>1, InitIInv, FreeIsClear DEF IInv
    <3> QED BY <3>1, Zenon DEF Init, Pool!Init, FreeAddresses, Metadata
  <2>1. IInv
    BY InitIInv
  <2>2. p \in 0 .. PageCount - 1 /\ q \in 0 .. PageCount - 1 /\ p # q
    BY MetadataFacts, RegionAssumption DEF ManagedPages
  <2>3. PageAddress(pa, q) = AddressBase + q * SYSTEM_PAGE_SIZE
        /\ PageIndex(pa, PageAddress(pa, p)) = p /\ PageIndex(pa, PageAddress(pa, q)) = q
    BY <2>1, <2>2, AddressOfPage DEF IInv
  <2> QED BY <2>2, <2>3
<1>2. IInv /\ [Next]_vars => [Pool!Next]_<<FreeAddresses(pa), held, Metadata>>
  BY StepFacts
<1> QED BY <1>1, <1>2, Inductive, PTL DEF Spec, PoolSpec, Pool!Spec

=============================================================================
