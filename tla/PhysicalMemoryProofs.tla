------------------------ MODULE PhysicalMemoryProofs ------------------------
(***************************************************************************)
(* For every memory map whose usable regions have page offsets that fit in *)
(* 32 bits (RegionsBelow4GiB): the three lists of allocators are complete, *)
(* sorted and end in the sentinel, a walk over one of them misses nothing, *)
(* and the whole of physical memory is one pool of pages.                  *)
(***************************************************************************)
EXTENDS PhysicalMemory, PhysicalAllocatorProofs

RegionsBelow4GiB ==
  \A map \in MemMaps : \A k \in 1 .. Len(map) :
    map[k].usable => map[k].length <= U32_MAX + 1

-----------------------------------------------------------------------------
(* The inductive invariant                                                 *)

\* The pages of an entry, and those of them that hold the metadata.
PageCount(k) == memmap[k].length \div SYSTEM_PAGE_SIZE
MetadataPages(k) == RequiredPages(PageCount(k))

\* The addresses of the pages that an allocator has handed out.
UsedAddresses(pa, metadata_pages) ==
  {PageAddress(pa, page) : page \in pa.pages_bitmap \cap (metadata_pages .. pa.size - 1)}

\* The allocators on a list.
OnList(l) == {k \in DOMAIN pas : l \in ListsOf(memmap[k])}

MapInv ==
  /\ memmap \in MemMaps
  /\ phase \in {"setup", "running", "halted"}
  /\ i \in 1 .. Len(memmap) + 1
  /\ DOMAIN pas \subseteq 1 .. i - 1

\* Each allocator's stack and bitmap agree, and all its pages lie in its entry.
RegionInv ==
  \A k \in DOMAIN pas :
    /\ memmap[k].usable
    /\ MetadataPages(k) \in 1 .. PageCount(k)
    /\ pas[k] \in Structs(memmap[k].base, PageCount(k))
    /\ StackMatchesBitmap(pas[k], MetadataPages(k))

\* Callers hold exactly what the allocators have handed out.
HeldInv ==
  /\ held = UNION {UsedAddresses(pas[k], MetadataPages(k)) : k \in DOMAIN pas}
  /\ phase = "setup" => held = {} /\ op = Idle

LinksTypeOK ==
  /\ next \in [Lists -> [Entries \cup {Sentinel, Base} -> Int]]
  /\ last \in [Lists -> Int]
  /\ first \in [Lists -> Int]

\* A list holds its allocators in the order of the memory map and ends in the
\* sentinel, or in NULL if it has none.
ListInv(l) ==
  /\ next[l][Sentinel] = Sentinel
  /\ next[l][Base] \in OnList(l) \cup {NULL}
  /\ \A k \in OnList(l) : next[l][Base] # NULL /\ next[l][Base] <= k
  /\ \A p \in DOMAIN pas : next[l][p] = Sentinel \/ (next[l][p] \in OnList(l) /\ p < next[l][p])
  /\ \A p, k \in OnList(l) : p < k => next[l][p] # Sentinel /\ next[l][p] <= k
  /\ \A p \in Entries \ DOMAIN pas : next[l][p] = NULL
  /\ \/ last[l] = Base /\ OnList(l) = {}
     \/ last[l] \in OnList(l) /\ \A k \in OnList(l) : k <= last[l]
  /\ first[l] \in {NULL, next[l][Base]}
  /\ phase = "running" => first[l] = next[l][Base]

\* first_non_16mb is the first allocator that is not in the 16 MiB zone.
NonLowInv ==
  \/ first_non_16mb = Sentinel /\ \A k \in DOMAIN pas : Low(memmap[k])
  \/ /\ first_non_16mb \in DOMAIN pas /\ ~ Low(memmap[first_non_16mb])
     /\ \A k \in DOMAIN pas : ~ Low(memmap[k]) => first_non_16mb <= k

ListsInv == LinksTypeOK /\ (\A l \in Lists : ListInv(l)) /\ NonLowInv

AllocOps ==
  [call : {"alloc"}, kind : {"NORMAL"}, list : {"all", "16mb"}, current : Int]
    \cup [call : {"alloc"}, kind : {"16MB"}, list : {"16mb"}, current : Int]
    \cup [call : {"alloc"}, kind : {"4GB"}, list : {"4gb"}, current : Int]

FreeOps == [call : {"free"}, address : Int, list : {"all"}, current : Int]

\* The loop has gone past allocator k, or has come to the end of its list.
Passed(k) == op.current \notin DOMAIN pas \/ k < op.current

\* What an allocation has gone past has no page left.
AllocWalkInv ==
  /\ \A k \in OnList(op.list) :
       Passed(k) /\ (op.list = "all" => ~ Low(memmap[k])) => system_pa_exhausted(pas[k])
  /\ op.list = "all" /\ op.current \in DOMAIN pas => ~ Low(memmap[op.current])
  /\ op.kind = "NORMAL" /\ op.list = "16mb" =>
       \A k \in DOMAIN pas : ~ Low(memmap[k]) => system_pa_exhausted(pas[k])

\* A free has not gone past the allocator of its address.
FreeWalkInv ==
  /\ op.address \in FreeTargets
  /\ \A k \in DOMAIN pas : InRegion(pas[k], op.address) => ~ Passed(k)

WalkInv ==
  op # Idle =>
    /\ op \in AllocOps \cup FreeOps
    /\ op.current \in OnList(op.list) \cup {NULL, Sentinel}
    /\ op.current = NULL => OnList(op.list) = {}
    /\ op.call = "alloc" => AllocWalkInv
    /\ op.call = "free" => FreeWalkInv

MemInv == MapInv /\ RegionInv /\ HeldInv /\ ListsInv /\ WalkInv

-----------------------------------------------------------------------------
(* One allocator: what is free, what is handed out                         *)

\* The addresses of an allocator lie in its region, and none is both free and
\* handed out.
LEMMA AddressesApart ==
  ASSUME NEW base \in Nat, NEW n \in Nat, NEW m \in Nat,
         NEW pa \in Structs(base, n), StackMatchesBitmap(pa, m)
  PROVE  /\ \A x \in FreeAddresses(pa) \cup UsedAddresses(pa, m) : x \in Nat /\ InRegion(pa, x)
         /\ FreeAddresses(pa) \cap UsedAddresses(pa, m) = {}
<1>1. /\ pa.size = n /\ pa.pages_bitmap \subseteq 0 .. n - 1
      /\ StackPages(pa) = (0 .. n - 1) \ pa.pages_bitmap
  BY DEF Structs, StackMatchesBitmap
<1>2. \A q \in 0 .. n - 1 : /\ InRegion(pa, PageAddress(pa, q))
                            /\ PageIndex(pa, PageAddress(pa, q)) = q
                            /\ PageAddress(pa, q) \in Nat
  <2>1. ASSUME NEW q \in 0 .. n - 1
        PROVE  base + q * SYSTEM_PAGE_SIZE \in Nat
    BY PageSizeAssumption
  <2> QED BY <2>1, PageAddressFacts
<1>3. ASSUME NEW x \in FreeAddresses(pa)
      PROVE  \E q \in (0 .. n - 1) \ pa.pages_bitmap : x = PageAddress(pa, q)
  BY <1>1 DEF FreeAddresses
<1>4. ASSUME NEW x \in UsedAddresses(pa, m)
      PROVE  \E q \in (0 .. n - 1) \cap pa.pages_bitmap : x = PageAddress(pa, q)
  BY <1>1 DEF UsedAddresses
<1>5. ASSUME NEW x \in FreeAddresses(pa) \cap UsedAddresses(pa, m)
      PROVE  FALSE
  <2>1. PICK q \in (0 .. n - 1) \ pa.pages_bitmap : x = PageAddress(pa, q)
    BY <1>3
  <2>2. PICK r \in (0 .. n - 1) \cap pa.pages_bitmap : x = PageAddress(pa, r)
    BY <1>4
  <2>3. q = r
    BY <1>2, <2>1, <2>2
  <2> QED BY <2>3
<1>6. \A x \in FreeAddresses(pa) \cup UsedAddresses(pa, m) : x \in Nat /\ InRegion(pa, x)
  BY <1>2, <1>3, <1>4
<1> QED BY <1>5, <1>6

\* system_pa_init leaves nothing handed out.
LEMMA InitEffect ==
  ASSUME NEW base \in Nat, NEW n \in Nat, NEW m \in Nat,
         system_pa_init_asserts(m, n)
  PROVE  UsedAddresses(system_pa_init(base, m, n), m) = {}
<1> DEFINE pa == system_pa_init(base, m, n)
<1>1. pa.pages_bitmap = 0 .. m - 1 /\ pa.size = n
  BY DEF system_pa_init
<1> HIDE DEF pa
<1>2. pa.pages_bitmap \cap (m .. pa.size - 1) = {}
  BY <1>1
<1> QED BY <1>2 DEF UsedAddresses, pa

\* system_pa_alloc passes its kasserts and moves the address it returns, which
\* is that of a whole page of the region, from free to handed out.
LEMMA AllocEffect ==
  ASSUME NEW base \in Nat, NEW n \in Nat, NEW m \in Nat,
         NEW pa \in Structs(base, n), StackMatchesBitmap(pa, m),
         n * SYSTEM_PAGE_SIZE <= U32_MAX + 1, ~ system_pa_exhausted(pa)
  PROVE  /\ system_pa_alloc_asserts(pa)
         /\ system_pa_alloc(pa) \in Structs(base, n)
         /\ StackMatchesBitmap(system_pa_alloc(pa), m)
         /\ AllocAddress(pa) \in FreeAddresses(pa)
         /\ FreeAddresses(system_pa_alloc(pa)) = FreeAddresses(pa) \ {AllocAddress(pa)}
         /\ UsedAddresses(system_pa_alloc(pa), m) = UsedAddresses(pa, m) \cup {AllocAddress(pa)}
         /\ AllocAddress(pa) \in Nat
         /\ AllocAddress(pa) + SYSTEM_PAGE_SIZE <= base + n * SYSTEM_PAGE_SIZE
<1> DEFINE off == AllocOffset(pa)
           new == system_pa_alloc(pa)
<1>1. pa.stack_top >= 0
  <2>1. pa.stack_top \in Int
    BY DEF Structs
  <2> QED BY <2>1 DEF system_pa_exhausted
<1>2. /\ off \in 0 .. n - 1
      /\ AllocAddress(pa) = PageAddress(pa, off)
      /\ system_pa_alloc_asserts(pa)
  BY <1>1, AllocAddressExact
<1>3. /\ new \in Structs(base, n)
      /\ StackMatchesBitmap(new, m)
      /\ off \in StackPages(pa)
      /\ StackPages(new) = StackPages(pa) \ {off}
  BY <1>1, AllocMatches
<1>4. new.pages_bitmap = pa.pages_bitmap \cup {off}
  BY DEF system_pa_alloc, Structs
<1>5. pa.size = n /\ new.size = n /\ pa.address_base = base /\ new.address_base = base
  BY <1>3 DEF Structs
<1>6. /\ StackPages(pa) = (0 .. n - 1) \ pa.pages_bitmap
      /\ 0 .. m - 1 \subseteq pa.pages_bitmap
  BY <1>5 DEF StackMatchesBitmap
<1> HIDE DEF off, new
<1>7. FreeAddresses(new) = FreeAddresses(pa) \ {PageAddress(pa, off)}
  BY <1>2, <1>3, <1>6, FreeAddressesWithout
<1>8. off \in m .. n - 1
  BY <1>2, <1>3, <1>6
<1>9. UsedAddresses(new, m) = UsedAddresses(pa, m) \cup {PageAddress(pa, off)}
  <2>1. \A q : PageAddress(new, q) = PageAddress(pa, q)
    BY <1>5 DEF PageAddress
  <2>2. new.pages_bitmap \cap (m .. new.size - 1)
          = (pa.pages_bitmap \cap (m .. pa.size - 1)) \cup {off}
    BY <1>4, <1>5, <1>8
  <2> QED BY <2>1, <2>2 DEF UsedAddresses
<1>10. /\ PageAddress(pa, off) \in Nat
       /\ PageAddress(pa, off) + SYSTEM_PAGE_SIZE <= base + n * SYSTEM_PAGE_SIZE
  <2>1. off * SYSTEM_PAGE_SIZE + SYSTEM_PAGE_SIZE <= n * SYSTEM_PAGE_SIZE
        /\ off * SYSTEM_PAGE_SIZE \in Nat /\ n * SYSTEM_PAGE_SIZE \in Nat
    BY <1>2, MulStep, PageSizeAssumption
  <2> QED BY <1>5, <2>1, PageSizeAssumption DEF PageAddress
<1>11. PageAddress(pa, off) \in FreeAddresses(pa)
  BY <1>3 DEF FreeAddresses
<1> QED BY <1>2, <1>3, <1>7, <1>9, <1>10, <1>11 DEF new

\* The kasserts of system_pa_free let pass what was handed out, and only that;
\* it moves from handed out to free.
LEMMA FreeEffect ==
  ASSUME NEW base \in Nat, NEW n \in Nat, NEW m \in Nat \ {0},
         NEW pa \in Structs(base, n), StackMatchesBitmap(pa, m),
         NEW p \in m .. n - 1, NEW a, a = PageAddress(pa, p)
  PROVE  /\ system_pa_free_asserts(pa, a) <=> a \in UsedAddresses(pa, m)
         /\ system_pa_free_asserts(pa, a) =>
              /\ system_pa_free(pa, a) \in Structs(base, n)
              /\ StackMatchesBitmap(system_pa_free(pa, a), m)
              /\ FreeAddresses(system_pa_free(pa, a)) = FreeAddresses(pa) \cup {a}
              /\ UsedAddresses(system_pa_free(pa, a), m) = UsedAddresses(pa, m) \ {a}
<1> DEFINE new == system_pa_free(pa, a)
<1>1. /\ pa.size = n /\ pa.address_base = base
      /\ StackPages(pa) = (0 .. n - 1) \ pa.pages_bitmap
  BY DEF Structs, StackMatchesBitmap
<1>2. \A q \in 0 .. n - 1 : PageIndex(pa, PageAddress(pa, q)) = q
  BY PageAddressFacts
<1>3. p \in 0 .. n - 1
  OBVIOUS
<1>4. a \in UsedAddresses(pa, m) <=> p \in pa.pages_bitmap
  <2>1. ASSUME a \in UsedAddresses(pa, m)
        PROVE  p \in pa.pages_bitmap
    <3>1. PICK q \in pa.pages_bitmap \cap (m .. n - 1) : a = PageAddress(pa, q)
      BY <1>1, <2>1 DEF UsedAddresses
    <3>2. q \in 0 .. n - 1
      OBVIOUS
    <3>3. q = p
      BY <1>2, <1>3, <3>1, <3>2
    <3> QED BY <3>3
  <2>2. ASSUME p \in pa.pages_bitmap
        PROVE  a \in UsedAddresses(pa, m)
    BY <1>1, <2>2 DEF UsedAddresses
  <2> QED BY <2>1, <2>2
<1>5. system_pa_free_asserts(pa, a) => p \in pa.pages_bitmap
  BY <1>2, <1>3 DEF system_pa_free_asserts, system_pa_is_free
<1>6. ASSUME p \in pa.pages_bitmap
      PROVE  /\ system_pa_free_asserts(pa, a)
             /\ new \in Structs(base, n)
             /\ StackMatchesBitmap(new, m)
             /\ FreeAddresses(new) = FreeAddresses(pa) \cup {a}
             /\ UsedAddresses(new, m) = UsedAddresses(pa, m) \ {a}
  <2>1. /\ system_pa_free_asserts(pa, a)
        /\ new \in Structs(base, n)
        /\ StackMatchesBitmap(new, m)
        /\ StackPages(new) = StackPages(pa) \cup {p}
    BY <1>6, FreeMatches
  <2>2. new.pages_bitmap = pa.pages_bitmap \ {p}
    BY <1>2, <1>3 DEF system_pa_free, Structs
  <2>3. new.size = n /\ new.address_base = base
    BY <2>1 DEF Structs
  <2> HIDE DEF new
  <2>4. FreeAddresses(new) = FreeAddresses(pa) \cup {a}
    BY <1>1, <1>3, <2>1, FreeAddressesWith
  <2>5. UsedAddresses(new, m) = UsedAddresses(pa, m) \ {a}
    <3> DEFINE U == pa.pages_bitmap \cap (m .. n - 1)
               A(q) == PageAddress(pa, q)
    <3>1. \A q \in U : q # p => A(q) # A(p)
      BY <1>2, <1>3
    <3>2. new.pages_bitmap \cap (m .. n - 1) = U \ {p}
      BY <2>2
    <3>3. \A q : PageAddress(new, q) = A(q)
      BY <1>1, <2>3 DEF PageAddress
    <3>4. UsedAddresses(pa, m) = {A(q) : q \in U} /\ UsedAddresses(new, m) = {A(q) : q \in U \ {p}}
      BY <1>1, <2>3, <3>2, <3>3 DEF UsedAddresses
    <3>5. a = A(p)
      OBVIOUS
    <3> HIDE DEF U, A
    <3> QED BY <3>1, <3>4, <3>5
  <2> QED BY <2>1, <2>4, <2>5
<1> QED BY <1>4, <1>5, <1>6

-----------------------------------------------------------------------------
(* The regions of the memory map                                           *)

\* A quotient times the divisor is at most the dividend.
LEMMA QuotientBounds ==
  ASSUME NEW P \in Nat \ {0}, NEW x \in Nat
  PROVE  x \div P \in Nat /\ (x \div P) * P \in Nat /\ (x \div P) * P <= x
         /\ (x >= P => x \div P >= 1)
<1> DEFINE q == x \div P
<1>1. q \in Nat /\ x = q * P + (x % P) /\ x % P \in 0 .. P - 1
  OBVIOUS
<1>2. q * P \in Nat
  BY <1>1
<1>3. x >= P => q # 0
  BY <1>1
<1> QED BY <1>1, <1>2, <1>3

\* The entries of a memory map.
LEMMA EntryFacts ==
  ASSUME MapInv, NEW k \in Entries
  PROVE  /\ memmap[k].base \in Nat /\ memmap[k].length \in Nat
         /\ PageCount(k) \in Nat
         /\ PageCount(k) * SYSTEM_PAGE_SIZE \in Nat
         /\ PageCount(k) * SYSTEM_PAGE_SIZE <= memmap[k].length
         /\ memmap[k].length > SYSTEM_PAGE_SIZE => PageCount(k) >= 1
<1> DEFINE R == [base : Nat, length : Nat, usable : BOOLEAN]
<1>1. memmap[k] \in R
  <2>1. memmap \in Seq(R)
    BY MemMapsAssumption DEF MapInv
  <2> HIDE DEF R
  <2> QED BY <2>1 DEF Entries
<1>2. memmap[k].base \in Nat /\ memmap[k].length \in Nat
  BY <1>1
<1> DEFINE x == memmap[k].length
<1>3. /\ x \div SYSTEM_PAGE_SIZE \in Nat
      /\ (x \div SYSTEM_PAGE_SIZE) * SYSTEM_PAGE_SIZE \in Nat
      /\ (x \div SYSTEM_PAGE_SIZE) * SYSTEM_PAGE_SIZE <= x
      /\ (x >= SYSTEM_PAGE_SIZE => x \div SYSTEM_PAGE_SIZE >= 1)
  <2>1. x \in Nat
    BY <1>2
  <2> HIDE DEF x
  <2> QED BY <2>1, QuotientBounds, PageSizeAssumption
<1>4. x > SYSTEM_PAGE_SIZE => x >= SYSTEM_PAGE_SIZE
  BY <1>2, PageSizeAssumption
<1> QED BY <1>2, <1>3, <1>4, Zenon DEF PageCount

\* The entry of an allocator, and the pages it may hand out.
LEMMA RegionFacts ==
  ASSUME MapInv, RegionInv, NEW k \in DOMAIN pas
  PROVE  /\ k \in Entries /\ k \in Nat /\ 1 <= k /\ k < i
         /\ memmap[k].base \in Nat /\ memmap[k].length \in Nat
         /\ PageCount(k) \in Nat /\ MetadataPages(k) \in Nat \ {0}
         /\ PageCount(k) * SYSTEM_PAGE_SIZE \in Nat
         /\ PageCount(k) * SYSTEM_PAGE_SIZE <= memmap[k].length
         /\ pas[k] \in Structs(memmap[k].base, PageCount(k))
         /\ pas[k].size = PageCount(k)
         /\ pas[k].address_base = memmap[k].base
         /\ StackMatchesBitmap(pas[k], MetadataPages(k))
<1>1. Len(memmap) \in Nat
  BY MemMapsAssumption DEF MapInv
<1>2. k \in Entries /\ k \in Nat /\ 1 <= k /\ k < i
  BY <1>1 DEF MapInv, Entries
<1>3. /\ memmap[k].base \in Nat /\ memmap[k].length \in Nat /\ PageCount(k) \in Nat
      /\ PageCount(k) * SYSTEM_PAGE_SIZE \in Nat
      /\ PageCount(k) * SYSTEM_PAGE_SIZE <= memmap[k].length
  BY <1>2, EntryFacts
<1>4. /\ MetadataPages(k) \in 1 .. PageCount(k)
      /\ pas[k] \in Structs(memmap[k].base, PageCount(k))
      /\ StackMatchesBitmap(pas[k], MetadataPages(k))
  BY DEF RegionInv
<1>5. pas[k].size = PageCount(k) /\ pas[k].address_base = memmap[k].base
  BY <1>4 DEF Structs
<1>6. MetadataPages(k) \in Nat \ {0}
  BY <1>3, <1>4
<1> QED BY <1>2, <1>3, <1>4, <1>5, <1>6

\* Two entries do not overlap.
LEMMA EntriesDisjoint ==
  ASSUME MapInv, NEW j \in Entries, NEW k \in Entries, NEW x \in Int,
         memmap[j].base <= x, x < memmap[j].base + memmap[j].length,
         memmap[k].base <= x, x < memmap[k].base + memmap[k].length
  PROVE  j = k
<1>1. /\ memmap[j].base \in Nat /\ memmap[j].length \in Nat
      /\ memmap[k].base \in Nat /\ memmap[k].length \in Nat
  BY EntryFacts
<1>2. /\ j < k => memmap[j].base + memmap[j].length <= memmap[k].base
      /\ k < j => memmap[k].base + memmap[k].length <= memmap[j].base
  BY MemMapsAssumption DEF MapInv, Entries
<1>3. j \in Int /\ k \in Int
  BY DEF Entries
<1> QED BY <1>1, <1>2, <1>3

\* An address of an allocator is an address of its entry.
LEMMA InEntry ==
  ASSUME MapInv, RegionInv, NEW k \in DOMAIN pas, NEW x \in Int, InRegion(pas[k], x)
  PROVE  memmap[k].base <= x /\ x < memmap[k].base + memmap[k].length
BY RegionFacts DEF InRegion

\* No address belongs to two allocators.
LEMMA RegionsDisjoint ==
  ASSUME MapInv, RegionInv, NEW j \in DOMAIN pas, NEW k \in DOMAIN pas, NEW x \in Int,
         InRegion(pas[j], x), InRegion(pas[k], x)
  PROVE  j = k
BY RegionFacts, InEntry, EntriesDisjoint

\* Each free and each handed out address belongs to one allocator.
LEMMA OwnerOfAddress ==
  ASSUME MapInv, RegionInv, NEW j \in DOMAIN pas, NEW k \in DOMAIN pas, NEW x,
         x \in FreeAddresses(pas[j]) \cup UsedAddresses(pas[j], MetadataPages(j)),
         x \in FreeAddresses(pas[k]) \cup UsedAddresses(pas[k], MetadataPages(k))
  PROVE  j = k
<1>1. /\ x \in Nat /\ InRegion(pas[j], x)
      /\ InRegion(pas[k], x)
  BY RegionFacts, AddressesApart
<1> QED BY <1>1, RegionsDisjoint

\* An address that callers may pass to free is that of a managed page of the
\* allocator in whose region it lies.
LEMMA TargetIsPage ==
  ASSUME MapInv, RegionInv, NEW a \in FreeTargets, NEW k \in DOMAIN pas, InRegion(pas[k], a)
  PROVE  \E p \in MetadataPages(k) .. PageCount(k) - 1 : a = PageAddress(pas[k], p)
<1>1. PICK j \in Entries : a \in PagesOf(memmap[j])
  BY DEF FreeTargets
<1>2. PICK p \in 0 .. PageCount(j) - 1 : a = memmap[j].base + p * SYSTEM_PAGE_SIZE
  BY <1>1 DEF PagesOf, PageCount
<1>3. /\ memmap[j].base \in Nat /\ memmap[j].length \in Nat /\ PageCount(j) \in Nat
      /\ PageCount(j) * SYSTEM_PAGE_SIZE <= memmap[j].length
  BY EntryFacts
<1>4. p * SYSTEM_PAGE_SIZE + SYSTEM_PAGE_SIZE <= PageCount(j) * SYSTEM_PAGE_SIZE
      /\ p * SYSTEM_PAGE_SIZE \in Nat /\ PageCount(j) * SYSTEM_PAGE_SIZE \in Nat
  BY <1>3, MulStep, PageSizeAssumption
<1>5. a \in Int /\ memmap[j].base <= a /\ a < memmap[j].base + memmap[j].length
  BY <1>2, <1>3, <1>4, PageSizeAssumption
<1>6. k \in Entries
  BY RegionFacts
<1>7. memmap[k].base <= a /\ a < memmap[k].base + memmap[k].length
  BY <1>5, InEntry
<1>8. j = k
  BY <1>5, <1>6, <1>7, EntriesDisjoint
<1>9. a = PageAddress(pas[k], p)
  BY <1>2, <1>8, RegionFacts DEF PageAddress
<1>10. a \notin MetadataOf(k)
  <2>1. a \notin UNION {MetadataOf(l) : l \in DOMAIN pas}
    BY DEF FreeTargets
  <2>2. MetadataOf(k) \in {MetadataOf(l) : l \in DOMAIN pas}
    OBVIOUS
  <2> HIDE DEF MetadataOf
  <2> QED BY <2>1, <2>2
<1>11. ~ p \in 0 .. MetadataPages(k) - 1
  BY <1>2, <1>8, <1>10, RegionFacts DEF MetadataOf, MetadataPages
<1> QED BY <1>2, <1>3, <1>8, <1>9, <1>11, RegionFacts

-----------------------------------------------------------------------------
(* The lists                                                               *)

\* All three lists are lists of allocators; the first holds every one.
LEMMA OnListFacts ==
  ASSUME MapInv
  PROVE  /\ \A l \in Lists : OnList(l) \subseteq DOMAIN pas
         /\ OnList("all") = DOMAIN pas
         /\ \A k \in DOMAIN pas : k \in OnList("16mb") <=> Low(memmap[k])
         /\ \A k \in DOMAIN pas : k \in OnList("4gb") <=> InZone(memmap[k], GB4)
         /\ \A k \in DOMAIN pas : k \in Entries /\ k \in Int /\ 1 <= k /\ k < i
         /\ i \in Int
<1>1. Len(memmap) \in Nat
  BY MemMapsAssumption DEF MapInv
<1>2. \A k \in DOMAIN pas : k \in Entries /\ k \in Int /\ 1 <= k /\ k < i
  BY <1>1 DEF MapInv, Entries
<1>3. i \in Int
  BY <1>1 DEF MapInv
<1>4. /\ \A l \in Lists : OnList(l) \subseteq DOMAIN pas
      /\ OnList("all") = DOMAIN pas
      /\ \A k \in DOMAIN pas : k \in OnList("16mb") <=> Low(memmap[k])
      /\ \A k \in DOMAIN pas : k \in OnList("4gb") <=> InZone(memmap[k], GB4)
  BY DEF OnList, ListsOf, Low
<1> QED BY <1>2, <1>3, <1>4

\* The lists as long as no allocator is added.
LEMMA ListsKept ==
  ASSUME ListsInv, UNCHANGED <<memmap, next, last, first, first_non_16mb>>,
         DOMAIN pas' = DOMAIN pas, phase' = "running" => phase = "running"
  PROVE  ListsInv'
<1>1. \A l : OnList(l)' = OnList(l)
  BY DEF OnList
<1>2. LinksTypeOK'
  BY DEF ListsInv, LinksTypeOK, Entries
<1>3. ASSUME NEW l \in Lists
      PROVE  ListInv(l)'
  <2>1. ListInv(l)
    BY DEF ListsInv
  <2> QED BY <1>1, <2>1 DEF ListInv, Entries
<1>4. NonLowInv'
  BY DEF ListsInv, NonLowInv
<1> QED BY <1>2, <1>3, <1>4 DEF ListsInv

\* Setup appends entry i, which is behind all allocators, to its lists.
LEMMA AppendKeepsList ==
  ASSUME MapInv, ListsInv, phase = "setup", phase' = "setup", i \in Entries,
         UNCHANGED <<memmap, first>>, DOMAIN pas' = DOMAIN pas \cup {i},
         AppendTo(ListsOf(memmap[i]), i),
         NEW l \in Lists
  PROVE  /\ ListInv(l)'
         /\ next'[l] \in [Entries \cup {Sentinel, Base} -> Int]
         /\ last'[l] \in Int
<1> DEFINE on == ListsOf(memmap[i])
           D == DOMAIN pas
           O == OnList(l)
           Q == Entries \cup {Sentinel, Base}
<1>1. /\ O \subseteq D /\ i \in Int /\ 1 <= i /\ i \notin D
      /\ \A k \in D : k \in Entries /\ k \in Int /\ 1 <= k /\ k < i
  BY OnListFacts DEF Entries
<1>2. OnList(l)' = IF l \in on THEN O \cup {i} ELSE O
  BY DEF OnList
<1>3. ListInv(l) /\ next[l] \in [Q -> Int] /\ last[l] \in Int
  BY DEF ListsInv, LinksTypeOK
<1>4. last[l] \in Q /\ last[l] # i /\ last[l] # Sentinel
  BY <1>1, <1>3 DEF ListInv, Base, Sentinel
<1>5. i \in Q /\ Sentinel \in Q /\ Base \in Q /\ Sentinel \in Int /\ Base \in Int
      /\ i # Sentinel /\ i # Base /\ i # NULL /\ Base # Sentinel /\ NULL # Sentinel
  BY <1>1 DEF Base, Sentinel, NULL
<1>6. ASSUME l \in on
      PROVE  /\ next'[l] = [next[l] EXCEPT ![i] = Sentinel, ![last[l]] = i]
             /\ last'[l] = i
  BY <1>6 DEF AppendTo
<1>7. ASSUME l \notin on
      PROVE  /\ next'[l] = [next[l] EXCEPT ![i] = Sentinel]
             /\ last'[l] = last[l]
  BY <1>7 DEF AppendTo
<1>8. next'[l] \in [Q -> Int] /\ last'[l] \in Int
  BY <1>1, <1>3, <1>4, <1>5, <1>6, <1>7
<1>9. /\ next'[l][i] = Sentinel
      /\ l \in on => next'[l][last[l]] = i
      /\ \A p \in Q : p # i /\ (l \in on => p # last[l]) => next'[l][p] = next[l][p]
  BY <1>3, <1>4, <1>5, <1>6, <1>7
<1>10. Entries' = Entries /\ first'[l] = first[l]
  BY DEF Entries
<1>11. /\ next[l][Sentinel] = Sentinel
       /\ next[l][Base] \in O \cup {NULL}
       /\ \A k \in O : next[l][Base] # NULL /\ next[l][Base] <= k
       /\ \A p \in D : next[l][p] = Sentinel \/ (next[l][p] \in O /\ p < next[l][p])
       /\ \A p, k \in O : p < k => next[l][p] # Sentinel /\ next[l][p] <= k
       /\ \A p \in Entries \ D : next[l][p] = NULL
       /\ \/ last[l] = Base /\ O = {}
          \/ last[l] \in O /\ \A k \in O : k <= last[l]
       /\ first[l] \in {NULL, next[l][Base]}
  BY <1>3 DEF ListInv
<1> SUFFICES ListInv(l)'
  BY <1>8
<1> HIDE DEF on, D, O, Q
<1>12. CASE l \notin on
  <2>1. \A p \in Q : p # i => next'[l][p] = next[l][p]
    BY <1>9, <1>12
  <2>2. last'[l] = last[l] /\ OnList(l)' = O /\ DOMAIN pas' = D \cup {i}
    BY <1>2, <1>7, <1>12 DEF D
  <2>3. \A p \in Entries : p \in Q
    BY DEF Q
  <2>4. /\ next'[l][Sentinel] = Sentinel
        /\ next'[l][Base] = next[l][Base]
        /\ \A p \in D : next'[l][p] = next[l][p]
        /\ \A p \in O : next'[l][p] = next[l][p]
        /\ \A p \in Entries \ (D \cup {i}) : next'[l][p] = next[l][p]
    BY <1>1, <1>5, <1>11, <2>1, <2>3
  <2> QED
    BY <1>8, <1>9, <1>10, <1>11, <2>2, <2>4 DEF ListInv
<1>13. CASE l \in on
  <2>1. last'[l] = i /\ OnList(l)' = O \cup {i} /\ DOMAIN pas' = D \cup {i}
    BY <1>2, <1>6, <1>13 DEF D
  <2>2. \A p \in Q : p # i /\ p # last[l] => next'[l][p] = next[l][p]
    BY <1>9
  <2>3. next'[l][i] = Sentinel /\ next'[l][last[l]] = i
    BY <1>9, <1>13
  <2>4. \A p \in Entries : p \in Q
    BY DEF Q
  <2>5. last[l] # Sentinel /\ next'[l][Sentinel] = Sentinel
    BY <1>4, <1>5, <1>11, <2>2
  <2>6. \A p \in Entries \ (D \cup {i}) : next'[l][p] = NULL
    <3>1. \A p \in Entries \ (D \cup {i}) : p # last[l]
      BY <1>1, <1>11 DEF Base, Entries
    <3> QED BY <1>11, <2>2, <2>4, <3>1
  <2>7. CASE O = {}
    <3>1. last[l] = Base
      BY <1>11, <2>7
    <3>2. next'[l][Base] = i
      BY <2>3, <3>1
    <3>3. \A p \in D : next'[l][p] = Sentinel
      BY <1>1, <1>11, <2>2, <2>4, <2>7, <3>1 DEF Base
    <3>4. first[l] = NULL
      BY <1>11, <2>7
    <3> QED
      BY <1>1, <1>5, <1>10, <2>1, <2>3, <2>5, <2>6, <2>7, <3>2, <3>3, <3>4 DEF ListInv
  <2>8. CASE O # {}
    <3>1. last[l] \in O /\ (\A k \in O : k <= last[l]) /\ last[l] # Base
      BY <1>1, <1>11, <2>8 DEF Base
    <3>2. next'[l][Base] = next[l][Base]
      BY <1>5, <2>2, <3>1
    <3>3. next'[l][Base] \in O /\ next'[l][Base] # NULL /\ \A k \in O : next'[l][Base] <= k
      BY <1>1, <1>11, <2>8, <3>2 DEF NULL
    <3>4. \A p \in D : next'[l][p] = Sentinel
                        \/ (next'[l][p] \in O \cup {i} /\ p < next'[l][p])
      BY <1>1, <1>11, <2>2, <2>3, <2>4
    <3>5. ASSUME NEW p \in O \cup {i}, NEW k \in O \cup {i}, p < k
          PROVE  next'[l][p] # Sentinel /\ next'[l][p] <= k
      <4>1. p \in O
        BY <1>1, <3>5
      <4>2. CASE p = last[l]
        <5>1. k = i
          BY <1>1, <3>1, <3>5, <4>2
        <5> QED BY <1>1, <1>5, <2>3, <4>2, <5>1
      <4>3. CASE p # last[l]
        <5>1. next'[l][p] = next[l][p]
          BY <1>1, <2>2, <2>4, <4>1, <4>3
        <5>2. p < last[l]
          BY <1>1, <3>1, <4>1, <4>3
        <5>3. next[l][p] # Sentinel /\ next[l][p] <= last[l]
          BY <1>11, <3>1, <4>1, <5>2
        <5>4. next[l][p] \in O
          BY <1>1, <1>11, <4>1, <5>3
        <5>5. CASE k = i
          <6>1. next[l][p] \in D
            BY <1>1, <5>4
          <6>2. next[l][p] <= i
            BY <1>1, <6>1
          <6> QED BY <5>1, <5>3, <5>5, <6>2
        <5>6. CASE k \in O
          BY <1>11, <3>5, <4>1, <5>1, <5>6
        <5> QED BY <5>5, <5>6
      <4> QED BY <4>2, <4>3
    <3>6. \A k \in O \cup {i} : next'[l][Base] <= k /\ k <= i
      BY <1>1, <3>3
    <3>7. first[l] \in {NULL, next'[l][Base]}
      BY <1>11, <3>2
    <3> QED
      BY <1>10, <2>1, <2>3, <2>5, <2>6, <3>3, <3>4, <3>5, <3>6, <3>7 DEF ListInv
  <2> QED BY <2>7, <2>8
<1> QED BY <1>12, <1>13

-----------------------------------------------------------------------------
(* Steps that leave the allocators alone                                   *)

\* The free pages of the machine.
PoolFree == UNION {FreeAddresses(pas[k]) : k \in DOMAIN pas}

\* What a step keeps when it changes no allocator and nothing that is held.
LEMMA AllocatorsKept ==
  ASSUME MemInv, UNCHANGED <<memmap, pas, held>>,
         phase' \in {"setup", "running", "halted"}, i' \in {i, i + 1}, i' <= Len(memmap) + 1,
         phase' = "setup" => phase = "setup" /\ op' = op
  PROVE  MapInv' /\ RegionInv' /\ HeldInv' /\ PoolFree' = PoolFree
<1>1. Len(memmap) \in Nat
  BY MemMapsAssumption DEF MemInv, MapInv
<1>2. MapInv'
  BY <1>1 DEF MemInv, MapInv
<1>3. RegionInv'
  BY DEF MemInv, RegionInv, MetadataPages, PageCount
<1>4. HeldInv'
  BY DEF MemInv, HeldInv, MetadataPages, PageCount
<1> QED BY <1>2, <1>3, <1>4 DEF PoolFree

\* The call in progress, as long as neither it nor an allocator changes.
LEMMA WalkKept ==
  ASSUME WalkInv, UNCHANGED <<memmap, pas, op>>
  PROVE  WalkInv'
<1>1. \A l : OnList(l)' = OnList(l)
  BY DEF OnList
<1>2. AllocWalkInv => AllocWalkInv'
  BY <1>1 DEF AllocWalkInv, Passed
<1>3. FreeWalkInv => FreeWalkInv'
  BY DEF FreeWalkInv, Passed, FreeTargets, MetadataOf, Entries
<1> QED BY <1>1, <1>2, <1>3 DEF WalkInv

\* A step that only changes the phase.
LEMMA HaltStep ==
  ASSUME MemInv, UNCHANGED <<memmap, i, pas, lists, op, held>>,
         phase' \in {phase, "halted"}
  PROVE  MemInv' /\ PoolFree' = PoolFree
<1>1. UNCHANGED <<next, last, first, first_non_16mb>>
  BY DEF lists
<1>2. i \in Int /\ i <= Len(memmap) + 1 /\ phase' \in {"setup", "running", "halted"}
  <2>1. Len(memmap) \in Nat
    BY MemMapsAssumption DEF MemInv, MapInv
  <2> QED BY <2>1 DEF MemInv, MapInv
<1>3. MapInv' /\ RegionInv' /\ HeldInv' /\ PoolFree' = PoolFree
  BY <1>2, AllocatorsKept
<1>4. ListsInv'
  BY <1>1, ListsKept DEF MemInv
<1>5. WalkInv'
  BY WalkKept DEF MemInv
<1> QED BY <1>3, <1>4, <1>5 DEF MemInv

\* An entry that is not usable memory or too small.
LEMMA SetupSkipsStep ==
  ASSUME MemInv, SetupSkips
  PROVE  MemInv' /\ PoolFree' = PoolFree
<1>1. UNCHANGED <<memmap, phase, pas, op, held, next, last, first, first_non_16mb>>
  BY DEF SetupSkips, lists
<1>2. i' = i + 1 /\ i' <= Len(memmap) + 1
  <2>1. Len(memmap) \in Nat
    BY MemMapsAssumption DEF MemInv, MapInv
  <2> QED BY <2>1 DEF SetupSkips, Entries
<1>3. phase \in {"setup", "running", "halted"}
  BY DEF MemInv, MapInv
<1>4. MapInv' /\ RegionInv' /\ HeldInv' /\ PoolFree' = PoolFree
  BY <1>1, <1>2, <1>3, AllocatorsKept
<1>5. ListsInv'
  BY <1>1, ListsKept DEF MemInv
<1>6. WalkInv'
  BY <1>1, WalkKept DEF MemInv
<1> QED BY <1>4, <1>5, <1>6 DEF MemInv

\* The heads of the lists are published.
LEMMA SetupDoneStep ==
  ASSUME MemInv, SetupDone
  PROVE  MemInv' /\ PoolFree' = PoolFree
<1>1. UNCHANGED <<memmap, i, pas, op, held, next, last, first_non_16mb>> /\ phase' = "running"
  BY DEF SetupDone
<1>2. i \in Int /\ i <= Len(memmap) + 1
  <2>1. Len(memmap) \in Nat
    BY MemMapsAssumption DEF MemInv, MapInv
  <2> QED BY <2>1 DEF MemInv, MapInv
<1>3. MapInv' /\ RegionInv' /\ HeldInv' /\ PoolFree' = PoolFree
  BY <1>1, <1>2, AllocatorsKept
<1>4. WalkInv'
  BY <1>1, WalkKept DEF MemInv
<1>5. ListsInv'
  <2>1. \A l : OnList(l)' = OnList(l)
    BY <1>1 DEF OnList
  <2>2. \A l \in Lists : first'[l] = next[l][Base]
    BY DEF SetupDone
  <2>3. ASSUME NEW l \in Lists
        PROVE  ListInv(l)'
    <3>1. ListInv(l)
      BY DEF MemInv, ListsInv
    <3> QED BY <1>1, <2>1, <2>2, <3>1 DEF ListInv, Entries
  <2>4. LinksTypeOK'
    <3>1. LinksTypeOK
      BY DEF MemInv, ListsInv
    <3>2. \A l \in Lists : next[l][Base] \in Int
      BY <3>1 DEF LinksTypeOK
    <3>3. first' \in [Lists -> Int]
      BY <3>2 DEF SetupDone
    <3> QED BY <1>1, <3>1, <3>3 DEF LinksTypeOK, Entries
  <2>5. NonLowInv'
    BY <1>1 DEF MemInv, ListsInv, NonLowInv
  <2> QED BY <2>3, <2>4, <2>5 DEF ListsInv
<1> QED BY <1>3, <1>4, <1>5 DEF MemInv

-----------------------------------------------------------------------------
(* system_paging_setup puts a region under management                      *)

\* The number of pages that the metadata takes.
LEMMA RequiredPagesFacts ==
  ASSUME NEW n \in Nat \ {0}
  PROVE  RequiredPages(n) \in Nat \ {0}
<1>1. system_pa_calculate_required_size(n) \in Nat
  BY RequiredSizeBounds
<1> HIDE DEF system_pa_calculate_required_size
<1>2. system_pa_calculate_required_size(n) \div SYSTEM_PAGE_SIZE \in Nat
  BY <1>1, PageSizeAssumption
<1> QED BY <1>2 DEF RequiredPages

\* SetupRegion when system_pa_init passes its kasserts.
RegionAdded ==
  /\ phase = "setup" /\ i \in Entries
  /\ memmap[i].usable /\ memmap[i].length > SYSTEM_PAGE_SIZE
  /\ system_pa_init_asserts(MetadataPages(i), PageCount(i))
  /\ pas' = [k \in DOMAIN pas \cup {i} |->
               IF k = i THEN system_pa_init(memmap[i].base, MetadataPages(i), PageCount(i))
                        ELSE pas[k]]
  /\ AppendTo(ListsOf(memmap[i]), i)
  /\ first_non_16mb' = IF first_non_16mb = Sentinel /\ "16mb" \notin ListsOf(memmap[i])
                       THEN i ELSE first_non_16mb
  /\ i' = i + 1
  /\ UNCHANGED <<memmap, phase, first, op, held>>

\* A region is added with all its managed pages free.
LEMMA RegionAddedStep ==
  ASSUME MemInv, RegionAdded
  PROVE  MemInv' /\ PoolFree \subseteq PoolFree' /\ held = {} /\ held' = held
<1> DEFINE n == PageCount(i)
           m == MetadataPages(i)
           new == system_pa_init(memmap[i].base, m, n)
<1>1. /\ MapInv /\ RegionInv /\ HeldInv /\ ListsInv /\ WalkInv
      /\ phase = "setup" /\ phase' = "setup" /\ i \in Entries /\ i' = i + 1
      /\ UNCHANGED <<memmap, first, op, held>>
      /\ DOMAIN pas' = DOMAIN pas \cup {i}
      /\ AppendTo(ListsOf(memmap[i]), i)
      /\ memmap[i].usable
  BY DEF MemInv, RegionAdded
<1>2. /\ \A k \in DOMAIN pas : k \in Entries /\ k \in Int /\ 1 <= k /\ k < i
      /\ i \in Int /\ i \notin DOMAIN pas
  BY <1>1, OnListFacts
<1>3. memmap[i].base \in Nat /\ n \in Nat \ {0}
  BY <1>1, EntryFacts DEF RegionAdded
<1>4. m \in Nat \ {0} /\ system_pa_init_asserts(m, n)
  BY <1>3, RequiredPagesFacts DEF MetadataPages, RegionAdded
<1>5. m \in 1 .. n
  BY <1>3, <1>4 DEF system_pa_init_asserts
<1>6. \A k : PageCount(k)' = PageCount(k) /\ MetadataPages(k)' = MetadataPages(k)
  BY <1>1 DEF PageCount, MetadataPages
<1>7. pas'[i] = new /\ \A k \in DOMAIN pas : pas'[k] = pas[k]
  BY <1>2 DEF RegionAdded
<1>8. new \in Structs(memmap[i].base, n) /\ StackMatchesBitmap(new, m)
  BY <1>3, <1>4, InitMatches
<1>9. UsedAddresses(new, m) = {}
  BY <1>3, <1>4, InitEffect
<1> HIDE DEF n, m, new
<1>10. MapInv'
  <2>1. Len(memmap) \in Nat
    BY <1>1, MemMapsAssumption DEF MapInv
  <2> QED BY <1>1, <1>2, <2>1 DEF MapInv, Entries
<1>11. RegionInv'
  <2> SUFFICES ASSUME NEW k \in DOMAIN pas \cup {i}
               PROVE  /\ memmap[k].usable
                      /\ MetadataPages(k) \in 1 .. PageCount(k)
                      /\ pas'[k] \in Structs(memmap[k].base, PageCount(k))
                      /\ StackMatchesBitmap(pas'[k], MetadataPages(k))
    BY <1>1, <1>6 DEF RegionInv
  <2>1. CASE k = i
    BY <1>1, <1>5, <1>7, <1>8, <2>1 DEF n, m
  <2>2. CASE k \in DOMAIN pas
    BY <1>1, <1>7, <2>2 DEF RegionInv
  <2> QED BY <2>1, <2>2
<1>12. held = {}
  BY <1>1 DEF HeldInv
<1>13. HeldInv'
  <2>1. \A k \in DOMAIN pas : UsedAddresses(pas[k], MetadataPages(k)) = {}
    BY <1>1, <1>12 DEF HeldInv
  <2>2. \A k \in DOMAIN pas' : UsedAddresses(pas'[k], MetadataPages(k)) = {}
    BY <1>1, <1>7, <1>9, <2>1 DEF m
  <2>3. UNION {UsedAddresses(pas'[k], MetadataPages(k)') : k \in DOMAIN pas'} = {}
    BY <1>6, <2>2
  <2>4. held' = {} /\ op' = op /\ op = Idle
    BY <1>1, <1>12 DEF HeldInv
  <2> QED BY <2>3, <2>4 DEF HeldInv
<1>14. ListsInv'
  <2>1. \A l \in Lists : /\ ListInv(l)' /\ last'[l] \in Int
                         /\ next'[l] \in [Entries \cup {Sentinel, Base} -> Int]
    BY <1>1, AppendKeepsList
  <2>2. LinksTypeOK'
    <3>1. next' = [l \in Lists |-> next'[l]] /\ last' = [l \in Lists |-> last'[l]]
      BY <1>1 DEF AppendTo
    <3>2. Entries' = Entries /\ first' \in [Lists -> Int]
      BY <1>1 DEF Entries, ListsInv, LinksTypeOK
    <3> QED BY <2>1, <3>1, <3>2 DEF LinksTypeOK
  <2>3. "16mb" \in ListsOf(memmap[i]) <=> Low(memmap[i])
    BY DEF ListsOf, Low
  <2>4. NonLowInv
    BY <1>1 DEF ListsInv
  <2>5. NonLowInv'
    <3>1. CASE first_non_16mb = Sentinel /\ Low(memmap[i])
      <4>1. first_non_16mb' = Sentinel
        BY <2>3, <3>1 DEF RegionAdded
      <4>2. \A k \in DOMAIN pas : Low(memmap[k])
        BY <1>2, <2>4, <3>1 DEF NonLowInv, Sentinel
      <4> QED BY <1>1, <3>1, <4>1, <4>2 DEF NonLowInv
    <3>2. CASE first_non_16mb = Sentinel /\ ~ Low(memmap[i])
      <4>1. first_non_16mb' = i
        BY <2>3, <3>2 DEF RegionAdded
      <4>2. \A k \in DOMAIN pas : Low(memmap[k])
        BY <1>2, <2>4, <3>2 DEF NonLowInv, Sentinel
      <4> QED BY <1>1, <1>2, <3>2, <4>1, <4>2 DEF NonLowInv
    <3>3. CASE first_non_16mb # Sentinel
      <4>1. first_non_16mb' = first_non_16mb
        BY <3>3 DEF RegionAdded
      <4>2. /\ first_non_16mb \in DOMAIN pas /\ ~ Low(memmap[first_non_16mb])
            /\ \A k \in DOMAIN pas : ~ Low(memmap[k]) => first_non_16mb <= k
        BY <2>4, <3>3 DEF NonLowInv
      <4>3. first_non_16mb <= i
        BY <1>2, <4>2
      <4> QED BY <1>1, <4>1, <4>2, <4>3 DEF NonLowInv
    <3> QED BY <3>1, <3>2, <3>3
  <2> QED BY <2>1, <2>2, <2>5 DEF ListsInv
<1>15. WalkInv'
  BY <1>1 DEF HeldInv, WalkInv
<1>16. PoolFree \subseteq PoolFree'
  <2> SUFFICES ASSUME NEW k \in DOMAIN pas, NEW x \in FreeAddresses(pas[k])
               PROVE  x \in PoolFree'
    BY DEF PoolFree
  <2>1. x \in FreeAddresses(pas'[k]) /\ k \in DOMAIN pas'
    BY <1>1, <1>7
  <2> QED BY <2>1 DEF PoolFree
<1> QED BY <1>1, <1>10, <1>11, <1>12, <1>13, <1>14, <1>15, <1>16 DEF MemInv

\* An entry of the memory map either becomes an allocator or stops the kernel.
LEMMA SetupRegionStep ==
  ASSUME MemInv, SetupRegion
  PROVE  MemInv' /\ PoolFree \subseteq PoolFree' /\ held' = held
         /\ (PoolFree' \ PoolFree) \cap held = {}
<1> DEFINE fits == /\ memmap[i].length >= system_pa_calculate_required_size(PageCount(i))
                   /\ system_pa_init_asserts(MetadataPages(i), PageCount(i))
<1>1. CASE fits
  <2>1. RegionAdded
    BY <1>1 DEF SetupRegion, RegionAdded, PageCount, MetadataPages
  <2> QED BY <2>1, RegionAddedStep
<1>2. CASE ~ fits
  <2>1. UNCHANGED <<memmap, i, pas, lists, op, held>> /\ phase' = "halted"
    BY <1>2 DEF SetupRegion, PageCount, MetadataPages
  <2> QED BY <2>1, HaltStep
<1> QED BY <1>1, <1>2

-----------------------------------------------------------------------------
(* Where a walk is                                                         *)

\* A loop that goes on looks at an allocator of its list.
LEMMA AtAllocatorFacts ==
  ASSUME MemInv, NEW call \in {"alloc", "free"}, AtAllocator(call)
  PROVE  /\ phase = "running" /\ op # Idle /\ op.call = call
         /\ op \in AllocOps \cup FreeOps
         /\ op.list \in Lists /\ op.current \in OnList(op.list) /\ op.current \in DOMAIN pas
<1>1. phase = "running" /\ op # Idle /\ op.call = call
  BY DEF AtAllocator, Idle
<1>2. op \in AllocOps \cup FreeOps /\ op.current \in OnList(op.list) \cup {NULL, Sentinel}
  BY <1>1 DEF MemInv, WalkInv
<1>3. op.list \in Lists
  BY <1>2 DEF AllocOps, FreeOps, Lists
<1>4. next["all"][Sentinel] = Sentinel
  BY DEF MemInv, ListsInv, ListInv, Lists
<1>5. op.current # NULL /\ op.current # Sentinel
  BY <1>4 DEF AtAllocator, system_paging_pa_is_sentinel
<1>6. op.current \in OnList(op.list)
  BY <1>2, <1>5
<1>7. op.current \in DOMAIN pas
  BY <1>6 DEF OnList
<1> QED BY <1>1, <1>2, <1>3, <1>6, <1>7

\* Only the sentinel is its own successor: a loop that stops has seen its list.
LEMMA AtSentinelFacts ==
  ASSUME MemInv, NEW call \in {"alloc", "free"}, AtSentinel(call)
  PROVE  /\ phase = "running" /\ op # Idle /\ op.call = call
         /\ op \in AllocOps \cup FreeOps
         /\ op.list \in Lists /\ op.current = Sentinel /\ op.current \notin DOMAIN pas
<1>1. phase = "running" /\ op # Idle /\ op.call = call
  BY DEF AtSentinel, Idle
<1>2. op \in AllocOps \cup FreeOps /\ op.current \in OnList(op.list) \cup {NULL, Sentinel}
  BY <1>1 DEF MemInv, WalkInv
<1>3. op.list \in Lists
  BY <1>2 DEF AllocOps, FreeOps, Lists
<1>4. \A p \in DOMAIN pas : p \in Int /\ 1 <= p
  BY OnListFacts DEF MemInv
<1>5. \A p \in DOMAIN pas : next["all"][p] = Sentinel
                           \/ (next["all"][p] \in OnList("all") /\ p < next["all"][p])
  BY DEF MemInv, ListsInv, ListInv, Lists
<1>6. \A p \in DOMAIN pas : next["all"][p] # p
  BY <1>4, <1>5 DEF Sentinel
<1>7. op.current \notin DOMAIN pas
  BY <1>6 DEF AtSentinel, system_paging_pa_is_sentinel
<1>8. op.current = Sentinel
  BY <1>2, <1>7 DEF AtSentinel, OnList
<1> QED BY <1>1, <1>2, <1>3, <1>7, <1>8

-----------------------------------------------------------------------------
(* Steps that change an allocator                                          *)

\* What does not depend on the state of allocator c.
LEMMA OthersKept ==
  ASSUME MemInv, NEW c \in DOMAIN pas, NEW new,
         pas' = [pas EXCEPT ![c] = new],
         new \in Structs(memmap[c].base, PageCount(c)),
         StackMatchesBitmap(new, MetadataPages(c)),
         UNCHANGED <<memmap, i, lists, phase>>, op' = Idle
  PROVE  /\ MapInv' /\ RegionInv' /\ ListsInv' /\ WalkInv'
         /\ DOMAIN pas' = DOMAIN pas /\ pas'[c] = new
         /\ \A k \in DOMAIN pas : k # c => pas'[k] = pas[k]
         /\ \A k : MetadataPages(k)' = MetadataPages(k)
<1>1. /\ DOMAIN pas' = DOMAIN pas /\ pas'[c] = new
      /\ \A k \in DOMAIN pas : k # c => pas'[k] = pas[k]
  OBVIOUS
<1>2. \A k : PageCount(k)' = PageCount(k) /\ MetadataPages(k)' = MetadataPages(k)
  BY DEF PageCount, MetadataPages
<1>3. MapInv'
  BY <1>1 DEF MemInv, MapInv
<1>4. RegionInv'
  <2> SUFFICES ASSUME NEW k \in DOMAIN pas
               PROVE  /\ memmap[k].usable
                      /\ MetadataPages(k) \in 1 .. PageCount(k)
                      /\ pas'[k] \in Structs(memmap[k].base, PageCount(k))
                      /\ StackMatchesBitmap(pas'[k], MetadataPages(k))
    BY <1>1, <1>2 DEF RegionInv
  <2>1. RegionInv
    BY DEF MemInv
  <2>2. CASE k = c
    BY <1>1, <2>1, <2>2 DEF RegionInv
  <2>3. CASE k # c
    BY <1>1, <2>1, <2>3 DEF RegionInv
  <2> QED BY <2>2, <2>3
<1>5. ListsInv'
  BY <1>1, ListsKept DEF MemInv, lists
<1>6. WalkInv'
  BY DEF WalkInv
<1> QED BY <1>1, <1>2, <1>3, <1>4, <1>5, <1>6

\* A request is served by the allocator the loop looks at.
LEMMA AllocTakesStep ==
  ASSUME MemInv, RegionsBelow4GiB, AllocTakes
  PROVE  LET pa == pas[op.current]
             a  == AllocAddress(pa)
         IN  /\ MemInv'
             /\ a \in PoolFree /\ PoolFree' = PoolFree \ {a} /\ held' = held \cup {a}
             /\ a \notin held /\ UNCHANGED <<phase, memmap>>
             /\ a \in Nat /\ memmap[op.current].base \in Nat /\ memmap[op.current].length \in Nat
             /\ a + SYSTEM_PAGE_SIZE
                  <= memmap[op.current].base + memmap[op.current].length
<1> DEFINE c == op.current
           pa == pas[c]
           a == AllocAddress(pa)
           m == MetadataPages(c)
           n == PageCount(c)
           new == system_pa_alloc(pa)
<1>1. c \in DOMAIN pas
  BY AtAllocatorFacts DEF AllocTakes
<1>2. MapInv /\ RegionInv /\ HeldInv
  BY DEF MemInv
<1>3. /\ c \in Entries /\ memmap[c].base \in Nat /\ n \in Nat /\ m \in Nat
      /\ pa \in Structs(memmap[c].base, n) /\ StackMatchesBitmap(pa, m)
      /\ memmap[c].length \in Nat
      /\ n * SYSTEM_PAGE_SIZE \in Nat /\ n * SYSTEM_PAGE_SIZE <= memmap[c].length
  BY <1>1, <1>2, RegionFacts
<1>4. n * SYSTEM_PAGE_SIZE <= U32_MAX + 1
  <2>1. memmap[c].usable /\ memmap \in MemMaps
    BY <1>1, <1>2 DEF RegionInv, MapInv
  <2>2. memmap[c].length <= U32_MAX + 1
    BY <1>3, <2>1 DEF RegionsBelow4GiB, Entries
  <2> QED BY <1>3, <2>2, U32Assumption
<1>5. ~ system_pa_exhausted(pa)
  BY DEF AllocTakes
<1>6. /\ system_pa_alloc_asserts(pa)
      /\ new \in Structs(memmap[c].base, n)
      /\ StackMatchesBitmap(new, m)
      /\ a \in FreeAddresses(pa)
      /\ FreeAddresses(new) = FreeAddresses(pa) \ {a}
      /\ UsedAddresses(new, m) = UsedAddresses(pa, m) \cup {a}
      /\ a \in Nat
      /\ a + SYSTEM_PAGE_SIZE <= memmap[c].base + n * SYSTEM_PAGE_SIZE
  BY <1>3, <1>4, <1>5, AllocEffect
<1>7. /\ pas' = [pas EXCEPT ![c] = new] /\ held' = held \cup {a} /\ op' = Idle
      /\ UNCHANGED <<phase, memmap, i, lists>>
  BY <1>6 DEF AllocTakes
<1> HIDE DEF c, pa, a, m, n, new
<1>8. /\ MapInv' /\ RegionInv' /\ ListsInv' /\ WalkInv'
      /\ DOMAIN pas' = DOMAIN pas /\ pas'[c] = new
      /\ \A k \in DOMAIN pas : k # c => pas'[k] = pas[k]
      /\ \A k : MetadataPages(k)' = MetadataPages(k)
  BY <1>1, <1>6, <1>7, OthersKept DEF m, n
<1>9. \A k \in DOMAIN pas :
         a \in FreeAddresses(pas[k]) \cup UsedAddresses(pas[k], MetadataPages(k)) => k = c
  BY <1>1, <1>2, <1>6, OwnerOfAddress DEF pa
<1>10. a \notin held
  <2>1. a \notin UsedAddresses(pa, m)
    BY <1>3, <1>6, AddressesApart
  <2> QED BY <1>2, <1>9, <2>1 DEF HeldInv, m, pa
<1>11. a \in PoolFree
  BY <1>1, <1>6 DEF PoolFree, pa
<1>12. PoolFree' = PoolFree \ {a}
  <2>1. ASSUME NEW x \in PoolFree'
        PROVE  x \in PoolFree \ {a}
    <3>1. PICK k \in DOMAIN pas : x \in FreeAddresses(pas'[k])
      BY <1>8 DEF PoolFree
    <3>2. CASE k = c
      BY <1>6, <1>8, <3>1, <3>2 DEF PoolFree, pa
    <3>3. CASE k # c
      <4>1. x \in FreeAddresses(pas[k])
        BY <1>8, <3>1, <3>3
      <4> QED BY <1>9, <3>3, <4>1 DEF PoolFree
    <3> QED BY <3>2, <3>3
  <2>2. ASSUME NEW x \in PoolFree \ {a}
        PROVE  x \in PoolFree'
    <3>1. PICK k \in DOMAIN pas : x \in FreeAddresses(pas[k])
      BY DEF PoolFree
    <3>2. x \in FreeAddresses(pas'[k])
      BY <1>6, <1>8, <3>1 DEF pa
    <3> QED BY <1>8, <3>2 DEF PoolFree
  <2> QED BY <2>1, <2>2
<1>13. HeldInv'
  <2> DEFINE U(k) == UsedAddresses(pas[k], MetadataPages(k))
             V(k) == UsedAddresses(pas'[k], MetadataPages(k))
  <2>1. V(c) = U(c) \cup {a} /\ \A k \in DOMAIN pas : k # c => V(k) = U(k)
    BY <1>6, <1>8 DEF m, pa
  <2>2. held = UNION {U(k) : k \in DOMAIN pas}
    BY <1>2 DEF HeldInv
  <2>3. UNION {UsedAddresses(pas'[k], MetadataPages(k)') : k \in DOMAIN pas'}
          = UNION {V(k) : k \in DOMAIN pas}
    BY <1>8
  <2>4. phase' # "setup"
    BY <1>7, AtAllocatorFacts DEF AllocTakes
  <2> HIDE DEF U, V
  <2>5. held' = UNION {V(k) : k \in DOMAIN pas}
    BY <1>1, <1>7, <2>1, <2>2
  <2> QED BY <2>3, <2>4, <2>5 DEF HeldInv
<1>14. a + SYSTEM_PAGE_SIZE <= memmap[c].base + memmap[c].length
  BY <1>3, <1>6, PageSizeAssumption
<1>15. MemInv'
  BY <1>8, <1>13 DEF MemInv
<1> QED BY <1>3, <1>6, <1>7, <1>10, <1>11, <1>12, <1>14, <1>15 DEF c, pa, a

\* A page is given back if a caller holds it, and stops the kernel otherwise.
LEMMA FreeFoundStep ==
  ASSUME MemInv, FreeFound
  PROVE  LET a == op.address
         IN  /\ MemInv' /\ memmap' = memmap
             /\ \/ /\ a \in held /\ held' = held \ {a} /\ PoolFree' = PoolFree \cup {a}
                   /\ phase' = phase
                \/ /\ a \notin held /\ op # Idle /\ op.call = "free"
                   /\ UNCHANGED <<PoolFree, held>>
<1> DEFINE c == op.current
           pa == pas[c]
           a == op.address
           m == MetadataPages(c)
           n == PageCount(c)
           new == system_pa_free(pa, a)
<1>1. c \in DOMAIN pas /\ op # Idle /\ op.call = "free" /\ phase = "running"
  BY AtAllocatorFacts DEF FreeFound
<1>2. MapInv /\ RegionInv /\ HeldInv /\ a \in FreeTargets
  BY <1>1 DEF MemInv, WalkInv, FreeWalkInv
<1>3. /\ c \in Entries /\ memmap[c].base \in Nat /\ n \in Nat /\ m \in Nat \ {0}
      /\ pa \in Structs(memmap[c].base, n) /\ StackMatchesBitmap(pa, m)
  BY <1>1, <1>2, RegionFacts
<1>4. InRegion(pa, a)
  BY DEF FreeFound
<1>5. PICK p \in m .. n - 1 : a = PageAddress(pa, p)
  BY <1>1, <1>2, <1>4, TargetIsPage
<1>6. /\ system_pa_free_asserts(pa, a) <=> a \in UsedAddresses(pa, m)
      /\ system_pa_free_asserts(pa, a) =>
           /\ new \in Structs(memmap[c].base, n)
           /\ StackMatchesBitmap(new, m)
           /\ FreeAddresses(new) = FreeAddresses(pa) \cup {a}
           /\ UsedAddresses(new, m) = UsedAddresses(pa, m) \ {a}
  BY <1>3, <1>5, FreeEffect
<1>7. ASSUME system_pa_free_asserts(pa, a)
      PROVE  /\ pas' = [pas EXCEPT ![c] = new] /\ held' = held \ {a} /\ op' = Idle
             /\ UNCHANGED <<phase, memmap, i, lists>>
  BY <1>7 DEF FreeFound
<1>8. ASSUME ~ system_pa_free_asserts(pa, a)
      PROVE  /\ phase' = "halted" /\ UNCHANGED <<memmap, i, pas, lists, op, held>>
  BY <1>8 DEF FreeFound
<1> HIDE DEF c, pa, a, m, n, new
<1>9. ASSUME NEW k \in DOMAIN pas, a \in UsedAddresses(pas[k], MetadataPages(k))
      PROVE  k = c
  <2>1. a \in Nat /\ InRegion(pas[k], a)
    BY <1>2, <1>9, RegionFacts, AddressesApart
  <2> QED BY <1>1, <1>2, <1>4, <2>1, RegionsDisjoint DEF pa
<1>10. a \in held <=> a \in UsedAddresses(pa, m)
  BY <1>1, <1>2, <1>9 DEF HeldInv, m, pa
<1>11. CASE ~ system_pa_free_asserts(pa, a)
  <2>1. MemInv' /\ PoolFree' = PoolFree
    BY <1>8, <1>11, HaltStep
  <2> QED BY <1>1, <1>6, <1>8, <1>10, <1>11, <2>1 DEF a
<1>12. CASE system_pa_free_asserts(pa, a)
  <2>1. /\ MapInv' /\ RegionInv' /\ ListsInv' /\ WalkInv'
        /\ DOMAIN pas' = DOMAIN pas /\ pas'[c] = new
        /\ \A k \in DOMAIN pas : k # c => pas'[k] = pas[k]
        /\ \A k : MetadataPages(k)' = MetadataPages(k)
    BY <1>1, <1>6, <1>7, <1>12, OthersKept DEF m, n
  <2>2. PoolFree' = PoolFree \cup {a}
    <3>1. ASSUME NEW x \in PoolFree'
          PROVE  x \in PoolFree \cup {a}
      <4>1. PICK k \in DOMAIN pas : x \in FreeAddresses(pas'[k])
        BY <2>1 DEF PoolFree
      <4> QED BY <1>6, <1>12, <2>1, <4>1 DEF PoolFree, pa
    <3>2. ASSUME NEW x \in PoolFree
          PROVE  x \in PoolFree'
      <4>1. PICK k \in DOMAIN pas : x \in FreeAddresses(pas[k])
        BY DEF PoolFree
      <4>2. x \in FreeAddresses(pas'[k])
        BY <1>6, <1>12, <2>1, <4>1 DEF pa
      <4> QED BY <2>1, <4>2 DEF PoolFree
    <3>3. a \in PoolFree'
      BY <1>1, <1>6, <1>12, <2>1 DEF PoolFree
    <3> QED BY <3>1, <3>2, <3>3
  <2>3. HeldInv'
    <3> DEFINE U(k) == UsedAddresses(pas[k], MetadataPages(k))
               V(k) == UsedAddresses(pas'[k], MetadataPages(k))
    <3>1. V(c) = U(c) \ {a} /\ \A k \in DOMAIN pas : k # c => V(k) = U(k)
      BY <1>6, <1>12, <2>1 DEF m, pa
    <3>2. held = UNION {U(k) : k \in DOMAIN pas}
      BY <1>2 DEF HeldInv
    <3>3. UNION {UsedAddresses(pas'[k], MetadataPages(k)') : k \in DOMAIN pas'}
            = UNION {V(k) : k \in DOMAIN pas}
      BY <2>1
    <3>4. \A k \in DOMAIN pas : a \in U(k) => k = c
      BY <1>9
    <3>5. phase' # "setup"
      BY <1>1, <1>7, <1>12
    <3> HIDE DEF U, V
    <3>6. held' = UNION {V(k) : k \in DOMAIN pas}
      BY <1>1, <1>7, <1>12, <3>1, <3>2, <3>4
    <3> QED BY <3>3, <3>5, <3>6 DEF HeldInv
  <2>4. MemInv'
    BY <2>1, <2>3 DEF MemInv
  <2> QED BY <1>6, <1>7, <1>10, <1>12, <2>2, <2>4 DEF a
<1> QED BY <1>11, <1>12

-----------------------------------------------------------------------------
(* Steps of a walk                                                         *)

\* A step that only changes the call in progress.
LEMMA WalkStep ==
  ASSUME MemInv, UNCHANGED <<memmap, phase, i, pas, lists, held>>, phase = "running", WalkInv'
  PROVE  MemInv' /\ PoolFree' = PoolFree
<1>1. UNCHANGED <<next, last, first, first_non_16mb>>
  BY DEF lists
<1>2. i \in Int /\ i <= Len(memmap) + 1
  <2>1. Len(memmap) \in Nat
    BY MemMapsAssumption DEF MemInv, MapInv
  <2> QED BY <2>1 DEF MemInv, MapInv
<1>3. MapInv' /\ RegionInv' /\ HeldInv' /\ PoolFree' = PoolFree
  BY <1>2, AllocatorsKept
<1>4. ListsInv'
  BY <1>1, ListsKept DEF MemInv
<1> QED BY <1>3, <1>4 DEF MemInv

\* The invariant of a walk that has just started on list l.
LEMMA StartOfList ==
  ASSUME MemInv, phase = "running", NEW l \in Lists
  PROVE  /\ first[l] \in Int
         /\ first[l] \in OnList(l) \cup {NULL}
         /\ first[l] = NULL => OnList(l) = {}
         /\ \A k \in OnList(l) : first[l] \in OnList(l) /\ ~ k < first[l]
<1>1. ListInv(l) /\ LinksTypeOK /\ MapInv
  BY DEF MemInv, ListsInv
<1>2. \A k \in OnList(l) : k \in Int
  BY <1>1, OnListFacts
<1>3. first[l] \in Int
  BY <1>1 DEF LinksTypeOK
<1> QED BY <1>1, <1>2, <1>3 DEF ListInv

\* The successor on a list: no allocator of the list lies in between.
LEMMA NextOnList ==
  ASSUME MemInv, NEW l \in Lists, NEW c \in OnList(l)
  PROVE  LET d == next[l][c]
         IN  /\ d \in Int /\ d # NULL /\ d \in OnList(l) \cup {Sentinel}
             /\ d \in DOMAIN pas => c < d
             /\ \A k \in OnList(l) : c < k => d \in DOMAIN pas /\ ~ k < d
<1>1. ListInv(l) /\ LinksTypeOK /\ MapInv
  BY DEF MemInv, ListsInv
<1>2. /\ OnList(l) \subseteq DOMAIN pas
      /\ \A k \in DOMAIN pas : k \in Entries /\ k \in Int /\ 1 <= k
  BY <1>1, OnListFacts
<1>3. next[l][c] \in Int
  BY <1>1, <1>2 DEF LinksTypeOK
<1>4. next[l][c] = Sentinel \/ (next[l][c] \in OnList(l) /\ c < next[l][c])
  BY <1>1, <1>2 DEF ListInv
<1>5. \A k \in OnList(l) : c < k => next[l][c] # Sentinel /\ next[l][c] <= k
  BY <1>1 DEF ListInv
<1>6. next[l][c] # NULL /\ Sentinel \notin DOMAIN pas
  BY <1>2, <1>4 DEF NULL, Sentinel
<1> QED BY <1>2, <1>3, <1>4, <1>5, <1>6

\* Memory below a region of the 16 MiB zone is in that zone too.
LEMMA LowBefore ==
  ASSUME MapInv, NEW j \in DOMAIN pas, NEW k \in DOMAIN pas, j < k, Low(memmap[k])
  PROVE  Low(memmap[j])
<1>1. j \in Entries /\ k \in Entries
  BY OnListFacts
<1>2. /\ memmap[j].base \in Nat /\ memmap[j].length \in Nat
      /\ memmap[k].base \in Nat /\ memmap[k].length \in Nat
  BY <1>1, EntryFacts
<1>3. memmap[j].base + memmap[j].length <= memmap[k].base
  BY <1>1, MemMapsAssumption DEF MapInv, Entries
<1> QED BY <1>2, <1>3, ZonesAssumption DEF Low, InZone

\* A walk over a zone's list starts with nothing passed.
LEMMA ZoneWalkStarts ==
  ASSUME MemInv, phase = "running", UNCHANGED <<memmap, pas>>, NEW l \in {"16mb", "4gb"},
         op' \in AllocOps, op'.list = l, op'.current = first[l],
         op'.kind = "NORMAL" =>
           \A k \in DOMAIN pas : ~ Low(memmap[k]) => system_pa_exhausted(pas[k])
  PROVE  WalkInv'
<1>1. \A m : OnList(m)' = OnList(m)
  BY DEF OnList
<1>2. /\ first[l] \in Int
      /\ first[l] \in OnList(l) \cup {NULL}
      /\ first[l] = NULL => OnList(l) = {}
      /\ \A k \in OnList(l) : first[l] \in OnList(l) /\ ~ k < first[l]
  BY StartOfList DEF Lists
<1>3. OnList(l) \subseteq DOMAIN pas
  BY DEF OnList
<1>4. op'.call = "alloc"
  BY DEF AllocOps
<1>5. AllocWalkInv'
  BY <1>1, <1>2, <1>3 DEF AllocWalkInv, Passed
<1> QED BY <1>1, <1>2, <1>4, <1>5 DEF WalkInv

\* A request starts its loop.
LEMMA AllocBeginStep ==
  ASSUME MemInv, NEW kind \in Kinds, AllocBegin(kind)
  PROVE  MemInv' /\ PoolFree' = PoolFree
<1>1. /\ UNCHANGED <<memmap, phase, i, pas, lists, held>> /\ phase = "running"
      /\ op' = [call |-> "alloc", kind |-> kind,
                list |-> Start(kind).list, current |-> Start(kind).current]
  BY DEF AllocBegin
<1>2. first \in [Lists -> Int]
  BY DEF MemInv, ListsInv, LinksTypeOK
<1>3. CASE kind = "16MB"
  <2>1. op' = [call |-> "alloc", kind |-> "16MB", list |-> "16mb", current |-> first["16mb"]]
    BY <1>1, <1>3 DEF Start
  <2>2. first["16mb"] \in Int
    BY <1>2 DEF Lists
  <2>3. op' \in AllocOps
    BY <2>1, <2>2 DEF AllocOps
  <2>4. op'.list = "16mb" /\ op'.current = first["16mb"] /\ op'.kind = "16MB"
    BY <2>1
  <2>5. WalkInv'
    BY <1>1, <2>3, <2>4, ZoneWalkStarts
  <2> QED BY <1>1, <2>5, WalkStep
<1>4. CASE kind = "4GB"
  <2>1. op' = [call |-> "alloc", kind |-> "4GB", list |-> "4gb", current |-> first["4gb"]]
    BY <1>1, <1>4 DEF Start
  <2>2. first["4gb"] \in Int
    BY <1>2 DEF Lists
  <2>3. op' \in AllocOps
    BY <2>1, <2>2 DEF AllocOps
  <2>4. op'.list = "4gb" /\ op'.current = first["4gb"] /\ op'.kind = "4GB"
    BY <2>1
  <2>5. WalkInv'
    BY <1>1, <2>3, <2>4, ZoneWalkStarts
  <2> QED BY <1>1, <2>5, WalkStep
<1>5. CASE kind = "NORMAL"
  <2>1. op' = [call |-> "alloc", kind |-> "NORMAL", list |-> "all", current |-> first_non_16mb]
    BY <1>1, <1>5 DEF Start
  <2>2. NonLowInv /\ MapInv
    BY DEF MemInv, ListsInv
  <2>3. /\ OnList("all") = DOMAIN pas
        /\ \A k \in DOMAIN pas : k \in Int /\ 1 <= k
    BY <2>2, OnListFacts
  <2>4. first_non_16mb \in Int /\ first_non_16mb \in DOMAIN pas \cup {Sentinel}
        /\ first_non_16mb # NULL
    BY <2>2, <2>3 DEF NonLowInv, Sentinel, NULL
  <2>5. op' \in AllocOps
    BY <2>1, <2>4 DEF AllocOps
  <2>6. op'.list = "all" /\ op'.current = first_non_16mb /\ op'.call = "alloc"
    BY <2>1
  <2>7. OnList("all")' = DOMAIN pas /\ DOMAIN pas' = DOMAIN pas
    BY <1>1, <2>3 DEF OnList
  <2>8. \A k \in DOMAIN pas :
           (first_non_16mb \notin DOMAIN pas \/ k < first_non_16mb) => Low(memmap[k])
    BY <2>2, <2>3 DEF NonLowInv
  <2>9. first_non_16mb \in DOMAIN pas => ~ Low(memmap[first_non_16mb])
    BY <2>2, <2>3 DEF NonLowInv, Sentinel
  <2>10. AllocWalkInv'
    BY <1>1, <2>6, <2>7, <2>8, <2>9 DEF AllocWalkInv, Passed
  <2>11. WalkInv'
    BY <2>4, <2>5, <2>6, <2>7, <2>10 DEF WalkInv
  <2> QED BY <1>1, <2>11, WalkStep
<1> QED BY <1>3, <1>4, <1>5 DEF Kinds

\* The loop of an allocation goes past an exhausted allocator.
LEMMA AllocSkipsStep ==
  ASSUME MemInv, AllocSkips
  PROVE  MemInv' /\ PoolFree' = PoolFree
<1> DEFINE c == op.current
           l == op.list
           d == next[l][c]
<1>1. /\ phase = "running" /\ op # Idle /\ op.call = "alloc"
      /\ op \in AllocOps \cup FreeOps
      /\ l \in Lists /\ c \in OnList(l) /\ c \in DOMAIN pas
  BY AtAllocatorFacts DEF AllocSkips
<1>2. /\ UNCHANGED <<memmap, phase, i, pas, lists, held>>
      /\ op' = [op EXCEPT !.current = d] /\ system_pa_exhausted(pas[c])
  BY DEF AllocSkips, Advance
<1>3. /\ d \in Int /\ d # NULL /\ d \in OnList(l) \cup {Sentinel}
      /\ d \in DOMAIN pas => c < d
      /\ \A k \in OnList(l) : c < k => d \in DOMAIN pas /\ ~ k < d
  BY <1>1, NextOnList
<1>4. op \in AllocOps
  BY <1>1 DEF FreeOps
<1> HIDE DEF d
<1>5. op' \in AllocOps /\ op'.current = d /\ op'.list = op.list /\ op'.kind = op.kind
      /\ op'.call = "alloc"
  BY <1>2, <1>3, <1>4 DEF AllocOps
<1>6. MapInv /\ AllocWalkInv
  BY <1>1 DEF MemInv, WalkInv
<1>7. /\ OnList(l) \subseteq DOMAIN pas
      /\ \A k \in DOMAIN pas : k \in Int /\ 1 <= k
  BY <1>1, <1>6, OnListFacts
<1>8. \A x : OnList(x)' = OnList(x)
  BY <1>2 DEF OnList
<1>9. ASSUME NEW k \in OnList(l), d \notin DOMAIN pas \/ k < d, l = "all" => ~ Low(memmap[k])
      PROVE  system_pa_exhausted(pas[k])
  <2>1. ~ c < k
    BY <1>3, <1>9
  <2>2. CASE k = c
    BY <1>2, <2>2
  <2>3. CASE k < c
    BY <1>1, <1>6, <1>9, <2>3 DEF AllocWalkInv, Passed
  <2> QED BY <1>1, <1>7, <2>1, <2>2, <2>3
<1>10. ASSUME l = "all", d \in DOMAIN pas
       PROVE  ~ Low(memmap[d])
  <2>1. ~ Low(memmap[c])
    BY <1>1, <1>6, <1>10 DEF AllocWalkInv
  <2> QED BY <1>1, <1>3, <1>6, <1>10, <2>1, LowBefore
<1>11. AllocWalkInv'
  <2>1. \A k \in OnList(op.list)' :
          Passed(k)' /\ (op'.list = "all" => ~ Low(memmap'[k])) => system_pa_exhausted(pas'[k])
    BY <1>2, <1>5, <1>9 DEF Passed, OnList
  <2>2. op'.list = "all" /\ op'.current \in DOMAIN pas' => ~ Low(memmap'[op'.current])
    BY <1>2, <1>5, <1>10
  <2>3. op'.kind = "NORMAL" /\ op'.list = "16mb" =>
          \A k \in DOMAIN pas' : ~ Low(memmap'[k]) => system_pa_exhausted(pas'[k])
    BY <1>2, <1>5, <1>6 DEF AllocWalkInv
  <2> QED BY <2>1, <2>2, <2>3 DEF AllocWalkInv
<1>12. WalkInv'
  BY <1>3, <1>5, <1>8, <1>11 DEF WalkInv
<1> QED BY <1>1, <1>2, <1>12, WalkStep

\* The loop of an allocation ends, and NORMAL goes on with the 16 MiB zone.
LEMMA AllocListEndsStep ==
  ASSUME MemInv, AllocListEnds
  PROVE  MemInv' /\ PoolFree' = PoolFree
<1>1. /\ phase = "running" /\ op # Idle /\ op.call = "alloc"
      /\ op \in AllocOps \cup FreeOps /\ op.current \notin DOMAIN pas
  BY AtSentinelFacts DEF AllocListEnds
<1>2. UNCHANGED <<memmap, phase, i, pas, lists, held>>
  BY DEF AllocListEnds
<1>3. op \in AllocOps
  BY <1>1 DEF FreeOps
<1>4. MapInv /\ AllocWalkInv
  BY <1>1 DEF MemInv, WalkInv
<1>5. CASE op.list # "all"
  <2>1. op' = Idle
    BY <1>5 DEF AllocListEnds
  <2>2. WalkInv'
    BY <2>1 DEF WalkInv
  <2> QED BY <1>1, <1>2, <2>2, WalkStep
<1>6. CASE op.list = "all"
  <2>1. op' = [op EXCEPT !.list = "16mb", !.current = first["16mb"]]
    BY <1>6 DEF AllocListEnds, Start
  <2>2. first["16mb"] \in Int
    BY DEF MemInv, ListsInv, LinksTypeOK, Lists
  <2>3. op \in [call : {"alloc"}, kind : {"NORMAL"}, list : {"all", "16mb"}, current : Int]
    BY <1>3, <1>6 DEF AllocOps
  <2>4. op' \in AllocOps /\ op'.list = "16mb" /\ op'.current = first["16mb"]
    BY <2>1, <2>2, <2>3 DEF AllocOps
  <2>5. OnList("all") = DOMAIN pas
    BY <1>4, OnListFacts
  <2>6. \A k \in DOMAIN pas : ~ Low(memmap[k]) => system_pa_exhausted(pas[k])
    BY <1>1, <1>4, <1>6, <2>5 DEF AllocWalkInv, Passed
  <2>7. WalkInv'
    BY <1>1, <1>2, <2>4, <2>6, ZoneWalkStarts
  <2> QED BY <1>1, <1>2, <2>7, WalkStep
<1> QED BY <1>5, <1>6

\* The addresses that callers pass to free are numbers.
LEMMA TargetsAreNumbers ==
  ASSUME MapInv, NEW a \in FreeTargets
  PROVE  a \in Int
<1>1. PICK j \in Entries : a \in PagesOf(memmap[j])
  BY DEF FreeTargets
<1>2. PICK p \in 0 .. PageCount(j) - 1 : a = memmap[j].base + p * SYSTEM_PAGE_SIZE
  BY <1>1 DEF PagesOf, PageCount
<1>3. memmap[j].base \in Nat /\ PageCount(j) \in Nat
  BY EntryFacts
<1> QED BY <1>2, <1>3, PageSizeAssumption

\* A free starts its loop with the first allocator of all.
LEMMA FreeBeginStep ==
  ASSUME MemInv, NEW address \in FreeTargets, FreeBegin(address)
  PROVE  MemInv' /\ PoolFree' = PoolFree
<1>1. /\ UNCHANGED <<memmap, phase, i, pas, lists, held>> /\ phase = "running"
      /\ op' = [call |-> "free", address |-> address, list |-> "all", current |-> first["all"]]
  BY DEF FreeBegin
<1>2. /\ first["all"] \in Int
      /\ first["all"] \in OnList("all") \cup {NULL}
      /\ first["all"] = NULL => OnList("all") = {}
      /\ \A k \in OnList("all") : first["all"] \in OnList("all") /\ ~ k < first["all"]
  BY <1>1, StartOfList DEF Lists
<1>3. MapInv
  BY DEF MemInv
<1>4. OnList("all") = DOMAIN pas /\ address \in Int
  BY <1>3, OnListFacts, TargetsAreNumbers
<1>5. op' \in FreeOps /\ op'.call = "free" /\ op'.list = "all"
      /\ op'.current = first["all"] /\ op'.address = address
  BY <1>1, <1>2, <1>4 DEF FreeOps
<1>6. DOMAIN pas' = DOMAIN pas /\ OnList(op.list)' = DOMAIN pas
  BY <1>1, <1>4, <1>5 DEF OnList
<1>7. FreeTargets' = FreeTargets
  BY <1>1 DEF FreeTargets, MetadataOf, Entries
<1>8. FreeWalkInv'
  BY <1>1, <1>2, <1>4, <1>5, <1>6, <1>7 DEF FreeWalkInv, Passed
<1>9. WalkInv'
  BY <1>2, <1>4, <1>5, <1>6, <1>8 DEF WalkInv
<1> QED BY <1>1, <1>9, WalkStep

\* The loop of a free goes past an allocator that does not manage the address.
LEMMA FreeSkipsStep ==
  ASSUME MemInv, FreeSkips
  PROVE  MemInv' /\ PoolFree' = PoolFree
<1> DEFINE c == op.current
           d == next["all"][c]
<1>1. /\ phase = "running" /\ op # Idle /\ op.call = "free"
      /\ op \in AllocOps \cup FreeOps /\ c \in OnList(op.list) /\ c \in DOMAIN pas
  BY AtAllocatorFacts DEF FreeSkips
<1>2. op \in FreeOps /\ op.list = "all"
  BY <1>1 DEF AllocOps, FreeOps
<1>3. /\ UNCHANGED <<memmap, phase, i, pas, lists, held>>
      /\ op' = [op EXCEPT !.current = d] /\ ~ InRegion(pas[c], op.address)
  BY <1>2 DEF FreeSkips, Advance
<1>4. /\ d \in Int /\ d # NULL /\ d \in OnList("all") \cup {Sentinel}
      /\ d \in DOMAIN pas => c < d
      /\ \A k \in OnList("all") : c < k => d \in DOMAIN pas /\ ~ k < d
  BY <1>1, <1>2, NextOnList DEF Lists
<1> HIDE DEF d
<1>5. op' \in FreeOps /\ op'.current = d /\ op'.list = "all" /\ op'.address = op.address
      /\ op'.call = "free"
  BY <1>2, <1>3, <1>4 DEF FreeOps
<1>6. MapInv /\ FreeWalkInv
  BY <1>1 DEF MemInv, WalkInv
<1>7. /\ OnList("all") = DOMAIN pas
      /\ \A k \in DOMAIN pas : k \in Int
  BY <1>6, OnListFacts
<1>8. DOMAIN pas' = DOMAIN pas /\ OnList(op.list)' = DOMAIN pas
  BY <1>3, <1>5, <1>7 DEF OnList
<1>9. FreeTargets' = FreeTargets
  BY <1>3 DEF FreeTargets, MetadataOf, Entries
<1>10. ASSUME NEW k \in DOMAIN pas, InRegion(pas[k], op.address)
       PROVE  d \in DOMAIN pas /\ ~ k < d
  <2>1. ~ k < c /\ k # c
    BY <1>1, <1>3, <1>6, <1>10 DEF FreeWalkInv, Passed
  <2>2. c < k
    BY <1>1, <1>7, <2>1
  <2> QED BY <1>4, <1>7, <2>2
<1>11. FreeWalkInv'
  BY <1>3, <1>5, <1>6, <1>8, <1>9, <1>10 DEF FreeWalkInv, Passed
<1>12. WalkInv'
  BY <1>4, <1>5, <1>7, <1>8, <1>11 DEF WalkInv
<1> QED BY <1>1, <1>3, <1>12, WalkStep

\* A free that comes to the end of the list is one of a page nobody holds.
LEMMA FreeNotFoundStep ==
  ASSUME MemInv, FreeNotFound
  PROVE  /\ MemInv' /\ PoolFree' = PoolFree /\ held' = held
         /\ op # Idle /\ op.call = "free" /\ op.address \notin held
<1>1. /\ op # Idle /\ op.call = "free" /\ op.current \notin DOMAIN pas
  BY AtSentinelFacts DEF FreeNotFound
<1>2. MapInv /\ RegionInv /\ HeldInv /\ FreeWalkInv
  BY <1>1 DEF MemInv, WalkInv
<1>3. ASSUME op.address \in held
      PROVE  FALSE
  <2>1. PICK k \in DOMAIN pas : op.address \in UsedAddresses(pas[k], MetadataPages(k))
    BY <1>2, <1>3 DEF HeldInv
  <2>2. InRegion(pas[k], op.address)
    BY <1>2, <2>1, RegionFacts, AddressesApart
  <2> QED BY <1>1, <1>2, <2>2 DEF FreeWalkInv, Passed
<1>4. UNCHANGED <<memmap, i, pas, lists, op, held>> /\ phase' = "halted"
  BY DEF FreeNotFound
<1>5. MemInv' /\ PoolFree' = PoolFree
  BY <1>4, HaltStep
<1> QED BY <1>1, <1>3, <1>4, <1>5

\* A walk comes to NULL only on a list without allocators.
LEMMA DereferencesNULLStep ==
  ASSUME MemInv, DereferencesNULL
  PROVE  /\ MemInv' /\ PoolFree' = PoolFree /\ held' = held
         /\ op # Idle /\ ListEmpty(op.list)
<1>1. UNCHANGED <<memmap, i, pas, lists, op, held>> /\ phase' = "halted"
      /\ op # Idle /\ op.current = NULL
  BY DEF DereferencesNULL
<1>2. OnList(op.list) = {}
  BY <1>1 DEF MemInv, WalkInv
<1>3. ListEmpty(op.list)
  BY <1>2 DEF ListEmpty, OnList
<1> QED BY <1>1, <1>3, HaltStep

-----------------------------------------------------------------------------
(* All steps                                                               *)

\* The invariant holds initially.
LEMMA InitMemInv ==
  ASSUME Init
  PROVE  MemInv
<1>1. Len(memmap) \in Nat
  BY MemMapsAssumption DEF Init
<1>2. DOMAIN pas = {}
  BY DEF Init
<1>3. MapInv
  BY <1>1, <1>2 DEF Init, MapInv
<1>4. RegionInv /\ HeldInv
  BY <1>2 DEF Init, RegionInv, HeldInv
<1>5. \A l \in Lists : OnList(l) = {}
  BY <1>2 DEF OnList
<1>6. ASSUME NEW l \in Lists
      PROVE  /\ next[l][Sentinel] = Sentinel /\ next[l][Base] = NULL
             /\ \A p \in Entries : next[l][p] = NULL
             /\ last[l] = Base /\ first[l] = NULL
  <2>1. \A p \in Entries : p # Sentinel
    BY DEF Entries, Sentinel
  <2> QED BY <2>1 DEF Init, Sentinel, Base
<1>7. \A l \in Lists : ListInv(l)
  BY <1>2, <1>5, <1>6 DEF ListInv, Init
<1>8. LinksTypeOK
  BY DEF Init, LinksTypeOK, Sentinel, Base, NULL
<1>9. NonLowInv
  BY <1>2 DEF Init, NonLowInv
<1>10. WalkInv
  BY DEF Init, WalkInv
<1> QED BY <1>3, <1>4, <1>7, <1>8, <1>9, <1>10 DEF MemInv, ListsInv

\* The pages of all allocators that hold metadata.
PoolReserved == UNION {MetadataOf(k) : k \in DOMAIN pas}

\* A page of metadata lies in its region and is marked as used there for good.
LEMMA MetadataApart ==
  ASSUME MemInv, NEW k \in DOMAIN pas, NEW a \in MetadataOf(k)
  PROVE  /\ a \in Nat /\ InRegion(pas[k], a)
         /\ a \notin FreeAddresses(pas[k]) \cup UsedAddresses(pas[k], MetadataPages(k))
<1> DEFINE pa == pas[k]
           n == PageCount(k)
           m == MetadataPages(k)
<1>1. /\ memmap[k].base \in Nat /\ n \in Nat /\ m \in 1 .. n
      /\ pa \in Structs(memmap[k].base, n) /\ pa.size = n /\ pa.address_base = memmap[k].base
      /\ StackMatchesBitmap(pa, m)
  BY RegionFacts DEF MemInv, RegionInv
<1>2. PICK q \in 0 .. m - 1 : a = memmap[k].base + q * SYSTEM_PAGE_SIZE
  BY <1>1 DEF MetadataOf, MetadataPages
<1> HIDE DEF pa, n, m
<1>3. a = PageAddress(pa, q) /\ q \in 0 .. n - 1
  BY <1>1, <1>2 DEF PageAddress
<1>4. \A p \in 0 .. n - 1 : /\ InRegion(pa, PageAddress(pa, p))
                            /\ PageIndex(pa, PageAddress(pa, p)) = p
  BY <1>1, PageAddressFacts
<1>5. q * SYSTEM_PAGE_SIZE \in Nat
  BY <1>1, <1>2, PageSizeAssumption
<1>6. StackPages(pa) = (0 .. n - 1) \ pa.pages_bitmap /\ 0 .. m - 1 \subseteq pa.pages_bitmap
      /\ pa.pages_bitmap \subseteq 0 .. n - 1
  BY <1>1 DEF StackMatchesBitmap, Structs
<1>7. ASSUME a \in FreeAddresses(pa) PROVE FALSE
  <2>1. PICK p \in (0 .. n - 1) \ pa.pages_bitmap : a = PageAddress(pa, p)
    BY <1>6, <1>7 DEF FreeAddresses
  <2>2. p = q
    BY <1>3, <1>4, <2>1
  <2> QED BY <1>2, <1>6, <2>1, <2>2
<1>8. ASSUME a \in UsedAddresses(pa, m) PROVE FALSE
  <2>1. PICK p \in m .. n - 1 : a = PageAddress(pa, p)
    BY <1>1, <1>8 DEF UsedAddresses
  <2>2. p \in 0 .. n - 1
    BY <1>1, <2>1
  <2>3. p = q
    BY <1>3, <1>4, <2>1, <2>2
  <2> QED BY <1>1, <1>2, <2>1, <2>3
<1>9. a \in Nat
  BY <1>1, <1>2, <1>5
<1> QED BY <1>3, <1>4, <1>7, <1>8, <1>9 DEF pa, m

\* Metadata is neither free nor held, in whichever allocator.
LEMMA ReservedApart == MemInv => PoolReserved \cap (PoolFree \cup held) = {}
<1> SUFFICES ASSUME MemInv, NEW k \in DOMAIN pas, NEW a \in MetadataOf(k), a \in PoolFree \cup held
             PROVE  FALSE
  BY DEF PoolReserved
<1>1. PICK j \in DOMAIN pas :
        a \in FreeAddresses(pas[j]) \cup UsedAddresses(pas[j], MetadataPages(j))
  BY DEF PoolFree, MemInv, HeldInv
<1>2. InRegion(pas[j], a)
  BY <1>1, RegionFacts, AddressesApart DEF MemInv
<1>3. a \in Int /\ InRegion(pas[k], a)
  BY MetadataApart
<1>4. j = k
  BY <1>2, <1>3, RegionsDisjoint DEF MemInv
<1> QED BY <1>1, <1>4, MetadataApart

\* Which pages hold metadata depends on the set of allocators alone.
LEMMA ReservedGrows ==
  ASSUME MemInv, MemInv', memmap' = memmap, DOMAIN pas \subseteq DOMAIN pas'
  PROVE  /\ PoolReserved \subseteq PoolReserved'
         /\ DOMAIN pas' = DOMAIN pas => PoolReserved' = PoolReserved
<1>1. ASSUME NEW k \in DOMAIN pas
      PROVE  MetadataOf(k)' = MetadataOf(k)
  <2>1. pas[k].size = PageCount(k)
    BY RegionFacts DEF MemInv
  <2>2. pas'[k].size = PageCount(k)'
    BY DEF MemInv, RegionInv, Structs
  <2>3. PageCount(k)' = PageCount(k)
    BY DEF PageCount
  <2> QED BY <2>1, <2>2, <2>3 DEF MetadataOf
<1> QED BY <1>1 DEF PoolReserved

\* Every step keeps the invariant, is a step of the pool of pages or changes
\* nothing there, and hands out a page only by AllocTakes.
LEMMA StepFacts ==
  ASSUME MemInv, RegionsBelow4GiB, [Next]_vars
  PROVE  /\ MemInv'
         /\ [Pool!Next]_<<PoolFree, held, PoolReserved>>
         /\ AllocTakes \/ held' \subseteq held
<1>0. /\ UNCHANGED <<memmap, pas>> => PoolReserved' = PoolReserved
      /\ MemInv' /\ memmap' = memmap /\ DOMAIN pas' = DOMAIN pas => PoolReserved' = PoolReserved
  BY ReservedGrows DEF PoolReserved, MetadataOf
<1>1. CASE SetupSkips
  BY <1>0, <1>1, SetupSkipsStep DEF SetupSkips
<1>2. CASE SetupRegion
  <2>1. MemInv' /\ PoolFree \subseteq PoolFree' /\ held' = held
        /\ (PoolFree' \ PoolFree) \cap held = {}
    BY <1>2, SetupRegionStep
  <2>2. PoolReserved \subseteq PoolReserved'
    <3>1. memmap' = memmap /\ DOMAIN pas \subseteq DOMAIN pas'
      BY <1>2 DEF SetupRegion
    <3> QED BY <2>1, <3>1, ReservedGrows
  <2>3. (PoolReserved \cap (PoolFree \cup held) = {})'
    BY <2>1, ReservedApart, PTL
  <2>4. Pool!Grow
    BY <2>1, <2>2, <2>3 DEF Pool!Grow, PoolFree, PoolReserved
  <2> QED BY <2>1, <2>4 DEF Pool!Next
<1>3. CASE SetupDone
  BY <1>0, <1>3, SetupDoneStep DEF SetupDone
<1>4. CASE AllocTakes
  <2> DEFINE a == AllocAddress(pas[op.current])
  <2>1. MemInv' /\ a \in PoolFree /\ PoolFree' = PoolFree \ {a} /\ held' = held \cup {a}
    BY <1>4, AllocTakesStep
  <2>2. PoolReserved' = PoolReserved
    BY <1>0, <1>4, <2>1 DEF AllocTakes
  <2>3. Pool!Take
    BY <2>1, <2>2 DEF Pool!Take, PoolFree, PoolReserved
  <2> QED BY <1>4, <2>1, <2>3 DEF Pool!Next
<1>5. CASE AllocSkips
  BY <1>0, <1>5, AllocSkipsStep DEF AllocSkips
<1>6. CASE AllocListEnds
  BY <1>0, <1>6, AllocListEndsStep DEF AllocListEnds
<1>7. CASE FreeFound
  <2> DEFINE a == op.address
  <2>1. /\ MemInv'
        /\ \/ a \in held /\ held' = held \ {a} /\ PoolFree' = PoolFree \cup {a}
           \/ UNCHANGED <<PoolFree, held>>
    BY <1>7, FreeFoundStep
  <2>2. PoolReserved' = PoolReserved
    BY <1>0, <1>7, <2>1 DEF FreeFound
  <2>3. CASE a \in held /\ held' = held \ {a} /\ PoolFree' = PoolFree \cup {a}
    <3>1. Pool!Give
      BY <2>3, <2>2 DEF Pool!Give, PoolFree, PoolReserved
    <3> QED BY <2>1, <2>3, <3>1 DEF Pool!Next
  <2>4. CASE UNCHANGED <<PoolFree, held>>
    BY <2>1, <2>4, <2>2
  <2> QED BY <2>1, <2>3, <2>4
<1>8. CASE FreeSkips
  BY <1>0, <1>8, FreeSkipsStep DEF FreeSkips
<1>9. CASE FreeNotFound
  BY <1>0, <1>9, FreeNotFoundStep DEF FreeNotFound
<1>10. CASE DereferencesNULL
  BY <1>0, <1>10, DereferencesNULLStep DEF DereferencesNULL
<1>11. ASSUME NEW kind \in Kinds, AllocBegin(kind)
       PROVE  MemInv' /\ UNCHANGED <<PoolFree, held, PoolReserved>>
  BY <1>0, <1>11, AllocBeginStep DEF AllocBegin
<1>12. ASSUME NEW address \in FreeTargets, FreeBegin(address)
       PROVE  MemInv' /\ UNCHANGED <<PoolFree, held, PoolReserved>>
  BY <1>0, <1>12, FreeBeginStep DEF FreeBegin
<1>13. CASE hcf \/ UNCHANGED vars
  <2>1. UNCHANGED <<memmap, i, pas, lists, op, held>> /\ phase' = phase
    BY <1>13 DEF hcf, vars
  <2> QED BY <1>0, <2>1, HaltStep
<1> QED
  BY <1>1, <1>2, <1>3, <1>4, <1>5, <1>6, <1>7, <1>8, <1>9, <1>10, <1>11, <1>12, <1>13
     DEF Next, Step

\* The invariant holds throughout, by induction on the steps.
THEOREM MemInvHolds == RegionsBelow4GiB => (Spec => []MemInv)
<1> SUFFICES ASSUME RegionsBelow4GiB
             PROVE  Spec => []MemInv
  OBVIOUS
<1>1. Init => MemInv
  BY InitMemInv
<1>2. MemInv /\ [Next]_vars => MemInv'
  BY StepFacts
<1> QED BY <1>1, <1>2, PTL DEF Spec

-----------------------------------------------------------------------------
(* Theorems                                                                *)

\* The types of all parts of system_paging: in particular every link leads to
\* an allocator that is initialised, to the sentinel or to NULL.
THEOREM TypeCorrect == RegionsBelow4GiB => (Spec => []TypeOK)
<1>1. ASSUME MemInv
      PROVE  TypeOK
  <2>1. MapInv /\ RegionInv /\ ListsInv /\ WalkInv
    BY <1>1 DEF MemInv
  <2>2. /\ \A l \in Lists : OnList(l) \subseteq DOMAIN pas
        /\ \A k \in DOMAIN pas : k \in Entries
    BY <2>1, OnListFacts
  <2>3. \A k \in DOMAIN pas :
          pas[k] \in Structs(memmap[k].base, memmap[k].length \div SYSTEM_PAGE_SIZE)
    BY <2>1 DEF RegionInv, PageCount
  <2>4. ASSUME NEW l \in Lists
        PROVE  /\ last[l] \in DOMAIN pas \cup {Base}
               /\ first[l] \in DOMAIN pas \cup {NULL}
               /\ \A p \in DOMAIN next[l] : next[l][p] \in DOMAIN pas \cup {NULL, Sentinel}
    <3>1. ListInv(l) /\ DOMAIN next[l] = Entries \cup {Sentinel, Base}
      BY <2>1 DEF ListsInv, LinksTypeOK
    <3> QED BY <2>2, <3>1 DEF ListInv
  <2>5. first_non_16mb \in DOMAIN pas \cup {Sentinel}
    BY <2>1 DEF ListsInv, NonLowInv
  <2>6. op # Idle => op.current \in DOMAIN pas \cup {NULL, Sentinel}
    BY <2>1 DEF WalkInv, OnList
  <2>7. phase \in {"setup", "running", "halted"} /\ i \in 1 .. Len(memmap) + 1
    BY <2>1 DEF MapInv
  <2> QED BY <2>3, <2>4, <2>5, <2>6, <2>7 DEF TypeOK
<1> QED BY <1>1, MemInvHolds, PTL

\* The whole of physical memory implements the abstract pool: whichever list a
\* page is reached through, it was free, had no other owner, holds no metadata.
THEOREM MemoryImplementsPool == RegionsBelow4GiB => (Spec => PoolSpec)
<1> SUFFICES ASSUME RegionsBelow4GiB
             PROVE  Spec => PoolSpec
  OBVIOUS
<1>1. Init => Pool!Init
  BY DEF Init, Pool!Init
<1>2. MemInv /\ [Next]_vars
        => [Pool!Next]_<<UNION {FreeAddresses(pas[k]) : k \in DOMAIN pas}, held,
                        UNION {MetadataOf(k) : k \in DOMAIN pas}>>
  BY StepFacts DEF PoolFree, PoolReserved
<1> QED BY <1>1, <1>2, MemInvHolds, PTL DEF Spec, PoolSpec, Pool!Spec

\* The allocator that serves a request is on the list that belongs to its kind.
LEMMA TakenFrom ==
  ASSUME MemInv, RegionsBelow4GiB, AllocTakes
  PROVE  /\ op \in AllocOps /\ AllocWalkInv
         /\ op.current \in DOMAIN pas /\ op.current \in OnList(op.list)
         /\ op.current \in OnList("16mb") <=> Low(memmap[op.current])
         /\ op.current \in OnList("4gb") <=> InZone(memmap[op.current], GB4)
<1>1. /\ op # Idle /\ op.call = "alloc" /\ op \in AllocOps \cup FreeOps
      /\ op.current \in OnList(op.list) /\ op.current \in DOMAIN pas
  BY AtAllocatorFacts DEF AllocTakes
<1>2. op \in AllocOps
  BY <1>1 DEF FreeOps
<1>3. AllocWalkInv /\ MapInv
  BY <1>1 DEF MemInv, WalkInv
<1> QED BY <1>1, <1>2, <1>3, OnListFacts

\* A page for a device that addresses 24 or 32 bits lies wholly in that zone.
THEOREM KindIsRespected == RegionsBelow4GiB => (Spec => KindRespected)
<1> SUFFICES ASSUME RegionsBelow4GiB
             PROVE  Spec => KindRespected
  OBVIOUS
<1>1. ASSUME MemInv, [Next]_vars
      PROVE  \A address \in held' \ held :
               /\ op.kind = "16MB" => address + SYSTEM_PAGE_SIZE <= MB16
               /\ op.kind = "4GB"  => address + SYSTEM_PAGE_SIZE <= GB4
  <2>1. CASE held' \subseteq held
    BY <2>1
  <2>2. CASE AllocTakes
    <3> DEFINE a == AllocAddress(pas[op.current])
               entry == memmap[op.current]
    <3>1. /\ held' = held \cup {a} /\ a \in Nat /\ entry.base \in Nat /\ entry.length \in Nat
          /\ a + SYSTEM_PAGE_SIZE <= entry.base + entry.length
      BY <1>1, <2>2, AllocTakesStep
    <3>2. /\ op \in AllocOps /\ op.current \in OnList(op.list)
          /\ op.current \in OnList("16mb") => InZone(entry, MB16)
          /\ op.current \in OnList("4gb") => InZone(entry, GB4)
      BY <1>1, <2>2, TakenFrom DEF Low
    <3>3. (op.kind = "16MB" => op.list = "16mb") /\ (op.kind = "4GB" => op.list = "4gb")
      BY <3>2 DEF AllocOps
    <3>4. /\ op.kind = "16MB" => entry.base + entry.length < MB16
          /\ op.kind = "4GB" => entry.base + entry.length < GB4
      BY <3>2, <3>3 DEF InZone
    <3> HIDE DEF a, entry
    <3>5. /\ op.kind = "16MB" => a + SYSTEM_PAGE_SIZE <= MB16
          /\ op.kind = "4GB" => a + SYSTEM_PAGE_SIZE <= GB4
      BY <3>1, <3>4, PageSizeAssumption, ZonesAssumption
    <3> QED BY <3>1, <3>5
  <2> QED BY <1>1, <2>1, <2>2, StepFacts
<1>2. MemInv /\ [Next]_vars =>
        [\A address \in held' \ held :
               /\ op.kind = "16MB" => address + SYSTEM_PAGE_SIZE <= MB16
               /\ op.kind = "4GB"  => address + SYSTEM_PAGE_SIZE <= GB4]_vars
  BY <1>1
<1> QED BY <1>2, MemInvHolds, PTL DEF Spec, KindRespected

\* Memory below 16 MiB serves a NORMAL request only when nothing else is left.
THEOREM LowMemoryIsSpared == RegionsBelow4GiB => (Spec => NormalSparesLowMemory)
<1> SUFFICES ASSUME RegionsBelow4GiB
             PROVE  Spec => NormalSparesLowMemory
  OBVIOUS
<1>1. ASSUME MemInv, [Next]_vars, NEW address \in held' \ held,
             op.kind = "NORMAL", Low(memmap[op.current])
      PROVE  Available(LAMBDA entry : ~ Low(entry)) = {}
  <2>1. AllocTakes
    BY <1>1, StepFacts
  <2>2. /\ op \in AllocOps /\ AllocWalkInv /\ op.current \in DOMAIN pas
    BY <1>1, <2>1, TakenFrom
  <2>3. op.list \in {"all", "16mb"}
    BY <1>1, <2>2 DEF AllocOps
  <2>4. op.list = "16mb"
    BY <1>1, <2>2, <2>3 DEF AllocWalkInv
  <2>5. \A k \in DOMAIN pas : ~ Low(memmap[k]) => system_pa_exhausted(pas[k])
    BY <1>1, <2>2, <2>4 DEF AllocWalkInv
  <2> QED BY <2>5 DEF Available
<1>2. MemInv /\ [Next]_vars =>
        [\A address \in held' \ held :
           op.kind = "NORMAL" /\ Low(memmap[op.current])
             => Available(LAMBDA entry : ~ Low(entry)) = {}]_vars
  BY <1>1
<1> QED BY <1>2, MemInvHolds, PTL DEF Spec, NormalSparesLowMemory

\* A request fails only when no allocator that may serve it has a page left.
THEOREM FailureMeansExhausted == RegionsBelow4GiB => (Spec => FailsOnlyWhenExhausted)
<1> SUFFICES ASSUME RegionsBelow4GiB
             PROVE  Spec => FailsOnlyWhenExhausted
  OBVIOUS
<1> DEFINE Eligible(entry) == CASE op.kind = "NORMAL" -> TRUE
                                [] op.kind = "16MB"   -> Low(entry)
                                [] op.kind = "4GB"    -> InZone(entry, GB4)
<1>1. ASSUME MemInv, [Next]_vars, op # Idle, op.call = "alloc", op' = Idle, held' = held
      PROVE  \A k \in DOMAIN pas : Eligible(memmap[k]) => system_pa_exhausted(pas[k])
  <2>1. AllocListEnds
    <3>1. ~ AllocTakes
      <4> SUFFICES ASSUME AllocTakes PROVE FALSE
        OBVIOUS
      <4> DEFINE a == AllocAddress(pas[op.current])
      <4>1. a \notin held /\ held' = held \cup {a}
        BY <1>1, AllocTakesStep
      <4> QED BY <1>1, <4>1
    <3>2. op' # op /\ op.call # "free" /\ op'.call = "none"
      BY <1>1 DEF Idle
    <3>3. op \in AllocOps
      BY <1>1 DEF MemInv, WalkInv, FreeOps
    <3>4. ~ AllocSkips
      <4>1. \A x : [op EXCEPT !.current = x].call = "alloc"
        BY <3>3 DEF AllocOps
      <4> QED BY <3>2, <4>1 DEF AllocSkips, Advance
    <3>5. ~ SetupSkips /\ ~ SetupRegion /\ ~ SetupDone /\ ~ DereferencesNULL /\ ~ hcf
          /\ ~ UNCHANGED vars
      BY <3>2 DEF SetupSkips, SetupRegion, SetupDone, DereferencesNULL, hcf, vars
    <3>6. ~ FreeFound /\ ~ FreeSkips /\ ~ FreeNotFound
      BY <3>2 DEF FreeFound, FreeSkips, FreeNotFound, AtAllocator, AtSentinel
    <3>7. (\A kind \in Kinds : ~ AllocBegin(kind)) /\ (\A address : ~ FreeBegin(address))
      BY <1>1 DEF AllocBegin, FreeBegin
    <3> QED BY <1>1, <3>1, <3>4, <3>5, <3>6, <3>7 DEF Next, Step
  <2>2. op \in AllocOps \cup FreeOps /\ op.current \notin DOMAIN pas
    BY <1>1, <2>1, AtSentinelFacts DEF AllocListEnds
  <2>3. op \in AllocOps /\ AllocWalkInv /\ MapInv
    BY <1>1, <2>2 DEF FreeOps, MemInv, WalkInv
  <2>4. op.list # "all"
    <3>1. ASSUME op.list = "all"
          PROVE  FALSE
      <4>1. op' = [op EXCEPT !.list = "16mb", !.current = Start("16MB").current]
        BY <2>1, <3>1 DEF AllocListEnds
      <4>2. op'.call = "alloc"
        BY <1>1, <2>3, <4>1 DEF AllocOps
      <4> QED BY <1>1, <4>2 DEF Idle
    <3> QED BY <3>1
  <2>5. \A k \in OnList(op.list) : system_pa_exhausted(pas[k])
    BY <2>2, <2>3, <2>4 DEF AllocWalkInv, Passed
  <2>6. /\ \A k \in DOMAIN pas : k \in OnList("16mb") <=> Low(memmap[k])
        /\ \A k \in DOMAIN pas : k \in OnList("4gb") <=> InZone(memmap[k], GB4)
    BY <2>3, OnListFacts
  <2>7. \/ op.kind = "NORMAL" /\ op.list = "16mb"
        \/ op.kind = "16MB" /\ op.list = "16mb"
        \/ op.kind = "4GB" /\ op.list = "4gb"
    BY <2>3, <2>4 DEF AllocOps
  <2>8. CASE op.kind = "NORMAL" /\ op.list = "16mb"
    BY <2>3, <2>5, <2>6, <2>8 DEF AllocWalkInv
  <2>9. CASE op.kind = "16MB" /\ op.list = "16mb"
    BY <2>5, <2>6, <2>9
  <2>10. CASE op.kind = "4GB" /\ op.list = "4gb"
    BY <2>5, <2>6, <2>10
  <2> QED BY <2>7, <2>8, <2>9, <2>10
<1>2. ASSUME MemInv, [Next]_vars, op # Idle, op.call = "alloc", op' = Idle, held' = held
      PROVE  Available(LAMBDA entry : CASE op.kind = "NORMAL" -> TRUE
                                        [] op.kind = "16MB"   -> Low(entry)
                                        [] op.kind = "4GB"    -> InZone(entry, GB4)) = {}
  BY <1>1, <1>2 DEF Available
<1>3. MemInv /\ [Next]_vars =>
        [op # Idle /\ op.call = "alloc" /\ op' = Idle /\ held' = held
           => Available(LAMBDA entry :
                          CASE op.kind = "NORMAL" -> TRUE
                            [] op.kind = "16MB"   -> Low(entry)
                            [] op.kind = "4GB"    -> InZone(entry, GB4)) = {}]_vars
  BY <1>2
<1> QED BY <1>3, MemInvHolds, PTL DEF Spec, FailsOnlyWhenExhausted

\* The metadata of every usable region fits into it: setup stops at none.
LEMMA SetupFits ==
  ASSUME SYSTEM_PAGE_SIZE >= 77, MemInv, RegionsBelow4GiB, SetupRegion
  PROVE  phase' = "setup"
<1> DEFINE n == PageCount(i)
           P == SYSTEM_PAGE_SIZE
<1>1. MapInv /\ i \in Entries /\ phase = "setup" /\ memmap[i].usable /\ memmap[i].length > P
  BY DEF MemInv, SetupRegion
<1>2. /\ memmap[i].length \in Nat /\ n \in Nat /\ n >= 1 /\ n * P \in Nat
      /\ n * P <= memmap[i].length
  BY <1>1, EntryFacts
<1>3. memmap[i].length <= U32_MAX + 1
  BY <1>1 DEF MapInv, RegionsBelow4GiB, Entries
<1> HIDE DEF n
<1>4. P \in Nat /\ P >= 77 /\ U32_MAX \in Nat \ {0}
  BY PageSizeAssumption, U32Assumption
<1> HIDE DEF P
<1>5. n * 77 <= n * P /\ n * 77 \in Nat
  <2>1. PICK d \in Nat : P = 77 + d
    BY <1>4, P - 77 \in Nat
  <2>2. n * P = n * 77 + n * d /\ n * d \in Nat
    BY <1>2, <2>1
  <2> QED BY <1>2, <2>2
<1>6. n \in 1 .. U32_MAX
  BY <1>2, <1>3, <1>4, <1>5
<1>7. system_pa_init_asserts(RequiredPages(n), n)
  BY <1>6, MetadataFits
<1>8. /\ system_pa_calculate_required_size(n) \in Nat
      /\ system_pa_calculate_required_size(n) < 77 * n
  BY <1>2, RequiredSizeBounds
<1>9. memmap[i].length >= system_pa_calculate_required_size(n)
  BY <1>2, <1>5, <1>8
<1> QED BY <1>1, <1>7, <1>9 DEF SetupRegion, n, PageCount

\* Setup does not stop the kernel, nor does an allocation in a machine with
\* memory in the zone, nor the free of a page that the caller holds.
THEOREM OnlyMisuseStops ==
  SYSTEM_PAGE_SIZE >= 77 /\ RegionsBelow4GiB => (Spec => OnlyMisuseHalts)
<1> SUFFICES ASSUME SYSTEM_PAGE_SIZE >= 77, RegionsBelow4GiB
             PROVE  Spec => OnlyMisuseHalts
  OBVIOUS
<1>1. ASSUME MemInv, [Next]_vars, phase' = "halted", phase # "halted"
      PROVE  \/ op # Idle /\ op.call = "free" /\ op.address \notin held
             \/ op # Idle /\ ListEmpty(op.list)
  <2>1. phase' # phase /\ phase' # "setup" /\ phase' # "running"
    BY <1>1
  <2>2. ~ SetupSkips /\ ~ SetupDone /\ ~ AllocSkips /\ ~ AllocListEnds /\ ~ FreeSkips
        /\ ~ hcf /\ ~ UNCHANGED vars
    BY <1>1, <2>1 DEF SetupSkips, SetupDone, AllocSkips, AllocListEnds, FreeSkips, hcf, vars
  <2>3. ~ SetupRegion
    BY <1>1, <2>1, SetupFits
  <2>4. ~ AllocTakes
    BY <1>1, <2>1, AllocTakesStep
  <2>5. (\A kind \in Kinds : ~ AllocBegin(kind)) /\ (\A address : ~ FreeBegin(address))
    BY <2>1 DEF AllocBegin, FreeBegin
  <2>6. FreeFound \/ FreeNotFound \/ DereferencesNULL
    BY <1>1, <2>2, <2>3, <2>4, <2>5 DEF Next, Step
  <2>7. CASE FreeFound
    BY <1>1, <2>1, <2>7, FreeFoundStep
  <2>8. CASE FreeNotFound
    BY <1>1, <2>8, FreeNotFoundStep
  <2>9. CASE DereferencesNULL
    BY <1>1, <2>9, DereferencesNULLStep
  <2> QED BY <2>6, <2>7, <2>8, <2>9
<1>2. MemInv /\ [Next]_vars =>
        [phase' = "halted" =>
           \/ phase = "halted"
           \/ op # Idle /\ op.call = "free" /\ op.address \notin held
           \/ op # Idle /\ ListEmpty(op.list)]_vars
  BY <1>1
<1> QED BY <1>2, MemInvHolds, PTL DEF Spec, OnlyMisuseHalts

=============================================================================
