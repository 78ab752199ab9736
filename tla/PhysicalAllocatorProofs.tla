----------------------- MODULE PhysicalAllocatorProofs ----------------------
(***************************************************************************)
(* Facts about the operations of one physical allocator, for every region, *)
(* page size and width of the offset arithmetic: what the operations keep  *)
(* of the agreement between stack and bitmap, and when their kasserts and  *)
(* their address computation are right.                                    *)
(***************************************************************************)
EXTENDS PhysicalAllocator, FiniteSetTheorems, TLAPS

-----------------------------------------------------------------------------
(* Arithmetic                                                              *)

\* Multiples of a positive number are at least that number apart.
LEMMA MulStep ==
  ASSUME NEW P \in Nat \ {0}, NEW p \in Nat, NEW q \in Nat, p < q
  PROVE  p * P + P <= q * P /\ p * P \in Nat /\ q * P \in Nat
<1>1. PICK d \in Nat : q = p + 1 + d
  BY q - p - 1 \in Nat
<1>2. q * P = p * P + P + d * P
  BY <1>1
<1>3. d * P \in Nat /\ p * P \in Nat
  OBVIOUS
<1> QED BY <1>2, <1>3

\* Division undoes multiplication.
LEMMA DivOfMul ==
  ASSUME NEW P \in Nat \ {0}, NEW p \in Nat
  PROVE  (p * P) \div P = p
OBVIOUS

\* A number below the modulus is its own remainder.
LEMMA ModSmall ==
  ASSUME NEW m \in Nat \ {0}, NEW x \in Nat, x < m
  PROVE  x % m = x
OBVIOUS

\* An array of distinct numbers from m .. n - 1 that misses one of them is
\* shorter than n - m.
LEMMA DistinctBound ==
  ASSUME NEW m \in Nat, NEW n \in Nat, NEW x \in m .. n - 1,
         NEW top \in Int, top >= -1,
         NEW f, \A s \in 0 .. top : f[s] \in (m .. n - 1) \ {x},
         \A s, t \in 0 .. top : f[s] = f[t] => s = t
  PROVE  top + 1 < n - m
<1> DEFINE S == 0 .. top
           T == (m .. n - 1) \ {x}
           g == [s \in S |-> f[s]]
<1>1. IsFiniteSet(S) /\ Cardinality(S) = top + 1
  BY FS_Interval
<1>2. IsFiniteSet(T) /\ Cardinality(T) = n - m - 1
  <2>1. IsFiniteSet(m .. n - 1) /\ Cardinality(m .. n - 1) = n - m
    BY FS_Interval
  <2> QED BY <2>1, FS_RemoveElement
<1>3. g \in [S -> T]
  OBVIOUS
<1>4. ASSUME Cardinality(T) < Cardinality(S)
      PROVE  FALSE
  <2>1. \E s, t \in S : s # t /\ g[s] = g[t]
    <3> HIDE DEF S, T, g
    <3> QED BY <1>1, <1>2, <1>3, <1>4, FS_PigeonHole
  <2> QED BY <2>1
<1> QED BY <1>1, <1>2, <1>4

-----------------------------------------------------------------------------
(* Addresses                                                               *)

\* The address of a page lies in the region and determines the page.
LEMMA PageAddressFacts ==
  ASSUME NEW base \in Nat, NEW n \in Nat, NEW pa \in Structs(base, n),
         NEW p \in 0 .. n - 1
  PROVE  /\ InRegion(pa, PageAddress(pa, p))
         /\ PageIndex(pa, PageAddress(pa, p)) = p
         /\ PageAddress(pa, p) = base + p * SYSTEM_PAGE_SIZE
<1>1. pa.address_base = base /\ pa.size = n
  BY DEF Structs
<1>2. p * SYSTEM_PAGE_SIZE + SYSTEM_PAGE_SIZE <= n * SYSTEM_PAGE_SIZE
      /\ p * SYSTEM_PAGE_SIZE \in Nat /\ n * SYSTEM_PAGE_SIZE \in Nat
  BY MulStep, PageSizeAssumption
<1>3. (p * SYSTEM_PAGE_SIZE) \div SYSTEM_PAGE_SIZE = p
  BY DivOfMul, PageSizeAssumption
<1>4. (base + p * SYSTEM_PAGE_SIZE) - base = p * SYSTEM_PAGE_SIZE
  BY <1>2
<1> QED
  BY <1>1, <1>2, <1>3, <1>4, PageSizeAssumption DEF InRegion, PageIndex, PageAddress

\* In a region of at most 4 GiB the 32-bit product of system_pa_alloc does not
\* wrap: the address returned is that of the page popped off the stack.
LEMMA AllocAddressExact ==
  ASSUME NEW base \in Nat, NEW n \in Nat, NEW pa \in Structs(base, n),
         n * SYSTEM_PAGE_SIZE <= U32_MAX + 1,
         pa.stack_top >= 0
  PROVE  /\ AllocOffset(pa) \in 0 .. n - 1
         /\ AllocAddress(pa) = PageAddress(pa, AllocOffset(pa))
         /\ system_pa_alloc_asserts(pa)
<1>1. AllocOffset(pa) \in 0 .. n - 1
  BY DEF Structs, AllocOffset
<1> DEFINE x == AllocOffset(pa) * SYSTEM_PAGE_SIZE
<1>2. x + SYSTEM_PAGE_SIZE <= n * SYSTEM_PAGE_SIZE /\ x \in Nat /\ n * SYSTEM_PAGE_SIZE \in Nat
  BY <1>1, MulStep, PageSizeAssumption
<1>3. x < U32_MAX + 1
  BY <1>2, PageSizeAssumption, U32Assumption
<1>4. x % (U32_MAX + 1) = x
  BY <1>2, <1>3, ModSmall, U32Assumption
<1>5. AllocAddress(pa) = PageAddress(pa, AllocOffset(pa))
  BY <1>4 DEF AllocAddress, PageAddress
<1>6. InRegion(pa, AllocAddress(pa))
  BY <1>1, <1>5, PageAddressFacts
<1> QED
  BY <1>1, <1>5, <1>6 DEF system_pa_alloc_asserts, Structs

-----------------------------------------------------------------------------
(* Updates of the struct that keep its type                                *)

\* The fields that system_pa_alloc assigns, given values of their types.
LEMMA AllocUpdate ==
  ASSUME NEW base, NEW n \in Nat, NEW pa \in Structs(base, n),
         NEW bitmap \in SUBSET (0 .. n - 1), NEW top \in -1 .. n - 1
  PROVE  [pa EXCEPT !.pages_bitmap = bitmap, !.stack_top = top] \in Structs(base, n)
BY DEF Structs

\* The fields that system_pa_free assigns, given values of their types.
LEMMA FreeUpdate ==
  ASSUME NEW base, NEW n \in Nat, NEW pa \in Structs(base, n),
         NEW bitmap \in SUBSET (0 .. n - 1), NEW top \in -1 .. n - 1,
         NEW stack \in [0 .. n - 1 -> 0 .. n - 1]
  PROVE  [pa EXCEPT !.stack_top = top, !.pages_stack = stack, !.pages_bitmap = bitmap]
           \in Structs(base, n)
BY DEF Structs

-----------------------------------------------------------------------------
(* The operations keep stack and bitmap in agreement                       *)

\* system_pa_init stacks every page but those of the metadata, once each.
LEMMA InitMatches ==
  ASSUME NEW base \in Nat, NEW n \in Nat, NEW m \in Nat,
         system_pa_init_asserts(m, n)
  PROVE  /\ system_pa_init(base, m, n) \in Structs(base, n)
         /\ StackMatchesBitmap(system_pa_init(base, m, n), m)
         /\ StackPages(system_pa_init(base, m, n)) = m .. n - 1
<1> DEFINE pa == system_pa_init(base, m, n)
<1>1. m > 0 /\ m <= n
  BY DEF system_pa_init_asserts
<1>2. pa \in Structs(base, n)
  BY <1>1 DEF Structs, system_pa_init
<1>3. \A s \in 0 .. pa.stack_top : pa.pages_stack[s] = m + s
  BY <1>1 DEF system_pa_init
<1>4. pa.stack_top = n - m - 1 /\ pa.size = n /\ pa.pages_bitmap = 0 .. m - 1
  BY DEF system_pa_init
<1> HIDE DEF pa
<1>5. StackPages(pa) = m .. n - 1
  <2>1. ASSUME NEW p \in m .. n - 1
        PROVE  p \in StackPages(pa)
    <3>1. p - m \in 0 .. pa.stack_top /\ pa.pages_stack[p - m] = p
      BY <1>1, <1>3, <1>4
    <3> QED BY <3>1 DEF StackPages
  <2>2. \A p \in StackPages(pa) : p \in m .. n - 1
    BY <1>1, <1>3, <1>4 DEF StackPages
  <2> QED BY <2>1, <2>2
<1>6. StackDistinct(pa)
  BY <1>1, <1>3, <1>4 DEF StackDistinct
<1> QED
  BY <1>1, <1>2, <1>4, <1>5, <1>6 DEF StackMatchesBitmap, pa

\* system_pa_alloc takes one page, whose bit was clear, off the stack.
LEMMA AllocMatches ==
  ASSUME NEW base \in Nat, NEW n \in Nat, NEW m \in Nat,
         NEW pa \in Structs(base, n), StackMatchesBitmap(pa, m),
         pa.stack_top >= 0
  PROVE  /\ system_pa_alloc(pa) \in Structs(base, n)
         /\ StackMatchesBitmap(system_pa_alloc(pa), m)
         /\ AllocOffset(pa) \in StackPages(pa)
         /\ StackPages(system_pa_alloc(pa)) = StackPages(pa) \ {AllocOffset(pa)}
<1> DEFINE new == system_pa_alloc(pa)
           off == AllocOffset(pa)
<1>1. off = pa.pages_stack[pa.stack_top] /\ off \in 0 .. n - 1
  BY DEF AllocOffset, Structs
<1>2. /\ new.size = n
      /\ new.stack_top = pa.stack_top - 1
      /\ new.pages_bitmap = pa.pages_bitmap \cup {off}
      /\ new.pages_stack = pa.pages_stack
  BY DEF system_pa_alloc, Structs
<1>3. new \in Structs(base, n)
  <2>1. /\ pa.stack_top - 1 \in -1 .. n - 1
        /\ pa.pages_bitmap \cup {off} \in SUBSET (0 .. n - 1)
        /\ pa.pages_stack \in [0 .. n - 1 -> 0 .. n - 1]
        /\ pa.size = n /\ pa.address_base = base
    BY <1>1 DEF Structs
  <2> HIDE DEF off
  <2> QED BY <2>1, AllocUpdate DEF system_pa_alloc, off
<1>4. pa.stack_top \in 0 .. n - 1 /\ pa.size = n
  BY DEF Structs
<1> HIDE DEF new, off
<1>5. off \in StackPages(pa)
  BY <1>1, <1>4 DEF StackPages
<1>6. \A s \in 0 .. pa.stack_top - 1 : pa.pages_stack[s] # off
  BY <1>1, <1>4 DEF StackMatchesBitmap, StackDistinct
<1>7. StackPages(new) = StackPages(pa) \ {off}
  <2>1. \A p \in StackPages(new) : p \in StackPages(pa) /\ p # off
    BY <1>2, <1>4, <1>6 DEF StackPages
  <2>2. ASSUME NEW p \in StackPages(pa), p # off
        PROVE  p \in StackPages(new)
    <3>1. PICK s \in 0 .. pa.stack_top : p = pa.pages_stack[s]
      BY DEF StackPages
    <3>2. s \in 0 .. pa.stack_top - 1
      BY <1>1, <1>4, <2>2, <3>1
    <3> QED BY <1>2, <3>1, <3>2 DEF StackPages
  <2> QED BY <2>1, <2>2
<1>8. StackDistinct(new)
  BY <1>2, <1>4 DEF StackMatchesBitmap, StackDistinct
<1>9. StackMatchesBitmap(new, m)
  BY <1>2, <1>4, <1>7, <1>8 DEF StackMatchesBitmap
<1> QED
  BY <1>3, <1>5, <1>7, <1>9 DEF new, off

\* system_pa_free of a page in use passes its kasserts and puts that page, and
\* only that page, back on the stack.
LEMMA FreeMatches ==
  ASSUME NEW base \in Nat, NEW n \in Nat, NEW m \in Nat \ {0},
         NEW pa \in Structs(base, n), StackMatchesBitmap(pa, m),
         NEW p \in m .. n - 1, p \in pa.pages_bitmap
  PROVE  /\ system_pa_free_asserts(pa, PageAddress(pa, p))
         /\ system_pa_free(pa, PageAddress(pa, p)) \in Structs(base, n)
         /\ StackMatchesBitmap(system_pa_free(pa, PageAddress(pa, p)), m)
         /\ StackPages(system_pa_free(pa, PageAddress(pa, p))) = StackPages(pa) \cup {p}
<1> DEFINE a   == PageAddress(pa, p)
           new == system_pa_free(pa, a)
           top == pa.stack_top
<1>1. top \in -1 .. n - 1 /\ pa.size = n /\ pa.pages_stack \in [0 .. n - 1 -> 0 .. n - 1]
  BY DEF Structs
<1>2. p \in 0 .. n - 1
  OBVIOUS
<1>3. PageIndex(pa, a) = p /\ InRegion(pa, a)
  BY <1>2, PageAddressFacts
<1>4. \A s \in 0 .. top : pa.pages_stack[s] \in (m .. n - 1) \ {p}
  <2>1. SUFFICES ASSUME NEW s \in 0 .. top
                 PROVE  pa.pages_stack[s] \in (m .. n - 1) \ {p}
    OBVIOUS
  <2>2. pa.pages_stack[s] \in StackPages(pa)
    BY DEF StackPages
  <2>3. pa.pages_stack[s] \in (0 .. n - 1) \ pa.pages_bitmap
    BY <1>1, <2>2 DEF StackMatchesBitmap
  <2> QED BY <2>3 DEF StackMatchesBitmap
<1>5. top + 1 < n - m
  <2>1. \A s, t \in 0 .. top : pa.pages_stack[s] = pa.pages_stack[t] => s = t
    BY DEF StackMatchesBitmap, StackDistinct
  <2>2. top \in Int /\ top >= -1 /\ m \in Nat
    BY <1>1
  <2> DEFINE f == pa.pages_stack
  <2>3. \A s \in 0 .. top : f[s] \in (m .. n - 1) \ {p}
    BY <1>4
  <2> HIDE DEF top, f
  <2> QED BY <2>1, <2>2, <2>3, DistinctBound DEF f
<1>6. top + 1 \in 0 .. n - 1
  <2> HIDE DEF top
  <2> QED BY <1>1, <1>5
<1>7. system_pa_free_asserts(pa, a)
  BY <1>1, <1>3, <1>5 DEF system_pa_free_asserts, system_pa_is_free
<1>8. /\ new.size = n
      /\ new.stack_top = top + 1
      /\ new.pages_bitmap = pa.pages_bitmap \ {p}
      /\ new.pages_stack = [pa.pages_stack EXCEPT ![top + 1] = p]
  BY <1>3 DEF system_pa_free, Structs
<1>9. new \in Structs(base, n)
  <2>1. pa.pages_bitmap \ {p} \in SUBSET (0 .. n - 1)
    BY DEF Structs
  <2>2. top + 1 \in -1 .. n - 1
    <3> HIDE DEF top
    <3> QED BY <1>1, <1>6
  <2>3. [pa.pages_stack EXCEPT ![top + 1] = p] \in [0 .. n - 1 -> 0 .. n - 1]
    BY <1>1, <1>2, <1>6
  <2>4. new = [pa EXCEPT !.stack_top    = top + 1,
                         !.pages_stack  = [pa.pages_stack EXCEPT ![top + 1] = p],
                         !.pages_bitmap = pa.pages_bitmap \ {p}]
    BY <1>3, Zenon DEF system_pa_free
  <2> HIDE DEF new, top, a
  <2> QED BY <2>1, <2>2, <2>3, <2>4, FreeUpdate
<1> HIDE DEF new, a
<1>10. /\ \A s \in 0 .. top : new.pages_stack[s] = pa.pages_stack[s]
       /\ new.pages_stack[top + 1] = p
  <2> DEFINE f == pa.pages_stack
             g == new.pages_stack
             k == top + 1
  <2>1. g = [f EXCEPT ![k] = p] /\ f \in [0 .. n - 1 -> 0 .. n - 1] /\ k \in 0 .. n - 1
    BY <1>1, <1>6, <1>8
  <2>2. 0 .. top \subseteq (0 .. n - 1) \ {k}
    <3> HIDE DEF top
    <3> QED BY <1>1, <1>6
  <2> HIDE DEF f, g, k
  <2>3. (\A s \in (0 .. n - 1) \ {k} : g[s] = f[s]) /\ g[k] = p
    BY <2>1
  <2> QED BY <2>2, <2>3 DEF f, g, k
<1> HIDE DEF top
<1>11. StackPages(new) = StackPages(pa) \cup {p}
  <2>1. ASSUME NEW x \in StackPages(new)
        PROVE  x \in StackPages(pa) \cup {p}
    <3>1. PICK s \in 0 .. top + 1 : x = new.pages_stack[s]
      BY <1>8 DEF StackPages
    <3>2. s \in 0 .. top \/ s = top + 1
      BY <1>1
    <3>3. x = p \/ (s \in 0 .. top /\ x = pa.pages_stack[s])
      BY <1>10, <3>1, <3>2
    <3> QED BY <3>3 DEF StackPages, top
  <2>2. ASSUME NEW x \in StackPages(pa)
        PROVE  x \in StackPages(new)
    <3>1. PICK s \in 0 .. top : x = pa.pages_stack[s]
      BY DEF StackPages, top
    <3>2. s \in 0 .. new.stack_top /\ x = new.pages_stack[s]
      BY <1>1, <1>8, <1>10, <3>1
    <3> QED BY <3>2 DEF StackPages
  <2>3. p \in StackPages(new)
    BY <1>1, <1>8, <1>10 DEF StackPages
  <2> QED BY <2>1, <2>2, <2>3
<1>12. StackDistinct(new)
  <2>1. \A s \in 0 .. top : new.pages_stack[s] # p
    BY <1>4, <1>10
  <2>2. \A s, t \in 0 .. top : new.pages_stack[s] = new.pages_stack[t] => s = t
    BY <1>10 DEF StackMatchesBitmap, StackDistinct, top
  <2>3. 0 .. new.stack_top = (0 .. top) \cup {top + 1}
    BY <1>1, <1>8
  <2>4. \A s, t \in (0 .. top) \cup {top + 1} :
          new.pages_stack[s] = new.pages_stack[t] => s = t
    BY <1>10, <2>1, <2>2
  <2> QED BY <2>3, <2>4 DEF StackDistinct
<1>13. StackMatchesBitmap(new, m)
  BY <1>1, <1>2, <1>8, <1>11, <1>12 DEF StackMatchesBitmap
<1> QED
  BY <1>7, <1>9, <1>11, <1>13 DEF new, a

-----------------------------------------------------------------------------
(* What a change of the stack means for the addresses on offer             *)

\* One page less on the stack is one address less on offer.
LEMMA FreeAddressesWithout ==
  ASSUME NEW base \in Nat, NEW n \in Nat,
         NEW pa \in Structs(base, n), NEW new \in Structs(base, n),
         NEW p \in 0 .. n - 1,
         StackPages(pa) \subseteq 0 .. n - 1,
         StackPages(new) = StackPages(pa) \ {p}
  PROVE  FreeAddresses(new) = FreeAddresses(pa) \ {PageAddress(pa, p)}
<1>1. \A q \in 0 .. n - 1 : /\ PageAddress(new, q) = PageAddress(pa, q)
                            /\ PageIndex(pa, PageAddress(pa, q)) = q
  BY PageAddressFacts
<1>2. \A q \in 0 .. n - 1 : q # p => PageAddress(pa, q) # PageAddress(pa, p)
  BY <1>1
<1>3. ASSUME NEW x \in FreeAddresses(new)
      PROVE  x \in FreeAddresses(pa) \ {PageAddress(pa, p)}
  BY <1>1, <1>2 DEF FreeAddresses
<1>4. ASSUME NEW x \in FreeAddresses(pa), x # PageAddress(pa, p)
      PROVE  x \in FreeAddresses(new)
  <2>1. PICK q \in StackPages(pa) : x = PageAddress(pa, q)
    BY DEF FreeAddresses
  <2> QED BY <1>1, <1>4, <2>1 DEF FreeAddresses
<1> QED BY <1>3, <1>4

\* One page more on the stack is one address more on offer.
LEMMA FreeAddressesWith ==
  ASSUME NEW base \in Nat, NEW n \in Nat,
         NEW pa \in Structs(base, n), NEW new \in Structs(base, n),
         NEW p \in 0 .. n - 1,
         StackPages(pa) \subseteq 0 .. n - 1,
         StackPages(new) = StackPages(pa) \cup {p}
  PROVE  FreeAddresses(new) = FreeAddresses(pa) \cup {PageAddress(pa, p)}
<1>1. \A q \in 0 .. n - 1 : PageAddress(new, q) = PageAddress(pa, q)
  BY PageAddressFacts
<1>2. ASSUME NEW x \in FreeAddresses(new)
      PROVE  x \in FreeAddresses(pa) \cup {PageAddress(pa, p)}
  BY <1>1 DEF FreeAddresses
<1>3. ASSUME NEW x \in FreeAddresses(pa) \cup {PageAddress(pa, p)}
      PROVE  x \in FreeAddresses(new)
  BY <1>1 DEF FreeAddresses
<1> QED BY <1>2, <1>3

-----------------------------------------------------------------------------
(* The layout of the metadata                                              *)

\* Struct, bitmap and stack together take fewer than 77 bytes for each page.
LEMMA RequiredSizeBounds ==
  ASSUME NEW n \in Nat \ {0}
  PROVE  /\ system_pa_calculate_required_size(n) \in Nat
         /\ system_pa_calculate_required_size(n) < 77 * n
<1> DEFINE words == (n + 63) \div 64
<1>1. words \in Nat /\ 64 * words <= n + 63
  OBVIOUS
<1>2. system_pa_calculate_required_size(n) = 64 + n * 4 + words * 8
  BY DEF system_pa_calculate_required_size, system_pa_calculate_size_specification,
         SizeOfAllocator, SizeOfU32, SizeOfU64
<1> HIDE DEF words
<1> QED BY <1>1, <1>2

\* system_paging_setup reserves enough pages for the struct, the bitmap and the
\* stack, and what it passes to system_pa_init satisfies its kasserts, for every
\* region of at least one page: the only memory it needs is the region's own.
\* (The page size is 4096; the struct, one bitmap word and one stack entry take
\* 76 bytes.)
THEOREM MetadataFits ==
  ASSUME SYSTEM_PAGE_SIZE >= 77, NEW n \in 1 .. U32_MAX
  PROVE  /\ system_pa_calculate_required_size(n) < RequiredPages(n) * SYSTEM_PAGE_SIZE
         /\ system_pa_init_asserts(RequiredPages(n), n)
<1> DEFINE size == system_pa_calculate_required_size(n)
           P    == SYSTEM_PAGE_SIZE
           q    == size \div P
<1>1. size \in Nat /\ size < 77 * n /\ P \in Nat \ {0} /\ P >= 77 /\ n \in Nat \ {0}
  BY RequiredSizeBounds, PageSizeAssumption, U32Assumption
<1>2. RequiredPages(n) = q + 1
  BY DEF RequiredPages
<1> HIDE DEF size, P
<1>3. q \in Nat /\ q * P <= size /\ size < q * P + P
  BY <1>1
<1> HIDE DEF q
<1>4. size < (q + 1) * P
  BY <1>1, <1>3
<1>5. q < n
  <2>1. SUFFICES ASSUME n <= q PROVE FALSE
    BY <1>1, <1>3
  <2>2. n * P <= q * P
    <3>1. CASE n = q
      BY <1>1, <1>3, <3>1
    <3>2. CASE n < q
      BY <1>1, <1>3, <3>2, MulStep
    <3> QED BY <1>1, <1>3, <2>1, <3>1, <3>2
  <2>3. 77 * n <= n * P
    <3>1. CASE P = 77
      BY <1>1, <3>1
    <3>2. CASE 77 < P
      <4>1. 77 * n + n <= P * n
        BY <1>1, <3>2, MulStep
      <4> QED BY <1>1, <4>1
    <3> QED BY <1>1, <3>1, <3>2
  <2> QED BY <1>1, <1>3, <2>2, <2>3
<1> QED
  BY <1>1, <1>2, <1>3, <1>4, <1>5 DEF system_pa_init_asserts, size, P

=============================================================================
