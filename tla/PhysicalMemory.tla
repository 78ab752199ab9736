--------------------------- MODULE PhysicalMemory ---------------------------
(***************************************************************************)
(* The machine's physical memory as system_paging.c manages it: one        *)
(* allocator for each usable entry of the bootloader's memory map, chained *)
(* on three lists (all of them, those below 16 MiB, those below 4 GiB).    *)
(* system_paging_setup builds the lists, system_paging_physical_alloc and  *)
(* system_paging_physical_free walk them; every iteration of a loop is a   *)
(* step.  The kernel runs on one CPU and no interrupt handler allocates,   *)
(* so at most one call is in progress.                                     *)
(*                                                                         *)
(* Addresses and lengths are numbers of bytes.  A pointer to an allocator  *)
(* is the index of its entry in the memory map.                            *)
(***************************************************************************)
EXTENDS PhysicalAllocator, Sequences, FiniteSets

CONSTANTS
  MB16, GB4,   \* the limits of the zones: MB(16) and GB(4) in the code
  MemMaps      \* the memory maps the bootloader may report: sequences of
               \* [base, length, usable], sorted and free of overlap

ASSUME ZonesAssumption ==
  MB16 \in Nat /\ GB4 \in Nat /\ MB16 <= GB4

ASSUME MemMapsAssumption ==
  \A map \in MemMaps :
    /\ map \in Seq([base : Nat, length : Nat, usable : BOOLEAN])
    /\ \A j, k \in 1 .. Len(map) : j < k => map[j].base + map[j].length <= map[k].base

\* Pointers that are not allocators of the memory map.
NULL == 0
Sentinel == -1   \* &system_paging.pa_sentinel
Base == -2       \* the local struct base of system_paging_setup

Lists == {"all", "16mb", "4gb"}   \* next, next_16mb, next_4gb
Kinds == {"NORMAL", "16MB", "4GB"}

VARIABLES
  memmap,           \* the bootloader's memory map
  phase,            \* "setup", "running" or "halted" (in hcf)
  i,                \* setup: the entry to handle next
  pas,              \* the allocators initialised so far
  next,             \* the links of each list
  last,             \* setup: the tail of each list
  first,            \* the published head of each list
  first_non_16mb,
  op,               \* the call in progress
  held              \* the addresses that callers hold

lists == <<next, last, first, first_non_16mb>>
vars == <<memmap, phase, i, pas, lists, op, held>>

Idle == [call |-> "none"]

Entries == 1 .. Len(memmap)

\* A list ends in the struct that is its own successor on the list of all
\* allocators, whichever list is walked; NULL is not recognised.
system_paging_pa_is_sentinel(pa) == pa = next["all"][pa]

-----------------------------------------------------------------------------
(* system_paging_setup                                                     *)

Init ==
  /\ memmap \in MemMaps
  /\ phase = "setup"
  /\ i = 1
  /\ pas = <<>>
  /\ next = [l \in Lists |->
               [p \in Entries \cup {Sentinel, Base} |->
                  IF p = Sentinel THEN Sentinel ELSE NULL]]
  /\ last = [l \in Lists |-> Base]
  /\ first = [l \in Lists |-> NULL]
  /\ first_non_16mb = Sentinel
  /\ op = Idle
  /\ held = {}

\* Bug variant: only the start of the entry is compared.
InZoneByBase(entry, limit) == entry.base < limit

\* The entry lies in the zone that ends at limit.
InZone(entry, limit) == entry.base < limit /\ entry.base + entry.length < limit

\* The lists that the allocator of an entry goes on.
ListsOf(entry) ==
  {"all"} \cup (IF InZone(entry, MB16) THEN {"16mb"} ELSE {})
          \cup (IF InZone(entry, GB4)  THEN {"4gb"}  ELSE {})

\* current->next* = &pa_sentinel, then SL_APPEND_BASE on each list of on.
AppendTo(on, current) ==
  /\ next' = [l \in Lists |->
                IF l \in on
                THEN [next[l] EXCEPT ![current] = Sentinel, ![last[l]] = current]
                ELSE [next[l] EXCEPT ![current] = Sentinel]]
  /\ last' = [l \in Lists |-> IF l \in on THEN current ELSE last[l]]

SetupSkips ==
  /\ phase = "setup"
  /\ i \in Entries
  /\ ~ memmap[i].usable \/ memmap[i].length <= SYSTEM_PAGE_SIZE
  /\ i' = i + 1
  /\ UNCHANGED <<memmap, phase, pas, lists, op, held>>

SetupRegion ==
  /\ phase = "setup"
  /\ i \in Entries
  /\ memmap[i].usable /\ memmap[i].length > SYSTEM_PAGE_SIZE
  /\ LET entry == memmap[i]
         count == entry.length \div SYSTEM_PAGE_SIZE
     IN  IF /\ entry.length >= system_pa_calculate_required_size(count)
            /\ system_pa_init_asserts(RequiredPages(count), count)
         THEN /\ pas' = [k \in DOMAIN pas \cup {i} |->
                           IF k = i THEN system_pa_init(entry.base, RequiredPages(count), count)
                                    ELSE pas[k]]
              /\ AppendTo(ListsOf(entry), i)
              /\ first_non_16mb' = IF first_non_16mb = Sentinel /\ "16mb" \notin ListsOf(entry)
                                   THEN i ELSE first_non_16mb
              /\ i' = i + 1
              /\ UNCHANGED <<memmap, phase, first, op, held>>
         ELSE /\ phase' = "halted"
              /\ UNCHANGED <<memmap, i, pas, lists, op, held>>

\* The heads are published: base.next and its siblings, NULL if nothing was
\* appended to the list.
SetupDone ==
  /\ phase = "setup"
  /\ i > Len(memmap)
  /\ first' = [l \in Lists |-> next[l][Base]]
  /\ phase' = "running"
  /\ UNCHANGED <<memmap, i, pas, next, last, first_non_16mb, op, held>>

-----------------------------------------------------------------------------
(* system_paging_physical_alloc                                            *)

\* Bug variant: NORMAL starts with the first allocator of all.
StartAtFirst(kind) ==
  CASE kind = "NORMAL" -> [list |-> "all",  current |-> first["all"]]
    [] kind = "16MB"   -> [list |-> "16mb", current |-> first["16mb"]]
    [] kind = "4GB"    -> [list |-> "4gb",  current |-> first["4gb"]]

\* Where the loop of a list starts: the list and its first allocator.
Start(kind) ==
  CASE kind = "NORMAL" -> [list |-> "all",  current |-> first_non_16mb]
    [] kind = "16MB"   -> [list |-> "16mb", current |-> first["16mb"]]
    [] kind = "4GB"    -> [list |-> "4gb",  current |-> first["4gb"]]

AllocBegin(kind) ==
  /\ phase = "running" /\ op = Idle
  /\ op' = [call |-> "alloc", kind |-> kind,
            list |-> Start(kind).list, current |-> Start(kind).current]
  /\ UNCHANGED <<memmap, phase, i, pas, lists, held>>

\* A loop is about to look at an allocator of the machine.
AtAllocator(call) ==
  /\ phase = "running" /\ op.call = call /\ op.current # NULL
  /\ ~ system_paging_pa_is_sentinel(op.current)

\* A loop has come to the end of its list.
AtSentinel(call) ==
  /\ phase = "running" /\ op.call = call /\ op.current # NULL
  /\ system_paging_pa_is_sentinel(op.current)

\* Bug variant: the loop looks at the same allocator again.
AdvanceNowhere == op' = [op EXCEPT !.current = op.current]

\* The loop goes on to the next allocator of its list.
Advance == op' = [op EXCEPT !.current = next[op.list][op.current]]

\* When a kassert stops the kernel, how far the struct was updated no longer
\* matters.
AllocTakes ==
  /\ AtAllocator("alloc")
  /\ ~ system_pa_exhausted(pas[op.current])
  /\ LET pa == pas[op.current]
     IN  /\ pas' = [pas EXCEPT ![op.current] = system_pa_alloc(pa)]
         /\ IF system_pa_alloc_asserts(pa)
            THEN /\ held' = held \cup {AllocAddress(pa)}
                 /\ op' = Idle
                 /\ UNCHANGED phase
            ELSE /\ phase' = "halted"
                 /\ UNCHANGED <<op, held>>
  /\ UNCHANGED <<memmap, i, lists>>

AllocSkips ==
  /\ AtAllocator("alloc")
  /\ system_pa_exhausted(pas[op.current])
  /\ Advance
  /\ UNCHANGED <<memmap, phase, i, pas, lists, held>>

\* Bug variant: NORMAL does not fall through.
AllocListEndsBreak ==
  /\ AtSentinel("alloc")
  /\ op' = Idle
  /\ UNCHANGED <<memmap, phase, i, pas, lists, held>>

\* NORMAL falls through to the loop of the 16 MiB zone; otherwise *ok = false.
AllocListEnds ==
  /\ AtSentinel("alloc")
  /\ op' = IF op.list = "all"
           THEN [op EXCEPT !.list = "16mb", !.current = Start("16MB").current]
           ELSE Idle
  /\ UNCHANGED <<memmap, phase, i, pas, lists, held>>

\* system_paging_pa_is_sentinel(NULL) reads the unmapped first page: the page
\* fault ends in kpanic.
DereferencesNULL ==
  /\ phase = "running" /\ op # Idle /\ op.current = NULL
  /\ phase' = "halted"
  /\ UNCHANGED <<memmap, i, pas, lists, op, held>>

-----------------------------------------------------------------------------
(* system_paging_physical_free                                             *)

\* Bug variant: only the 16 MiB zone is searched.
FreeBeginLow(address) ==
  /\ phase = "running" /\ op = Idle
  /\ op' = [call |-> "free", address |-> address,
            list |-> "16mb", current |-> first["16mb"]]
  /\ UNCHANGED <<memmap, phase, i, pas, lists, held>>

FreeBegin(address) ==
  /\ phase = "running" /\ op = Idle
  /\ op' = [call |-> "free", address |-> address,
            list |-> "all", current |-> first["all"]]
  /\ UNCHANGED <<memmap, phase, i, pas, lists, held>>

FreeFound ==
  /\ AtAllocator("free")
  /\ LET pa == pas[op.current]
     IN  /\ InRegion(pa, op.address)
         /\ IF system_pa_free_asserts(pa, op.address)
            THEN /\ pas' = [pas EXCEPT ![op.current] = system_pa_free(pa, op.address)]
                 /\ held' = held \ {op.address}
                 /\ op' = Idle
                 /\ UNCHANGED phase
            ELSE /\ phase' = "halted"
                 /\ UNCHANGED <<pas, op, held>>
  /\ UNCHANGED <<memmap, i, lists>>

FreeSkips ==
  /\ AtAllocator("free")
  /\ ~ InRegion(pas[op.current], op.address)
  /\ Advance
  /\ UNCHANGED <<memmap, phase, i, pas, lists, held>>

\* kpanic: no allocator manages the address.
FreeNotFound ==
  /\ AtSentinel("free")
  /\ phase' = "halted"
  /\ UNCHANGED <<memmap, i, pas, lists, op, held>>

-----------------------------------------------------------------------------

\* The pages of an entry, and of those the ones that hold its metadata.
PagesOf(entry) ==
  {entry.base + page * SYSTEM_PAGE_SIZE : page \in 0 .. entry.length \div SYSTEM_PAGE_SIZE - 1}

MetadataOf(k) ==
  {memmap[k].base + page * SYSTEM_PAGE_SIZE : page \in 0 .. RequiredPages(pas[k].size) - 1}

\* What callers free: pages they hold, pages they no longer hold, and pages that
\* never were under management.
FreeTargets ==
  (UNION {PagesOf(memmap[k]) : k \in Entries}) \ (UNION {MetadataOf(k) : k \in DOMAIN pas})

hcf == phase = "halted" /\ UNCHANGED vars

\* A step of the code, as opposed to a new call.
Step ==
  \/ SetupSkips \/ SetupRegion \/ SetupDone
  \/ AllocTakes \/ AllocSkips \/ AllocListEnds
  \/ FreeFound \/ FreeSkips \/ FreeNotFound
  \/ DereferencesNULL

Next ==
  \/ Step
  \/ \E kind \in Kinds : AllocBegin(kind)
  \/ \E address \in FreeTargets : FreeBegin(address)
  \/ hcf

\* The CPU keeps executing the call it is in; nothing in these loops waits.
Spec == Init /\ [][Next]_vars /\ WF_vars(Step)

-----------------------------------------------------------------------------
(* Correctness properties                                                  *)

\* Type invariant: allocators keep the layout of their regions, links lead to
\* initialised allocators, the sentinel or NULL, a call only looks at these.
TypeOK ==
  /\ phase \in {"setup", "running", "halted"}
  /\ i \in 1 .. Len(memmap) + 1
  /\ \A k \in DOMAIN pas :
       pas[k] \in Structs(memmap[k].base, memmap[k].length \div SYSTEM_PAGE_SIZE)
  /\ \A l \in Lists :
       /\ last[l] \in DOMAIN pas \cup {Base}
       /\ first[l] \in DOMAIN pas \cup {NULL}
       /\ \A p \in DOMAIN next[l] : next[l][p] \in DOMAIN pas \cup {NULL, Sentinel}
  /\ first_non_16mb \in DOMAIN pas \cup {Sentinel}
  /\ op # Idle => op.current \in DOMAIN pas \cup {NULL, Sentinel}

\* The whole of physical memory is one pool of pages: no page is handed out
\* twice, lost, or handed out while it holds allocator metadata, whichever list
\* it was reached through.
Pool == INSTANCE PagePool WITH free <- UNION {FreeAddresses(pas[k]) : k \in DOMAIN pas},
                               reserved <- UNION {MetadataOf(k) : k \in DOMAIN pas}

PoolSpec == Pool!Spec

\* A page for a device that addresses 24 or 32 bits lies wholly in that zone.
KindRespected ==
  [][\A address \in held' \ held :
       /\ op.kind = "16MB" => address + SYSTEM_PAGE_SIZE <= MB16
       /\ op.kind = "4GB"  => address + SYSTEM_PAGE_SIZE <= GB4]_vars

\* The allocators with a page left among those that satisfy the condition.
Available(Cond(_)) ==
  {k \in DOMAIN pas : Cond(memmap[k]) /\ ~ system_pa_exhausted(pas[k])}

Low(entry) == InZone(entry, MB16)

\* A page of the 16 MiB zone is only taken for a NORMAL request when every
\* allocator outside it is exhausted (first_non_16mb: "Pages that are not
\* required to be in the first 16mb should use memory later").
NormalSparesLowMemory ==
  [][\A address \in held' \ held :
       op.kind = "NORMAL" /\ Low(memmap[op.current])
         => Available(LAMBDA entry : ~ Low(entry)) = {}]_vars

\* The same of a request for the 4 GiB zone: other allocators of that zone come
\* first.
FourGBSparesLowMemory ==
  [][\A address \in held' \ held :
       op.kind = "4GB" /\ Low(memmap[op.current])
         => Available(LAMBDA entry : InZone(entry, GB4) /\ ~ Low(entry)) = {}]_vars

\* *ok = false means what it says: no allocator the request may use has a page.
FailsOnlyWhenExhausted ==
  [][op # Idle /\ op.call = "alloc" /\ op' = Idle /\ held' = held
       => Available(LAMBDA entry :
                      CASE op.kind = "NORMAL" -> TRUE
                        [] op.kind = "16MB"   -> Low(entry)
                        [] op.kind = "4GB"    -> InZone(entry, GB4)) = {}]_vars

\* The list that a call walks has no allocator at all.
ListEmpty(l) == \A k \in DOMAIN pas : l \notin ListsOf(memmap[k])

\* Setup never stops the kernel, freeing a page that the caller holds does not,
\* and allocation does not as long as the machine has memory in the zones the
\* request may use.
OnlyMisuseHalts ==
  [][phase' = "halted" =>
       \/ phase = "halted"
       \/ op # Idle /\ op.call = "free" /\ op.address \notin held
       \/ op # Idle /\ ListEmpty(op.list)]_vars

\* "sentinel always points to itself, to allow for not handling NULL": no walk
\* over a list comes to NULL.
WalksNeverMeetNULL == op # Idle => op.current # NULL

\* Setup ends, and every allocation and every free returns or panics: the lists
\* have no cycle but the sentinel's own.
EveryCallReturns ==
  /\ <>(phase # "setup")
  /\ [](op # Idle => <>(op = Idle \/ phase = "halted"))

=============================================================================
