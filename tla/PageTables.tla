----------------------------- MODULE PageTables -----------------------------
(***************************************************************************)
(* The page tables of system_paging.c: the copy of the bootloader's tables *)
(* that system_paging_setup makes and switches to, and the mapping and     *)
(* unmapping of pages in it, with the MMU and its TLB as the observer.     *)
(*                                                                         *)
(* A table is a frame of memory, an entry has flags and the address of a   *)
(* frame.  A virtual page is the function from level (4 = pml4, 3 = pdpt,  *)
(* 2 = pd, 1 = pt) to the index in the table of that level.  Frames come   *)
(* from system_paging_physical_alloc, of which only the pool it implements *)
(* matters here (see PagePool).                                            *)
(***************************************************************************)
EXTENDS Integers, Sequences, FiniteSets

CONSTANTS
  EntriesPerTable,   \* 512 in the code
  BootFrames,        \* frames of the bootloader's tables
  BootTables,        \* what they may hold: records [root, mem]
  PoolFrames,        \* frames under management
  Vpages,            \* the virtual pages callers use
  Physicals,         \* the addresses they map them to
  FlagSets           \* the flags they ask for, sets of "WRITE", "EXEC", "USER"

ASSUME FramesAssumption ==
  /\ BootFrames \subseteq Nat /\ PoolFrames \subseteq Nat /\ Physicals \subseteq Nat
  /\ BootFrames \cap PoolFrames = {}
  /\ (BootFrames \cup PoolFrames) \cap Physicals = {}
  /\ IsFiniteSet(PoolFrames)

Index == 0 .. EntriesPerTable - 1
AllVpages == [1 .. 4 -> Index]

ASSUME EntriesAssumption == EntriesPerTable \in Nat \ {0} /\ Vpages \subseteq AllVpages

Entry(flags, address) == [flags |-> flags, address |-> address]

NotPresent == Entry({}, 0)

Present(entry) == "P" \in entry.flags

EmptyTable == [x \in Index |-> NotPresent]

\* A loop of the clone enters the table below an entry that is present and, but
\* for the pml4, not a huge page.
Visits(entry, level) == Present(entry) /\ (level = 4 \/ "PS" \notin entry.flags)

\* The entries of a set of tables of one level that lead to further tables, and
\* where they lead.
Links(tables, frames, level) ==
  {link \in frames \X Index : Visits(tables[link[1]][link[2]], level)}

Targets(tables, links) == {tables[link[1]][link[2]].address : link \in links}

Below(tables, frames, level) == Targets(tables, Links(tables, frames, level))

EntryValues == [flags : SUBSET {"P", "RW", "US", "PS", "XD"}, address : Nat]

\* The bootloader's tables do not lie in memory that it reports as usable.
ASSUME BootTablesAssumption ==
  \A boot \in BootTables :
    /\ boot.root \in BootFrames
    /\ boot.mem \in [BootFrames -> [Index -> EntryValues]]
    /\ LET pdpts == Below(boot.mem, {boot.root}, 4)
           pds   == Below(boot.mem, pdpts, 3)
           pts   == Below(boot.mem, pds, 2)
       IN  pdpts \subseteq BootFrames /\ pds \subseteq BootFrames /\ pts \subseteq BootFrames

VARIABLES
  mem,     \* the contents of the frames that hold tables
  free,    \* the frames that can be allocated
  cr3,     \* the frame of the pml4 in use
  phase,   \* "boot", "clone", "run", "halted" (kpanic), "clobbered"
  copy,    \* clone: the frame of the new pml4
  todo,    \* clone: the entries the three loops have still to visit
  tlb      \* the translations the CPU has cached

vars == <<mem, free, cr3, phase, copy, todo, tlb>>

\* The frame that system_paging_physical_alloc returns: one of the free ones,
\* and nothing here depends on which.
NewFrame(frames) == CHOOSE frame \in frames : TRUE

-----------------------------------------------------------------------------
(* The MMU: a walk from the pml4 down to a page, with the rights that all  *)
(* the levels grant.                                                       *)

Unmapped == [kind |-> "none"]

WalkStep(tables, at, index) ==
  IF at.kind # "table"
  THEN at
  ELSE LET entry == tables[at.frame][index]
       IN  IF ~ Present(entry)
           THEN Unmapped
           ELSE [kind   |-> IF at.level = 1 \/ (at.level < 4 /\ "PS" \in entry.flags)
                            THEN "page" ELSE "table",
                 level  |-> at.level - 1,
                 frame  |-> entry.address,
                 rights |-> at.rights \cap entry.flags,
                 noexec |-> at.noexec \/ "XD" \in entry.flags]

Translate(tables, root, v) ==
  LET start == [kind |-> "table", level |-> 4, frame |-> root,
                rights |-> {"RW", "US"}, noexec |-> FALSE]
      pdpt  == WalkStep(tables, start, v[4])
      pd    == WalkStep(tables, pdpt, v[3])
      pt    == WalkStep(tables, pd, v[2])
  IN  WalkStep(tables, pt, v[1])

\* Bug variant: nothing is invalidated.
NoInvlpg(cache, v) == cache

invlpg(cache, v) == [w \in DOMAIN cache \ {v} |-> cache[w]]

-----------------------------------------------------------------------------
(* system_paging_entry                                                     *)

\* Bug variant: the new table is not zeroed.
DescendNotZeroed(w, index) ==
  LET entry == w.mem[w.at][index]
      new   == NewFrame(w.free)
  IN  IF w.clobbers \/ w.panics
      THEN w
      ELSE IF Present(entry)
      THEN IF "PS" \in entry.flags
           THEN [w EXCEPT !.clobbers = TRUE]
           ELSE [w EXCEPT !.at = entry.address]
      ELSE IF w.free = {}
      THEN [w EXCEPT !.panics = TRUE]
      ELSE [w EXCEPT !.mem  = [@ EXCEPT ![w.at][index] = Entry({"P", "RW"}, new)],
                     !.free = @ \ {new},
                     !.at   = new]

\* One level of the walk: a table that is missing is allocated, zeroed and
\* entered with parent_flags.  The PS flag is not looked at: below a huge page
\* the walk goes on in the page's data (clobbers).
Descend(w, index) ==
  LET entry == w.mem[w.at][index]
      new   == NewFrame(w.free)
  IN  IF w.clobbers \/ w.panics
      THEN w
      ELSE IF Present(entry)
      THEN IF "PS" \in entry.flags
           THEN [w EXCEPT !.clobbers = TRUE]
           ELSE [w EXCEPT !.at = entry.address]
      ELSE IF w.free = {}
      THEN [w EXCEPT !.panics = TRUE]
      ELSE [w EXCEPT !.mem  = [@ EXCEPT ![new] = EmptyTable,
                                        ![w.at][index] = Entry({"P", "RW"}, new)],
                     !.free = @ \ {new},
                     !.at   = new]

system_paging_entry(v) ==
  LET start == [mem |-> mem, free |-> free, at |-> cr3, clobbers |-> FALSE, panics |-> FALSE]
  IN  Descend(Descend(Descend(start, v[4]), v[3]), v[2])

-----------------------------------------------------------------------------
(* system_paging_map and system_paging_unmap                               *)

\* Bug variant: execute-disable where execution was asked for.
ConvertExecInverted(flags) ==
  {flag \in {"RW", "US", "XD"} :
     \/ flag = "RW" /\ "WRITE" \in flags
     \/ flag = "US" /\ "USER" \in flags
     \/ flag = "XD" /\ "EXEC" \in flags}

system_paging_amd64_flag_convert(flags) ==
  {flag \in {"RW", "US", "XD"} :
     \/ flag = "RW" /\ "WRITE" \in flags
     \/ flag = "US" /\ "USER" \in flags
     \/ flag = "XD" /\ "EXEC" \notin flags}

\* The entry of v in its page table is written, and v leaves the TLB.
SetEntry(v, entry) ==
  LET w == system_paging_entry(v)
  IN  /\ phase = "run"
      /\ free' = w.free
      /\ IF w.clobbers \/ w.panics
         THEN /\ phase' = IF w.clobbers THEN "clobbered" ELSE "halted"
              /\ mem' = w.mem
              /\ UNCHANGED tlb
         ELSE /\ mem' = [w.mem EXCEPT ![w.at][v[1]] = entry]
              /\ tlb' = invlpg(tlb, v)
              /\ UNCHANGED phase
      /\ UNCHANGED <<cr3, copy, todo>>

system_paging_map(v, physical, flags) ==
  SetEntry(v, Entry({"P"} \cup system_paging_amd64_flag_convert(flags), physical))

system_paging_unmap(v) == SetEntry(v, NotPresent)

-----------------------------------------------------------------------------
(* system_paging_table_clone.  The three nested loops visit the entries of *)
(* the new pml4, of each new pdpt and of each new pd, depth first.         *)

\* Bug variant: the loops go one entry too far.
EntriesOneTooMany(frame, level) ==
  [k \in 1 .. EntriesPerTable + 1 |-> [frame |-> frame, index |-> k - 1, level |-> level]]

\* Bug variant: the new page is zeroed and not copied to.
PageCloneZeroes(new, old) == [mem EXCEPT ![new] = EmptyTable]

\* Bug variant: the page is copied the wrong way round.
PageCloneBackwards(new, old) == [mem EXCEPT ![old] = mem[new]]

EntriesOf(frame, level) ==
  [k \in 1 .. EntriesPerTable |-> [frame |-> frame, index |-> k - 1, level |-> level]]

system_paging_page_clone(new, old) == [mem EXCEPT ![new] = mem[old]]

ClonePanics ==
  /\ phase' = "halted"
  /\ UNCHANGED <<mem, free, cr3, copy, todo, tlb>>

CloneBegin ==
  /\ phase = "boot"
  /\ IF free = {}
     THEN ClonePanics
     ELSE /\ copy' = NewFrame(free)
          /\ mem' = system_paging_page_clone(copy', cr3)
          /\ free' = free \ {copy'}
          /\ todo' = EntriesOf(copy', 4)
          /\ phase' = "clone"
          /\ UNCHANGED <<cr3, tlb>>

\* Bug variant: the index is not advanced past an entry that is skipped.
CloneSkipsForever ==
  /\ phase = "clone" /\ todo # <<>>
  /\ ~ Visits(mem[Head(todo).frame][Head(todo).index], Head(todo).level)
  /\ UNCHANGED vars

CloneSkips ==
  /\ phase = "clone" /\ todo # <<>>
  /\ ~ Visits(mem[Head(todo).frame][Head(todo).index], Head(todo).level)
  /\ todo' = Tail(todo)
  /\ UNCHANGED <<mem, free, cr3, phase, copy, tlb>>

\* system_paging_table_page_entry_clone, and into the next loop; page tables
\* are copied, their entries stay as they are.
CloneEntry ==
  /\ phase = "clone" /\ todo # <<>>
  /\ LET place == Head(todo)
         entry == mem[place.frame][place.index]
         new   == NewFrame(free)
     IN  /\ Visits(entry, place.level)
         /\ IF free = {}
            THEN ClonePanics
            ELSE /\ mem' = [system_paging_page_clone(new, entry.address)
                              EXCEPT ![place.frame][place.index].address = new]
                 /\ free' = free \ {new}
                 /\ todo' = IF place.level > 2
                            THEN EntriesOf(new, place.level - 1) \o Tail(todo)
                            ELSE Tail(todo)
                 /\ UNCHANGED <<cr3, phase, copy, tlb>>

\* asm_cr3_write.  Global translations survive it, the others do not; both are
\* possible for what is in the TLB.
CloneDone ==
  /\ phase = "clone" /\ todo = <<>>
  /\ cr3' = copy
  /\ phase' = "run"
  /\ tlb' \in {tlb, <<>>}
  /\ UNCHANGED <<mem, free, copy, todo>>

-----------------------------------------------------------------------------

\* The CPU uses a page, at any time, and caches its translation.
CpuAccess(v) ==
  /\ phase \in {"boot", "clone", "run"}
  /\ Translate(mem, cr3, v).kind = "page"
  /\ tlb' = [w \in DOMAIN tlb \cup {v} |->
               IF w = v THEN Translate(mem, cr3, v) ELSE tlb[w]]
  /\ UNCHANGED <<mem, free, cr3, phase, copy, todo>>

Stopped == phase \in {"halted", "clobbered"} /\ UNCHANGED vars

\* What a frame of the pool holds before it is used: anything, so for instance
\* entries that look like those of a table.
LeftOver(frame) == [x \in Index |-> Entry({"P", "RW"}, frame)]

Init ==
  /\ \E boot \in BootTables :
       /\ mem = [frame \in BootFrames \cup PoolFrames |->
                   IF frame \in BootFrames THEN boot.mem[frame] ELSE LeftOver(boot.root)]
       /\ cr3 = boot.root
  /\ free = PoolFrames
  /\ phase = "boot"
  /\ copy = 0
  /\ todo = <<>>
  /\ tlb = <<>>

Cloning == CloneBegin \/ CloneSkips \/ CloneEntry \/ CloneDone

Next ==
  \/ Cloning
  \/ \E v \in Vpages : \/ \E physical \in Physicals, flags \in FlagSets :
                            system_paging_map(v, physical, flags)
                       \/ system_paging_unmap(v)
                       \/ CpuAccess(v)
  \/ Stopped

\* The CPU keeps executing the loops of the clone; they wait for nothing.
Spec == Init /\ [][Next]_vars /\ WF_vars(Cloning)

-----------------------------------------------------------------------------
(* Correctness properties                                                  *)

Frames == BootFrames \cup PoolFrames

\* Type invariant.
TypeOK ==
  /\ free \subseteq PoolFrames
  /\ cr3 \in Frames
  /\ phase \in {"boot", "clone", "run", "halted", "clobbered"}
  /\ mem \in [Frames -> [Index -> EntryValues]]
  /\ DOMAIN tlb \subseteq Vpages
  /\ \A k \in DOMAIN todo : /\ todo[k].frame \in PoolFrames
                           /\ todo[k].index \in Index
                           /\ todo[k].level \in 2 .. 4

\* Once the kernel runs on its own tables they form a tree made of exactly the
\* frames that were allocated: no table is shared with the bootloader's, used
\* in two places, leaked, or still in the pool (map and unmap under any order).
TablesFormTree ==
  phase = "run" =>
    LET pdpts == Links(mem, {cr3}, 4)
        pds   == Links(mem, Targets(mem, pdpts), 3)
        pts   == Links(mem, Targets(mem, pds), 2)
        links == pdpts \cup pds \cup pts
    IN  /\ Targets(mem, pdpts) \subseteq PoolFrames /\ Targets(mem, pds) \subseteq PoolFrames
        /\ {cr3} \cup Targets(mem, links) = PoolFrames \ free
        /\ Cardinality(links) + 1 = Cardinality(PoolFrames \ free)

\* Neither the clone nor any later mapping writes to the bootloader's tables: the
\* CPU runs on them until the copy is complete.
BootTablesUntouched == [][\A frame \in BootFrames : mem'[frame] = mem[frame]]_vars

\* Writing cr3 changes no translation of any virtual page, neither the address
\* nor the rights: the instruction after it, the stack and the console stay
\* where they were.
SwitchKeepsTranslations ==
  [][cr3' # cr3 =>
       \A v \in AllVpages : Translate(mem', cr3', v) = Translate(mem, cr3, v)]_vars

\* No translation but that of v changes.
OthersKept(v) ==
  \A w \in AllVpages \ {v} : Translate(mem', cr3', w) = Translate(mem, cr3, w)

\* A page that system_paging_map maps is then found where it was asked for, can be
\* written and executed as asked, by user code only if asked; one that
\* system_paging_unmap unmaps is gone; every other page is as before.
UpdatesOnlyItsPage ==
  [][phase = "run" /\ phase' = "run" =>
       \A v \in Vpages :
         /\ \A physical \in Physicals, flags \in FlagSets :
              system_paging_map(v, physical, flags) =>
                LET found == Translate(mem', cr3', v)
                IN  /\ found.kind = "page" /\ found.frame = physical
                    /\ "RW" \in found.rights <=> "WRITE" \in flags
                    /\ "US" \in found.rights => "USER" \in flags
                    /\ found.noexec <=> "EXEC" \notin flags
                    /\ OthersKept(v)
         /\ system_paging_unmap(v) => Translate(mem', cr3', v) = Unmapped /\ OthersKept(v)]_vars

\* The CPU never uses a translation that the tables no longer hold (asm_invlpg
\* after each update, the switch to an equal copy).
TlbCoherent ==
  phase \in {"boot", "clone", "run"} =>
    \A v \in DOMAIN tlb : tlb[v] = Translate(mem, cr3, v)

\* The loops of system_paging_table_clone end.
CloneFinishes == <>(phase \notin {"boot", "clone"})

=============================================================================
