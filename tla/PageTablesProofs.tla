-------------------------- MODULE PageTablesProofs --------------------------
(***************************************************************************)
(* For tables of any size, any bootloader's tables and any pool: while the *)
(* clone runs and afterwards, the tables that were allocated form a tree,  *)
(* each on one level and entered in one place.  From that follow all the   *)
(* safety properties of PageTables.                                        *)
(***************************************************************************)
EXTENDS PageTables, FiniteSetTheorems, SequenceTheorems, TLAPS

Allocated == PoolFrames \ free

\* The places in the tables that the loops of the clone have still to visit.
Pending == {<<todo[k].frame, todo[k].index>> : k \in DOMAIN todo}

-----------------------------------------------------------------------------
(* The inductive invariant                                                 *)

\* The entry at a place leads to a table of the tree.
IsLink(tables, level, pending, frame, index) ==
  /\ level[frame] >= 2
  /\ Visits(tables[frame][index], level[frame])
  /\ <<frame, index>> \notin pending

\* The frames form a tree below root: every link goes one level down, every
\* frame but the root is entered exactly once.
Tree(tables, frames, root, pending, level) ==
  /\ level \in [frames -> 1 .. 4]
  /\ root \in frames /\ level[root] = 4
  /\ \A f \in frames, x \in Index :
       IsLink(tables, level, pending, f, x) =>
         /\ tables[f][x].address \in frames
         /\ level[tables[f][x].address] = level[f] - 1
  /\ \A f, g \in frames, x, y \in Index :
       /\ IsLink(tables, level, pending, f, x)
       /\ IsLink(tables, level, pending, g, y)
       /\ tables[f][x].address = tables[g][y].address
       => f = g /\ x = y
  /\ \A g \in frames \ {root} : \E f \in frames, x \in Index :
       IsLink(tables, level, pending, f, x) /\ tables[f][x].address = g

\* Sets of frames, one for each level, that no walk from one of them leaves.
Closed(tables, sets) ==
  \A n \in 2 .. 4 : \A f \in sets[n], x \in Index :
    Visits(tables[f][x], n) => tables[f][x].address \in sets[n - 1]

BootLevels(sets) ==
  /\ sets \in [1 .. 4 -> SUBSET BootFrames]
  /\ cr3 \in sets[4]
  /\ Closed(mem, sets)

\* The frames of each level of a tree.
Levels(frames, level) == [n \in 1 .. 4 |-> {f \in frames : level[f] = n}]

\* The frames that a walk from the copy meets on each level: its own tables, and
\* the bootloader's below the places still to visit.
Mixed(sets, level) == [n \in 1 .. 4 |-> sets[n] \cup {f \in Allocated : level[f] = n}]

\* An entry above the page tables that takes no right away.
Open(entry) == "RW" \in entry.flags /\ "XD" \notin entry.flags

\* The entries of the bootloader that lead to further tables are like that.
BootTablesOpen ==
  \A boot \in BootTables :
    LET pdpts == Below(boot.mem, {boot.root}, 4)
        pds   == Below(boot.mem, pdpts, 3)
    IN  /\ \A x \in Index : Visits(boot.mem[boot.root][x], 4) => Open(boot.mem[boot.root][x])
        /\ \A f \in pdpts, x \in Index : Visits(boot.mem[f][x], 3) => Open(boot.mem[f][x])
        /\ \A f \in pds, x \in Index : Visits(boot.mem[f][x], 2) => Open(boot.mem[f][x])

\* Then so are all that a walk through the sets passes.
OpenLinks(tables, sets) ==
  BootTablesOpen =>
    \A n \in 2 .. 4 : \A f \in sets[n], x \in Index : Visits(tables[f][x], n) => Open(tables[f][x])

\* The work list holds every place once; what is entered there is still one of
\* the bootloader's tables.
TodoInv(sets, level) ==
  /\ \A j, k \in DOMAIN todo :
       todo[j].frame = todo[k].frame /\ todo[j].index = todo[k].index => j = k
  /\ \A k \in DOMAIN todo :
       LET entry == mem[todo[k].frame][todo[k].index]
       IN  /\ todo[k].frame \in Allocated
           /\ todo[k].level = level[todo[k].frame]
           /\ Visits(entry, todo[k].level) => entry.address \in sets[todo[k].level - 1]

BootInv ==
  phase = "boot" =>
    /\ free = PoolFrames
    /\ \E sets \in [1 .. 4 -> SUBSET BootFrames] : BootLevels(sets) /\ OpenLinks(mem, sets)

CloneInv ==
  phase = "clone" =>
    /\ \E sets \in [1 .. 4 -> SUBSET BootFrames], level \in [Allocated -> 1 .. 4] :
         /\ BootLevels(sets)
         /\ Tree(mem, Allocated, copy, Pending, level)
         /\ TodoInv(sets, level)
         /\ OpenLinks(mem, Mixed(sets, level))
    /\ \A v \in AllVpages : Translate(mem, copy, v) = Translate(mem, cr3, v)

RunInv ==
  phase = "run" =>
    \E level \in [Allocated -> 1 .. 4] :
      Tree(mem, Allocated, cr3, {}, level) /\ OpenLinks(mem, Levels(Allocated, level))

Places == [frame : PoolFrames, index : Index, level : 2 .. 4]

TablesInv ==
  /\ TypeOK /\ todo \in Seq(Places)
  /\ BootInv /\ CloneInv /\ RunInv
  /\ TlbCoherent

-----------------------------------------------------------------------------
(* Walks                                                                   *)

\* The states of a walk, from the root to the page table.
W4(root) == [kind |-> "table", level |-> 4, frame |-> root,
             rights |-> {"RW", "US"}, noexec |-> FALSE]
W3(tables, root, v) == WalkStep(tables, W4(root), v[4])
W2(tables, root, v) == WalkStep(tables, W3(tables, root, v), v[3])
W1(tables, root, v) == WalkStep(tables, W2(tables, root, v), v[2])

\* Translate takes the four steps.
LEMMA TranslateSteps ==
  ASSUME NEW tables, NEW root, NEW v
  PROVE  Translate(tables, root, v) = WalkStep(tables, W1(tables, root, v), v[1])
BY DEF Translate, W4, W3, W2, W1

\* A step looks at one entry of one table.
LEMMA StepSame ==
  ASSUME NEW t, NEW u, NEW at, NEW x,
         at.kind = "table" => t[at.frame][x] = u[at.frame][x]
  PROVE  WalkStep(t, at, x) = WalkStep(u, at, x)
BY Zenon DEF WalkStep

\* A walk that has ended stays where it is.
LEMMA StepEnded ==
  ASSUME NEW t, NEW at, NEW x, at.kind # "table"
  PROVE  WalkStep(t, at, x) = at
BY Zenon DEF WalkStep

\* An entry that is not present ends a walk.
LEMMA StepAbsent ==
  ASSUME NEW t, NEW at, NEW x, at.kind = "table", ~ Present(t[at.frame][x])
  PROVE  WalkStep(t, at, x) = Unmapped
BY Zenon DEF WalkStep

\* What a step makes of an entry that is present.
LEMMA StepPresent ==
  ASSUME NEW t, NEW at, NEW x, at.kind = "table", Present(t[at.frame][x])
  PROVE  WalkStep(t, at, x) =
           [kind   |-> IF at.level = 1 \/ (at.level < 4 /\ "PS" \in t[at.frame][x].flags)
                       THEN "page" ELSE "table",
            level  |-> at.level - 1,
            frame  |-> t[at.frame][x].address,
            rights |-> at.rights \cap t[at.frame][x].flags,
            noexec |-> at.noexec \/ "XD" \in t[at.frame][x].flags]
BY Zenon DEF WalkStep

\* A walk goes on below the entries that the clone visits, and only there.
LEMMA StepDown ==
  ASSUME NEW t, NEW at, NEW x, at.kind = "table", at.level \in 1 .. 4,
         WalkStep(t, at, x).kind = "table"
  PROVE  /\ at.level >= 2 /\ Visits(t[at.frame][x], at.level)
         /\ WalkStep(t, at, x).level = at.level - 1
         /\ WalkStep(t, at, x).frame = t[at.frame][x].address
<1> DEFINE e == t[at.frame][x]
<1>1. Present(e)
  <2>1. ASSUME ~ Present(e)
        PROVE  FALSE
    <3>1. WalkStep(t, at, x) = Unmapped
      BY <2>1, StepAbsent
    <3>2. Unmapped.kind # "table"
      BY DEF Unmapped
    <3> QED BY <3>1, <3>2
  <2> QED BY <2>1
<1> DEFINE r == [kind   |-> IF at.level = 1 \/ (at.level < 4 /\ "PS" \in e.flags)
                            THEN "page" ELSE "table",
                 level  |-> at.level - 1,
                 frame  |-> e.address,
                 rights |-> at.rights \cap e.flags,
                 noexec |-> at.noexec \/ "XD" \in e.flags]
<1>2. WalkStep(t, at, x) = r
  BY <1>1, StepPresent
<1>3. /\ r.kind = (IF at.level = 1 \/ (at.level < 4 /\ "PS" \in e.flags) THEN "page" ELSE "table")
      /\ r.level = at.level - 1 /\ r.frame = e.address
  OBVIOUS
<1> HIDE DEF e, r
<1>4. at.level # 1 /\ ~ (at.level < 4 /\ "PS" \in e.flags)
  BY <1>2, <1>3
<1>5. Visits(e, at.level)
  BY <1>1, <1>4 DEF Visits
<1> QED BY <1>2, <1>3, <1>4, <1>5 DEF e

\* The walk is at a frame of its level.
On(sets, n, at) == at.kind = "table" => at.level = n /\ at.frame \in sets[n]

\* A walk does not leave closed sets.
LEMMA StepStays ==
  ASSUME NEW t, NEW sets, Closed(t, sets), NEW n \in 1 .. 4, NEW at, On(sets, n, at),
         NEW x \in Index
  PROVE  /\ n >= 2 => On(sets, n - 1, WalkStep(t, at, x))
         /\ n = 1 => WalkStep(t, at, x).kind # "table"
<1>1. CASE at.kind # "table"
  BY <1>1, StepEnded DEF On
<1>2. CASE at.kind = "table"
  <2>1. at.level = n /\ at.frame \in sets[n]
    BY <1>2 DEF On
  <2>2. CASE WalkStep(t, at, x).kind # "table"
    BY <2>2 DEF On
  <2>3. CASE WalkStep(t, at, x).kind = "table"
    <3>1. /\ n >= 2 /\ Visits(t[at.frame][x], n)
          /\ WalkStep(t, at, x).level = n - 1
          /\ WalkStep(t, at, x).frame = t[at.frame][x].address
      <4>1. /\ at.level >= 2 /\ Visits(t[at.frame][x], at.level)
            /\ WalkStep(t, at, x).level = at.level - 1
            /\ WalkStep(t, at, x).frame = t[at.frame][x].address
        BY <1>2, <2>1, <2>3, StepDown
      <4> QED BY <2>1, <4>1
    <3>2. n \in 2 .. 4
      BY <3>1
    <3>3. t[at.frame][x].address \in sets[n - 1]
      BY <2>1, <3>1, <3>2 DEF Closed
    <3> QED BY <3>1, <3>3 DEF On
  <2> QED BY <2>2, <2>3
<1> QED BY <1>1, <1>2

\* So the whole walk stays on its levels.
LEMMA WalkStays ==
  ASSUME NEW t, NEW sets, Closed(t, sets), NEW root \in sets[4], NEW v \in AllVpages
  PROVE  /\ On(sets, 4, W4(root)) /\ On(sets, 3, W3(t, root, v))
         /\ On(sets, 2, W2(t, root, v)) /\ On(sets, 1, W1(t, root, v))
         /\ Translate(t, root, v).kind # "table"
<1>1. v[1] \in Index /\ v[2] \in Index /\ v[3] \in Index /\ v[4] \in Index
  BY DEF AllVpages
<1>2. On(sets, 4, W4(root))
  BY DEF On, W4
<1>3. On(sets, 3, W3(t, root, v))
  BY <1>1, <1>2, StepStays, 4 \in 1 .. 4, 4 - 1 = 3, 4 >= 2 DEF W3
<1>4. On(sets, 2, W2(t, root, v))
  BY <1>1, <1>3, StepStays, 3 \in 1 .. 4, 3 - 1 = 2, 3 >= 2 DEF W2
<1>5. On(sets, 1, W1(t, root, v))
  BY <1>1, <1>4, StepStays, 2 \in 1 .. 4, 2 - 1 = 1, 2 >= 2 DEF W1
<1>6. Translate(t, root, v).kind # "table"
  BY <1>1, <1>5, StepStays, TranslateSteps, 1 \in 1 .. 4
<1> QED BY <1>2, <1>3, <1>4, <1>5, <1>6

\* Tables that agree on closed sets translate alike.
LEMMA SameWalk ==
  ASSUME NEW t, NEW u, NEW sets, Closed(t, sets), NEW root \in sets[4],
         \A n \in 1 .. 4 : \A f \in sets[n], x \in Index : u[f][x] = t[f][x],
         NEW v \in AllVpages
  PROVE  Translate(u, root, v) = Translate(t, root, v)
<1>1. v[1] \in Index /\ v[2] \in Index /\ v[3] \in Index /\ v[4] \in Index
  BY DEF AllVpages
<1>2. ASSUME NEW n \in 1 .. 4, NEW at, On(sets, n, at), NEW x \in Index
      PROVE  WalkStep(u, at, x) = WalkStep(t, at, x)
  <2>1. at.kind = "table" => u[at.frame][x] = t[at.frame][x]
    BY <1>2 DEF On
  <2> QED BY <2>1, StepSame
<1>3. /\ On(sets, 4, W4(root)) /\ On(sets, 3, W3(t, root, v))
      /\ On(sets, 2, W2(t, root, v)) /\ On(sets, 1, W1(t, root, v))
  BY WalkStays
<1>4. W3(u, root, v) = W3(t, root, v)
  BY <1>1, <1>2, <1>3, 4 \in 1 .. 4 DEF W3
<1>5. W2(u, root, v) = W2(t, root, v)
  BY <1>1, <1>2, <1>3, <1>4, 3 \in 1 .. 4 DEF W2
<1>6. W1(u, root, v) = W1(t, root, v)
  BY <1>1, <1>2, <1>3, <1>5, 2 \in 1 .. 4 DEF W1
<1> QED BY <1>1, <1>2, <1>3, <1>6, TranslateSteps, 1 \in 1 .. 4

-----------------------------------------------------------------------------
(* The tree grows                                                          *)

\* The levels of the frames once new is a table of level n.
Grown(level, frames, new, n) == [g \in frames \cup {new} |-> IF g = new THEN n ELSE level[g]]

\* A new table of level n without links of its own is entered at place x of f,
\* where there was no link.
Enters(t, u, frames, pend, rest, level, f, x, new, n) ==
  /\ f \in frames /\ x \in Index /\ level[f] >= 2 /\ n = level[f] - 1 /\ new \notin frames
  /\ ~ IsLink(t, level, pend, f, x)
  /\ \A g \in frames, y \in Index :
       g # f \/ y # x => u[g][y] = t[g][y] /\ (<<g, y>> \in rest <=> <<g, y>> \in pend)
  /\ Visits(u[f][x], level[f]) /\ u[f][x].address = new /\ <<f, x>> \notin rest
  /\ level[f] > 2 => \A y \in Index : <<new, y>> \in rest \/ ~ Visits(u[new][y], n)

\* Then the tree has grown by it.
LEMMA TreeGrows ==
  ASSUME NEW t, NEW u, NEW frames, NEW root, NEW pend, NEW rest, NEW level,
         NEW f, NEW x, NEW new, NEW n,
         Tree(t, frames, root, pend, level),
         Enters(t, u, frames, pend, rest, level, f, x, new, n)
  PROVE  Tree(u, frames \cup {new}, root, rest, Grown(level, frames, new, n))
<1>0. /\ f \in frames /\ x \in Index /\ level[f] >= 2 /\ n = level[f] - 1 /\ new \notin frames
      /\ ~ IsLink(t, level, pend, f, x)
      /\ \A g \in frames, y \in Index :
           g # f \/ y # x => u[g][y] = t[g][y] /\ (<<g, y>> \in rest <=> <<g, y>> \in pend)
      /\ Visits(u[f][x], level[f]) /\ u[f][x].address = new /\ <<f, x>> \notin rest
      /\ level[f] > 2 => \A y \in Index : <<new, y>> \in rest \/ ~ Visits(u[new][y], n)
  BY DEF Enters
<1> DEFINE F == frames \cup {new}
           L == Grown(level, frames, new, n)
           J(g, y) == IsLink(t, level, pend, g, y)
           K(g, y) == IsLink(u, L, rest, g, y)
<1>1. /\ level \in [frames -> 1 .. 4] /\ root \in frames /\ level[root] = 4
      /\ \A g \in frames, y \in Index :
           J(g, y) => t[g][y].address \in frames /\ level[t[g][y].address] = level[g] - 1
      /\ \A g, h \in frames, y, z \in Index :
           J(g, y) /\ J(h, z) /\ t[g][y].address = t[h][z].address => g = h /\ y = z
      /\ \A h \in frames \ {root} : \E g \in frames, y \in Index :
           J(g, y) /\ t[g][y].address = h
  BY DEF Tree
<1>2. level[f] \in 2 .. 4 /\ n \in 1 .. 4 /\ n = level[f] - 1
  BY <1>0, <1>1
<1>3. L \in [F -> 1 .. 4] /\ L[new] = n /\ \A g \in frames : L[g] = level[g]
  BY <1>0, <1>1, <1>2 DEF Grown
<1> HIDE DEF L
<1>4. K(f, x)
  BY <1>0, <1>1, <1>3 DEF IsLink
<1>5. \A g \in frames, y \in Index : g # f \/ y # x => (K(g, y) <=> J(g, y)) /\ u[g][y] = t[g][y]
  BY <1>0, <1>3 DEF IsLink
<1>6. \A y \in Index : ~ K(new, y)
  <2>1. CASE level[f] = 2
    BY <1>0, <1>3, <2>1 DEF IsLink
  <2>2. CASE level[f] > 2
    BY <1>0, <1>3, <2>2 DEF IsLink
  <2> QED BY <1>2, <2>1, <2>2
<1>7. ~ J(f, x)
  BY <1>0
<1> HIDE DEF J, K
<1>8. root \in F /\ L[root] = 4
  BY <1>0, <1>1, <1>3
<1>9. ASSUME NEW g \in F, NEW y \in Index, K(g, y)
      PROVE  u[g][y].address \in F /\ L[u[g][y].address] = L[g] - 1
  <2>1. g \in frames
    BY <1>0, <1>6, <1>9
  <2>2. CASE g = f /\ y = x
    BY <1>0, <1>3, <2>1, <2>2
  <2>3. CASE g # f \/ y # x
    <3>1. J(g, y) /\ u[g][y] = t[g][y]
      BY <1>0, <1>5, <1>9, <2>1, <2>3
    <3>2. t[g][y].address \in frames /\ level[t[g][y].address] = level[g] - 1
      BY <1>0, <1>1, <2>1, <3>1
    <3> QED BY <1>0, <1>3, <2>1, <3>1, <3>2
  <2> QED BY <2>2, <2>3
<1>10. ASSUME NEW g \in F, NEW h \in F, NEW y \in Index, NEW z \in Index,
              K(g, y), K(h, z), u[g][y].address = u[h][z].address
       PROVE  g = h /\ y = z
  <2>1. g \in frames /\ h \in frames
    BY <1>0, <1>6, <1>10
  <2>2. \A a \in frames, b \in Index : a # f \/ b # x => (K(a, b) => u[a][b].address \in frames)
    BY <1>0, <1>1, <1>5
  <2>3. CASE (g # f \/ y # x) /\ (h # f \/ z # x)
    BY <1>0, <1>1, <1>5, <1>10, <2>1, <2>3
  <2>4. CASE (g = f /\ y = x) /\ (h # f \/ z # x)
    BY <1>0, <1>10, <2>1, <2>2, <2>4
  <2>5. CASE (g # f \/ y # x) /\ (h = f /\ z = x)
    BY <1>0, <1>10, <2>1, <2>2, <2>5
  <2>6. CASE (g = f /\ y = x) /\ (h = f /\ z = x)
    BY <1>0, <2>6
  <2> QED BY <2>3, <2>4, <2>5, <2>6
<1>11. ASSUME NEW h \in F \ {root}
       PROVE  \E g \in F, y \in Index : K(g, y) /\ u[g][y].address = h
  <2>1. CASE h = new
    BY <1>0, <1>4, <2>1
  <2>2. CASE h \in frames
    <3>1. PICK g \in frames, y \in Index : J(g, y) /\ t[g][y].address = h
      BY <1>0, <1>1, <1>11, <2>2
    <3>2. K(g, y) /\ u[g][y] = t[g][y]
      BY <1>0, <1>5, <1>7, <3>1
    <3> QED BY <3>1, <3>2
  <2> QED BY <2>1, <2>2
<1> QED BY <1>3, <1>8, <1>9, <1>10, <1>11 DEF Tree, L, K

\* Places that are no links need not be pending.
LEMMA TreeSkips ==
  ASSUME NEW t, NEW frames, NEW root, NEW pend, NEW rest, NEW level,
         Tree(t, frames, root, pend, level),
         \A g \in frames, y \in Index :
           IsLink(t, level, pend, g, y) <=> IsLink(t, level, rest, g, y)
  PROVE  Tree(t, frames, root, rest, level)
<1> DEFINE J(g, y) == IsLink(t, level, pend, g, y)
           K(g, y) == IsLink(t, level, rest, g, y)
<1>1. /\ level \in [frames -> 1 .. 4] /\ root \in frames /\ level[root] = 4
      /\ \A g \in frames, y \in Index :
           J(g, y) => t[g][y].address \in frames /\ level[t[g][y].address] = level[g] - 1
      /\ \A g, h \in frames, y, z \in Index :
           J(g, y) /\ J(h, z) /\ t[g][y].address = t[h][z].address => g = h /\ y = z
      /\ \A h \in frames \ {root} : \E g \in frames, y \in Index :
           J(g, y) /\ t[g][y].address = h
  BY DEF Tree
<1>2. \A g \in frames, y \in Index : J(g, y) <=> K(g, y)
  OBVIOUS
<1> HIDE DEF J, K
<1>3. /\ \A g \in frames, y \in Index :
           K(g, y) => t[g][y].address \in frames /\ level[t[g][y].address] = level[g] - 1
      /\ \A g, h \in frames, y, z \in Index :
           K(g, y) /\ K(h, z) /\ t[g][y].address = t[h][z].address => g = h /\ y = z
      /\ \A h \in frames \ {root} : \E g \in frames, y \in Index :
           K(g, y) /\ t[g][y].address = h
  BY <1>1, <1>2
<1> QED BY <1>1, <1>3 DEF Tree, K

\* Without pending places a tree is closed.
LEMMA TreeClosed ==
  ASSUME NEW t, NEW frames, NEW root, NEW level, Tree(t, frames, root, {}, level)
  PROVE  Closed(t, Levels(frames, level)) /\ root \in Levels(frames, level)[4]
<1>1. /\ \A f \in frames, x \in Index : IsLink(t, level, {}, f, x) =>
           t[f][x].address \in frames /\ level[t[f][x].address] = level[f] - 1
      /\ root \in frames /\ level[root] = 4
  BY DEF Tree
<1>2. ASSUME NEW n \in 2 .. 4, NEW f \in Levels(frames, level)[n], NEW x \in Index,
             Visits(t[f][x], n)
      PROVE  t[f][x].address \in Levels(frames, level)[n - 1]
  <2>1. f \in frames /\ level[f] = n /\ n - 1 \in 1 .. 4
    BY DEF Levels
  <2>2. IsLink(t, level, {}, f, x)
    BY <1>2, <2>1 DEF IsLink
  <2> QED BY <1>1, <2>1, <2>2 DEF Levels
<1>3. root \in Levels(frames, level)[4]
  BY <1>1 DEF Levels
<1> QED BY <1>2, <1>3 DEF Closed

-----------------------------------------------------------------------------
(* The initial states                                                      *)

\* Where an entry of one of the frames leads.
LEMMA BelowHas ==
  ASSUME NEW t, NEW frames, NEW n, NEW f \in frames, NEW x \in Index, Visits(t[f][x], n)
  PROVE  t[f][x].address \in Below(t, frames, n)
<1> DEFINE link == <<f, x>>
<1>1. link \in frames \X Index /\ link[1] = f /\ link[2] = x
  OBVIOUS
<1> HIDE DEF link
<1>2. link \in Links(t, frames, n)
  BY <1>1 DEF Links
<1> QED BY <1>1, <1>2 DEF Below, Targets

\* The bootloader's tables are closed.
LEMMA InitBoot ==
  ASSUME Init
  PROVE  \E sets \in [1 .. 4 -> SUBSET BootFrames] : BootLevels(sets) /\ OpenLinks(mem, sets)
<1>1. PICK boot \in BootTables :
        /\ mem = [frame \in BootFrames \cup PoolFrames |->
                   IF frame \in BootFrames THEN boot.mem[frame] ELSE LeftOver(boot.root)]
        /\ cr3 = boot.root
  BY DEF Init
<1> DEFINE pdpts == Below(boot.mem, {boot.root}, 4)
           pds   == Below(boot.mem, pdpts, 3)
           pts   == Below(boot.mem, pds, 2)
           sets  == [n \in 1 .. 4 |-> IF n = 4 THEN {boot.root}
                                      ELSE IF n = 3 THEN pdpts
                                      ELSE IF n = 2 THEN pds ELSE pts]
<1>2. /\ boot.root \in BootFrames /\ pdpts \subseteq BootFrames
      /\ pds \subseteq BootFrames /\ pts \subseteq BootFrames
  BY BootTablesAssumption
<1>3. /\ \A x \in Index : Visits(boot.mem[boot.root][x], 4) => boot.mem[boot.root][x].address \in pdpts
      /\ \A f \in pdpts, x \in Index : Visits(boot.mem[f][x], 3) => boot.mem[f][x].address \in pds
      /\ \A f \in pds, x \in Index : Visits(boot.mem[f][x], 2) => boot.mem[f][x].address \in pts
  BY BelowHas
<1>0. BootTablesOpen =>
        /\ \A x \in Index : Visits(boot.mem[boot.root][x], 4) => Open(boot.mem[boot.root][x])
        /\ \A f \in pdpts, x \in Index : Visits(boot.mem[f][x], 3) => Open(boot.mem[f][x])
        /\ \A f \in pds, x \in Index : Visits(boot.mem[f][x], 2) => Open(boot.mem[f][x])
  BY DEF BootTablesOpen
<1> HIDE DEF pdpts, pds, pts
<1>4. /\ sets \in [1 .. 4 -> SUBSET BootFrames]
      /\ sets[4] = {boot.root} /\ sets[3] = pdpts /\ sets[2] = pds /\ sets[1] = pts
  BY <1>2
<1> HIDE DEF sets
<1>5. \A f \in BootFrames : mem[f] = boot.mem[f]
  BY <1>1
<1>6. ASSUME NEW n \in 2 .. 4, NEW f \in sets[n], NEW x \in Index, Visits(mem[f][x], n)
      PROVE  mem[f][x].address \in sets[n - 1] /\ (BootTablesOpen => Open(mem[f][x]))
  <2>1. f \in BootFrames /\ mem[f] = boot.mem[f]
    BY <1>4, <1>5
  <2>2. n = 2 \/ n = 3 \/ n = 4
    OBVIOUS
  <2>3. CASE n = 2
    BY <1>0, <1>3, <1>4, <1>6, <2>1, <2>3, 2 - 1 = 1
  <2>4. CASE n = 3
    BY <1>0, <1>3, <1>4, <1>6, <2>1, <2>4, 3 - 1 = 2
  <2>5. CASE n = 4
    BY <1>0, <1>3, <1>4, <1>6, <2>1, <2>5, 4 - 1 = 3
  <2> QED BY <2>2, <2>3, <2>4, <2>5
<1> QED BY <1>1, <1>4, <1>6 DEF BootLevels, Closed, OpenLinks

\* The inductive invariant holds at first.
LEMMA InitInv ==
  ASSUME Init
  PROVE  TablesInv
<1>1. PICK boot \in BootTables :
        /\ mem = [frame \in BootFrames \cup PoolFrames |->
                   IF frame \in BootFrames THEN boot.mem[frame] ELSE LeftOver(boot.root)]
        /\ cr3 = boot.root
  BY DEF Init
<1>2. boot.root \in BootFrames /\ boot.mem \in [BootFrames -> [Index -> EntryValues]]
  BY BootTablesAssumption
<1>3. LeftOver(boot.root) \in [Index -> EntryValues]
  BY <1>2, FramesAssumption DEF LeftOver, EntryValues, Entry
<1>4. mem \in [Frames -> [Index -> EntryValues]] /\ cr3 \in Frames
  BY <1>1, <1>2, <1>3 DEF Frames
<1>5. free = PoolFrames /\ phase = "boot" /\ todo = <<>> /\ DOMAIN todo = {} /\ DOMAIN tlb = {}
  BY DEF Init
<1>6. TypeOK
  BY <1>4, <1>5 DEF TypeOK
<1>7. todo \in Seq(Places)
  BY <1>5
<1>8. BootInv
  BY <1>5, InitBoot DEF BootInv
<1> QED BY <1>5, <1>6, <1>7, <1>8 DEF TablesInv, CloneInv, RunInv, TlbCoherent

-----------------------------------------------------------------------------
(* The clone                                                               *)

\* The allocator hands out a frame that was free.
LEMMA NewFrameIsFree ==
  ASSUME NEW frames, frames # {}
  PROVE  NewFrame(frames) \in frames
BY DEF NewFrame

\* Steps from different tables that read equal entries end up alike.
LEMMA StepAlike ==
  ASSUME NEW t, NEW u, NEW at, NEW bt, NEW x, at.kind = "table", bt.kind = "table",
         at.level = bt.level, at.rights = bt.rights, at.noexec = bt.noexec,
         t[at.frame][x] = u[bt.frame][x]
  PROVE  WalkStep(t, at, x) = WalkStep(u, bt, x)
<1> DEFINE Entered(l, r, n, e) ==
             [kind   |-> IF l = 1 \/ (l < 4 /\ "PS" \in e.flags) THEN "page" ELSE "table",
              level  |-> l - 1,
              frame  |-> e.address,
              rights |-> r \cap e.flags,
              noexec |-> n \/ "XD" \in e.flags]
<1>1. CASE Present(t[at.frame][x])
  <2>1. WalkStep(t, at, x) = Entered(at.level, at.rights, at.noexec, t[at.frame][x])
    BY <1>1, StepPresent
  <2>2. WalkStep(u, bt, x) = Entered(bt.level, bt.rights, bt.noexec, u[bt.frame][x])
    BY <1>1, StepPresent
  <2> HIDE DEF Entered
  <2> QED BY <2>1, <2>2
<1>2. CASE ~ Present(t[at.frame][x])
  BY <1>2, StepAbsent, Zenon
<1> QED BY <1>1, <1>2

\* What a step that leaves the bootloader's tables alone keeps.
LEMMA BootKept ==
  ASSUME NEW sets, BootLevels(sets), cr3' = cr3, \A f \in BootFrames : mem'[f] = mem[f]
  PROVE  /\ BootLevels(sets)'
         /\ \A v \in AllVpages : Translate(mem', cr3', v) = Translate(mem, cr3, v)
<1>1. sets \in [1 .. 4 -> SUBSET BootFrames] /\ cr3 \in sets[4] /\ Closed(mem, sets)
  BY DEF BootLevels
<1>2. \A n \in 1 .. 4 : \A f \in sets[n], x \in Index : mem'[f][x] = mem[f][x]
  BY <1>1
<1>3. Closed(mem', sets)
  BY <1>1, <1>2 DEF Closed
<1>4. \A v \in AllVpages : Translate(mem', cr3', v) = Translate(mem, cr3, v)
  BY <1>1, <1>2, SameWalk
<1> QED BY <1>1, <1>3, <1>4 DEF BootLevels

\* The entries of a table, as the loops visit them.
LEMMA EntriesOfTable ==
  ASSUME NEW f \in PoolFrames, NEW n \in 2 .. 4
  PROVE  /\ EntriesOf(f, n) \in Seq(Places) /\ Len(EntriesOf(f, n)) = EntriesPerTable
         /\ \A k \in 1 .. EntriesPerTable :
              /\ EntriesOf(f, n)[k].frame = f /\ EntriesOf(f, n)[k].index = k - 1
              /\ EntriesOf(f, n)[k].level = n /\ k - 1 \in Index
<1>1. EntriesPerTable \in Nat /\ \A k \in 1 .. EntriesPerTable : k - 1 \in Index
  BY EntriesAssumption DEF Index
<1>2. \A k \in 1 .. EntriesPerTable :
        EntriesOf(f, n)[k] = [frame |-> f, index |-> k - 1, level |-> n]
  BY DEF EntriesOf
<1>3. ASSUME NEW k \in 1 .. EntriesPerTable
      PROVE  EntriesOf(f, n)[k] \in Places
  <2>1. k - 1 \in Index
    BY <1>1
  <2>2. [frame |-> f, index |-> k - 1, level |-> n] \in Places
    BY <2>1 DEF Places
  <2> QED BY <1>2, <2>2
<1>4. EntriesOf(f, n) \in [1 .. EntriesPerTable -> Places]
  BY <1>3 DEF EntriesOf
<1>5. EntriesOf(f, n) \in Seq(Places) /\ Len(EntriesOf(f, n)) = EntriesPerTable
  BY <1>1, <1>4
<1> QED BY <1>1, <1>2, <1>5

\* TypeOK's view of the work list.
LEMMA PlacesTyped ==
  ASSUME NEW s \in Seq(Places)
  PROVE  \A k \in DOMAIN s :
           s[k].frame \in PoolFrames /\ s[k].index \in Index /\ s[k].level \in 2 .. 4
<1>1. \A k \in DOMAIN s : s[k] \in Places
  OBVIOUS
<1> QED BY <1>1 DEF Places

\* system_paging_table_clone begins: the copy has one table, all of whose entries
\* are still to be visited.
LEMMA CloneBeginInv ==
  ASSUME TablesInv, CloneBegin
  PROVE  TablesInv'
<1>1. CASE free = {}
  <2>1. /\ phase' = "halted" /\ UNCHANGED <<mem, free, cr3, copy, todo, tlb>>
    BY <1>1 DEF CloneBegin, ClonePanics
  <2> QED BY <2>1 DEF TablesInv, TypeOK, BootInv, CloneInv, RunInv, TlbCoherent
<1>2. CASE free # {}
  <2> DEFINE new == NewFrame(free)
  <2>1. /\ phase = "boot" /\ phase' = "clone" /\ copy' = new /\ free' = free \ {new}
        /\ todo' = EntriesOf(new, 4) /\ mem' = [mem EXCEPT ![new] = mem[cr3]]
        /\ cr3' = cr3 /\ tlb' = tlb
    BY <1>2 DEF CloneBegin, system_paging_page_clone
  <2>2. /\ TypeOK /\ free = PoolFrames /\ TlbCoherent
        /\ \E sets \in [1 .. 4 -> SUBSET BootFrames] : BootLevels(sets) /\ OpenLinks(mem, sets)
    BY <2>1 DEF TablesInv, BootInv
  <2>3. PICK sets \in [1 .. 4 -> SUBSET BootFrames] : BootLevels(sets) /\ OpenLinks(mem, sets)
    BY <2>2
  <2>4. /\ new \in PoolFrames /\ new \notin BootFrames
        /\ mem \in [Frames -> [Index -> EntryValues]] /\ cr3 \in Frames /\ new \in Frames
    BY <1>2, <2>2, NewFrameIsFree, FramesAssumption DEF TypeOK, Frames
  <2> HIDE DEF new
  <2>5. /\ mem' \in [Frames -> [Index -> EntryValues]] /\ mem'[new] = mem[cr3]
        /\ \A f \in BootFrames : mem'[f] = mem[f]
    BY <2>1, <2>4 DEF Frames
  <2>6. /\ BootLevels(sets)'
        /\ \A v \in AllVpages : Translate(mem', cr3', v) = Translate(mem, cr3, v)
    BY <2>1, <2>3, <2>5, BootKept
  <2>7. /\ todo' \in Seq(Places) /\ Len(todo') = EntriesPerTable /\ EntriesPerTable \in Nat
        /\ DOMAIN todo' = 1 .. EntriesPerTable
        /\ \A k \in 1 .. EntriesPerTable :
             /\ todo'[k].frame = new /\ todo'[k].index = k - 1
             /\ todo'[k].level = 4 /\ k - 1 \in Index
    <3>1. /\ todo' \in Seq(Places) /\ Len(todo') = EntriesPerTable
          /\ \A k \in 1 .. EntriesPerTable :
               /\ todo'[k].frame = new /\ todo'[k].index = k - 1
               /\ todo'[k].level = 4 /\ k - 1 \in Index
      BY <2>1, <2>4, EntriesOfTable, 4 \in 2 .. 4
    <3> QED BY <3>1, EntriesAssumption
  <2>8. TypeOK'
    <3>1. \A k \in DOMAIN todo' :
            todo'[k].frame \in PoolFrames /\ todo'[k].index \in Index /\ todo'[k].level \in 2 .. 4
      BY <2>7, PlacesTyped
    <3> QED BY <2>1, <2>2, <2>5, <3>1 DEF TypeOK
  <2>9. Allocated' = {new}
    BY <2>1, <2>2, <2>4 DEF Allocated
  <2>10. PICK level \in [{new} -> 1 .. 4] : level[new] = 4
    <3>1. [g \in {new} |-> 4] \in [{new} -> 1 .. 4] /\ [g \in {new} |-> 4][new] = 4
      OBVIOUS
    <3> QED BY <3>1
  <2>11. \A x \in Index : <<new, x>> \in Pending'
    <3>1. ASSUME NEW x \in Index
          PROVE  <<new, x>> \in Pending'
      <4>1. x + 1 \in 1 .. EntriesPerTable /\ (x + 1) - 1 = x
        BY EntriesAssumption DEF Index
      <4> QED BY <2>7, <4>1 DEF Pending
    <3> QED BY <3>1
  <2>12. Tree(mem, Allocated, copy, Pending, level)'
    <3>1. \A x \in Index : ~ IsLink(mem', level, Pending', new, x)
      BY <2>11 DEF IsLink
    <3>2. Tree(mem', {new}, new, Pending', level)
      BY <2>10, <3>1 DEF Tree
    <3> QED BY <2>1, <2>9, <3>2
  <2>13. TodoInv(sets, level)'
    <3>1. ASSUME NEW j \in DOMAIN todo', NEW k \in DOMAIN todo', todo'[j].index = todo'[k].index
          PROVE  j = k
      BY <2>7, <3>1
    <3>2. ASSUME NEW k \in DOMAIN todo', Visits(mem'[todo'[k].frame][todo'[k].index], todo'[k].level)
          PROVE  mem'[todo'[k].frame][todo'[k].index].address \in sets[todo'[k].level - 1]
      <4>1. /\ todo'[k].index \in Index /\ todo'[k].level = 4
            /\ mem'[todo'[k].frame] = mem[cr3]
        BY <2>5, <2>7
      <4>2. cr3 \in sets[4] /\ 4 \in 2 .. 4
        BY <2>3 DEF BootLevels
      <4> QED BY <2>3, <3>2, <4>1, <4>2 DEF BootLevels, Closed
    <3>3. \A k \in DOMAIN todo' : todo'[k].frame \in Allocated' /\ todo'[k].level = level[todo'[k].frame]
      BY <2>7, <2>9, <2>10
    <3> QED BY <3>1, <3>2, <3>3 DEF TodoInv
  <2>14. ASSUME NEW v \in AllVpages
         PROVE  Translate(mem', copy', v) = Translate(mem', cr3', v)
    <3>1. WalkStep(mem', W4(new), v[4]) = WalkStep(mem', W4(cr3'), v[4])
      <4>1. /\ W4(new).kind = "table" /\ W4(cr3').kind = "table" /\ W4(new).level = W4(cr3').level
            /\ W4(new).rights = W4(cr3').rights /\ W4(new).noexec = W4(cr3').noexec
            /\ W4(new).frame = new /\ W4(cr3').frame = cr3'
        BY DEF W4
      <4>2. mem'[new] = mem'[cr3']
        <5>1. cr3 \in BootFrames
          BY <2>3 DEF BootLevels
        <5> QED BY <2>1, <2>5, <5>1
      <4> QED BY <4>1, <4>2, StepAlike
    <3>2. W3(mem', new, v) = W3(mem', cr3', v)
      BY <3>1 DEF W3
    <3> QED BY <2>1, <3>2, TranslateSteps, Zenon DEF W2, W1
  <2>15. CloneInv'
    <3>1. level \in [Allocated' -> 1 .. 4]
      BY <2>9, <2>10
    <3>2. OpenLinks(mem', Mixed(sets, level)')
      <4>1. ASSUME BootTablesOpen, NEW n \in 2 .. 4, NEW f \in Mixed(sets, level)'[n],
                   NEW x \in Index, Visits(mem'[f][x], n)
            PROVE  Open(mem'[f][x])
        <5>1. n \in 1 .. 4
          OBVIOUS
        <5>2. f \in sets[n] \/ (f = new /\ n = 4)
          BY <2>9, <2>10, <5>1 DEF Mixed
        <5>3. CASE f \in sets[n]
          <6>1. mem'[f] = mem[f]
            BY <2>5, <5>1, <5>3
          <6> QED BY <2>3, <4>1, <5>3, <6>1 DEF OpenLinks
        <5>4. CASE f = new /\ n = 4
          <6>1. cr3 \in sets[4] /\ mem'[f] = mem[cr3]
            BY <2>3, <2>5, <5>4 DEF BootLevels
          <6> QED BY <2>3, <4>1, <5>4, <6>1 DEF OpenLinks
        <5> QED BY <5>2, <5>3, <5>4
      <4> QED BY <4>1 DEF OpenLinks
    <3> QED BY <2>6, <2>12, <2>13, <2>14, <3>1, <3>2 DEF CloneInv
  <2>16. TlbCoherent'
    <3>1. \A v \in DOMAIN tlb : v \in AllVpages /\ tlb[v] = Translate(mem, cr3, v)
      BY <2>1, <2>2, EntriesAssumption DEF TypeOK, TlbCoherent
    <3> QED BY <2>1, <2>6, <3>1 DEF TlbCoherent
  <2> QED BY <2>1, <2>7, <2>8, <2>15, <2>16 DEF TablesInv, BootInv, RunInv
<1> QED BY <1>1, <1>2

\* The work list without its head.
LEMMA TailOfPlaces ==
  ASSUME NEW s \in Seq(Places), s # <<>>
  PROVE  /\ Tail(s) \in Seq(Places) /\ Head(s) = s[1] /\ 1 \in DOMAIN s /\ s[1] \in Places
         /\ Len(s) \in Nat /\ Len(s) >= 1 /\ DOMAIN s = 1 .. Len(s)
         /\ DOMAIN Tail(s) = 1 .. Len(s) - 1 /\ Len(Tail(s)) = Len(s) - 1
         /\ \A k \in 1 .. Len(s) - 1 : Tail(s)[k] = s[k + 1]
<1>1. Len(s) \in Nat /\ DOMAIN s = 1 .. Len(s) /\ Len(s) >= 1
  BY EmptySeq
<1>2. Tail(s) \in Seq(Places) /\ Len(Tail(s)) = Len(s) - 1 /\ \A k \in 1 .. Len(s) - 1 : Tail(s)[k] = s[k + 1]
  BY <1>1
<1>3. Head(s) = s[1] /\ s[1] \in Places
  BY <1>1
<1> QED BY <1>1, <1>2, <1>3

\* An entry that the loops skip is no link, pending or not.
LEMMA CloneSkipsInv ==
  ASSUME TablesInv, CloneSkips
  PROVE  TablesInv'
<1>1. /\ phase = "clone" /\ todo # <<>> /\ todo' = Tail(todo)
      /\ ~ Visits(mem[Head(todo).frame][Head(todo).index], Head(todo).level)
      /\ UNCHANGED <<mem, free, cr3, phase, copy, tlb>>
  BY DEF CloneSkips
<1>2. /\ TypeOK /\ todo \in Seq(Places) /\ TlbCoherent
      /\ \A v \in AllVpages : Translate(mem, copy, v) = Translate(mem, cr3, v)
  BY <1>1 DEF TablesInv, CloneInv
<1>3. PICK sets \in [1 .. 4 -> SUBSET BootFrames], level \in [Allocated -> 1 .. 4] :
        /\ BootLevels(sets) /\ Tree(mem, Allocated, copy, Pending, level) /\ TodoInv(sets, level)
        /\ OpenLinks(mem, Mixed(sets, level))
  BY <1>1 DEF TablesInv, CloneInv
<1>4. /\ todo' \in Seq(Places) /\ Head(todo) = todo[1] /\ 1 \in DOMAIN todo
      /\ Len(todo) \in Nat /\ Len(todo) >= 1 /\ DOMAIN todo = 1 .. Len(todo)
      /\ DOMAIN todo' = 1 .. Len(todo) - 1
      /\ \A k \in 1 .. Len(todo) - 1 : todo'[k] = todo[k + 1] /\ k + 1 \in DOMAIN todo
  BY <1>1, <1>2, TailOfPlaces
<1>5. TypeOK'
  <2>1. \A k \in DOMAIN todo' :
          todo'[k].frame \in PoolFrames /\ todo'[k].index \in Index /\ todo'[k].level \in 2 .. 4
    BY <1>4, PlacesTyped
  <2> QED BY <1>1, <1>2, <2>1 DEF TypeOK
<1>6. Allocated' = Allocated
  BY <1>1 DEF Allocated
<1>7. TodoInv(sets, level)'
  <2>1. ASSUME NEW j \in DOMAIN todo', NEW k \in DOMAIN todo',
               todo'[j].frame = todo'[k].frame, todo'[j].index = todo'[k].index
        PROVE  j = k
    <3>1. j + 1 \in DOMAIN todo /\ k + 1 \in DOMAIN todo /\ j \in Nat /\ k \in Nat
      BY <1>4
    <3>2. j + 1 = k + 1
      BY <1>3, <1>4, <2>1, <3>1 DEF TodoInv
    <3> QED BY <3>1, <3>2
  <2>2. ASSUME NEW k \in DOMAIN todo'
        PROVE  LET entry == mem'[todo'[k].frame][todo'[k].index]
               IN  /\ todo'[k].frame \in Allocated'
                   /\ todo'[k].level = level[todo'[k].frame]
                   /\ Visits(entry, todo'[k].level) => entry.address \in sets[todo'[k].level - 1]
    <3>1. k + 1 \in DOMAIN todo /\ todo'[k] = todo[k + 1] /\ mem' = mem
      BY <1>1, <1>4
    <3>2. LET entry == mem[todo[k + 1].frame][todo[k + 1].index]
          IN  /\ todo[k + 1].frame \in Allocated
              /\ todo[k + 1].level = level[todo[k + 1].frame]
              /\ Visits(entry, todo[k + 1].level) => entry.address \in sets[todo[k + 1].level - 1]
      BY <1>3, <3>1, Zenon DEF TodoInv
    <3> QED BY <1>6, <3>1, <3>2
  <2> QED BY <2>1, <2>2 DEF TodoInv
<1>8. Tree(mem', Allocated', copy', Pending', level)
  <2>1. ASSUME NEW g \in Allocated, NEW y \in Index
        PROVE  IsLink(mem, level, Pending, g, y) <=> IsLink(mem, level, Pending', g, y)
    <3>1. <<g, y>> \in Pending' => <<g, y>> \in Pending
      <4>1. ASSUME NEW k \in DOMAIN todo', <<g, y>> = <<todo'[k].frame, todo'[k].index>>
            PROVE  <<g, y>> \in Pending
        <5>1. k + 1 \in DOMAIN todo /\ todo'[k] = todo[k + 1]
          BY <1>4
        <5> QED BY <4>1, <5>1 DEF Pending
      <4> QED BY <4>1 DEF Pending
    <3>2. <<g, y>> \in Pending => <<g, y>> \in Pending' \/ (g = todo[1].frame /\ y = todo[1].index)
      <4>1. ASSUME NEW k \in DOMAIN todo, <<g, y>> = <<todo[k].frame, todo[k].index>>
            PROVE  <<g, y>> \in Pending' \/ (g = todo[1].frame /\ y = todo[1].index)
        <5>1. CASE k = 1
          BY <4>1, <5>1
        <5>2. CASE k # 1
          <6>1. k - 1 \in DOMAIN todo' /\ todo'[k - 1] = todo[k]
            BY <1>4, <5>2
          <6> QED BY <4>1, <6>1 DEF Pending
        <5> QED BY <5>1, <5>2
      <4> QED BY <4>1 DEF Pending
    <3>3. g = todo[1].frame /\ y = todo[1].index => ~ Visits(mem[g][y], level[g])
      BY <1>1, <1>3, <1>4 DEF TodoInv
    <3> QED BY <3>1, <3>2, <3>3 DEF IsLink
  <2> QED BY <1>1, <1>3, <1>6, <2>1, TreeSkips
<1>9. CloneInv'
  <2>1. BootLevels(sets)'
    BY <1>1, <1>3 DEF BootLevels
  <2>2. OpenLinks(mem', Mixed(sets, level)')
    BY <1>1, <1>3, <1>6 DEF Mixed
  <2> QED BY <1>1, <1>2, <1>3, <1>6, <1>7, <1>8, <2>1, <2>2 DEF CloneInv
<1> QED BY <1>1, <1>2, <1>4, <1>5, <1>9 DEF TablesInv, BootInv, RunInv, TlbCoherent

\* No walk from the copy leaves the tables it has and those still to be copied.
LEMMA MixedClosed ==
  ASSUME NEW sets \in [1 .. 4 -> SUBSET BootFrames], NEW level \in [Allocated -> 1 .. 4],
         BootLevels(sets), Tree(mem, Allocated, copy, Pending, level), TodoInv(sets, level)
  PROVE  Closed(mem, Mixed(sets, level)) /\ copy \in Mixed(sets, level)[4]
<1>1. /\ \A n \in 1 .. 4 : sets[n] \subseteq Mixed(sets, level)[n]
      /\ \A f \in Allocated : f \in Mixed(sets, level)[level[f]]
  BY DEF Mixed
<1>2. copy \in Allocated /\ level[copy] = 4
  BY DEF Tree
<1>3. ASSUME NEW n \in 2 .. 4, NEW f \in Mixed(sets, level)[n], NEW x \in Index,
             Visits(mem[f][x], n)
      PROVE  mem[f][x].address \in Mixed(sets, level)[n - 1]
  <2>1. n - 1 \in 1 .. 4 /\ n \in 1 .. 4
    OBVIOUS
  <2>2. f \in sets[n] \/ (f \in Allocated /\ level[f] = n)
    BY <2>1 DEF Mixed
  <2>3. CASE f \in sets[n]
    BY <1>1, <1>3, <2>1, <2>3 DEF BootLevels, Closed
  <2>4. CASE f \in Allocated /\ level[f] = n /\ <<f, x>> \in Pending
    <3>1. PICK k \in DOMAIN todo : <<f, x>> = <<todo[k].frame, todo[k].index>>
      BY <2>4 DEF Pending
    <3>2. f = todo[k].frame /\ x = todo[k].index
      BY <3>1
    <3>3. todo[k].level = n
      BY <2>4, <3>2 DEF TodoInv
    <3>4. mem[f][x].address \in sets[n - 1]
      BY <1>3, <3>2, <3>3 DEF TodoInv
    <3> QED BY <1>1, <2>1, <3>4
  <2>5. CASE f \in Allocated /\ level[f] = n /\ <<f, x>> \notin Pending
    <3>1. IsLink(mem, level, Pending, f, x)
      BY <1>3, <2>5 DEF IsLink
    <3>2. mem[f][x].address \in Allocated /\ level[mem[f][x].address] = n - 1
      BY <2>5, <3>1 DEF Tree
    <3> QED BY <1>1, <3>2
  <2> QED BY <2>2, <2>3, <2>4, <2>5
<1> QED BY <1>1, <1>2, <1>3 DEF Closed

\* One walk is at a table, the other at its copy, or they are in the same place.
Alike(at, bt, old, new) ==
  \/ bt = at
  \/ /\ at.kind = "table" /\ bt.kind = "table" /\ at.frame = old /\ bt.frame = new
     /\ at.level = bt.level /\ at.rights = bt.rights /\ at.noexec = bt.noexec

\* The entry at place x of f, a table of level n, is redirected to new, a copy
\* of the table it led to.
Redirects(t, u, sets, f, x, n, new) ==
  /\ x \in Index /\ n \in 2 .. 4 /\ \A m \in 1 .. 4 : f \in sets[m] => m = n
  /\ Visits(t[f][x], n) /\ u[f][x].flags = t[f][x].flags /\ u[f][x].address = new
  /\ \A m \in 1 .. 4 : \A g \in sets[m], y \in Index : g # f \/ y # x => u[g][y] = t[g][y]
  /\ \A y \in Index : u[new][y] = t[t[f][x].address][y]

\* That changes no translation.
LEMMA RedirectWalk ==
  ASSUME NEW t, NEW u, NEW sets, Closed(t, sets), NEW root \in sets[4],
         NEW f, NEW x, NEW n, NEW new, Redirects(t, u, sets, f, x, n, new),
         NEW v \in AllVpages
  PROVE  Translate(u, root, v) = Translate(t, root, v)
<1>0. /\ x \in Index /\ n \in 2 .. 4 /\ \A m \in 1 .. 4 : f \in sets[m] => m = n
      /\ Visits(t[f][x], n) /\ u[f][x].flags = t[f][x].flags /\ u[f][x].address = new
      /\ \A m \in 1 .. 4 : \A g \in sets[m], y \in Index : g # f \/ y # x => u[g][y] = t[g][y]
      /\ \A y \in Index : u[new][y] = t[t[f][x].address][y]
  BY DEF Redirects
<1> DEFINE old == t[f][x].address
<1>1. v[1] \in Index /\ v[2] \in Index /\ v[3] \in Index /\ v[4] \in Index
  BY DEF AllVpages
<1>2. ASSUME NEW m \in 1 .. 4, NEW at, NEW bt, On(sets, m, at), Alike(at, bt, old, new),
             NEW y \in Index
      PROVE  Alike(WalkStep(t, at, y), WalkStep(u, bt, y), old, new)
  <2>1. CASE bt = at /\ at.kind # "table"
    BY <2>1, StepEnded DEF Alike
  <2>2. CASE bt = at /\ at.kind = "table" /\ (at.frame # f \/ y # x)
    <3>1. u[at.frame][y] = t[at.frame][y]
      BY <1>0, <1>2, <2>2 DEF On
    <3>2. WalkStep(u, at, y) = WalkStep(t, at, y)
      BY <3>1, StepSame
    <3> QED BY <2>2, <3>2 DEF Alike
  <2>3. CASE bt = at /\ at.kind = "table" /\ at.frame = f /\ y = x
    <3>1. at.level = n
      BY <1>0, <1>2, <2>3 DEF On
    <3>2. Present(t[f][x]) /\ Present(u[f][x])
      BY <1>0 DEF Visits, Present
    <3>3. at.level # 1 /\ ~ (at.level < 4 /\ "PS" \in t[f][x].flags)
      BY <1>0, <3>1 DEF Visits
    <3> DEFINE r == [kind   |-> IF at.level = 1 \/ (at.level < 4 /\ "PS" \in t[f][x].flags)
                                THEN "page" ELSE "table",
                     level  |-> at.level - 1,
                     frame  |-> t[f][x].address,
                     rights |-> at.rights \cap t[f][x].flags,
                     noexec |-> at.noexec \/ "XD" \in t[f][x].flags]
               q == [kind   |-> IF at.level = 1 \/ (at.level < 4 /\ "PS" \in u[f][x].flags)
                                THEN "page" ELSE "table",
                     level  |-> at.level - 1,
                     frame  |-> u[f][x].address,
                     rights |-> at.rights \cap u[f][x].flags,
                     noexec |-> at.noexec \/ "XD" \in u[f][x].flags]
    <3>4. WalkStep(t, at, y) = r
      BY <2>3, <3>2, StepPresent
    <3>5. WalkStep(u, bt, y) = q
      BY <2>3, <3>2, StepPresent
    <3>6. r.kind = "table" /\ q.kind = "table"
      BY <1>0, <3>3
    <3>7. r.frame = old /\ q.frame = new /\ r.level = q.level
      BY <1>0
    <3>8. r.rights = q.rights
      BY <1>0
    <3>9. r.noexec = q.noexec
      BY <1>0
    <3> HIDE DEF r, q
    <3> QED BY <3>4, <3>5, <3>6, <3>7, <3>8, <3>9 DEF Alike
  <2>4. CASE /\ at.kind = "table" /\ bt.kind = "table" /\ at.frame = old /\ bt.frame = new
             /\ at.level = bt.level /\ at.rights = bt.rights /\ at.noexec = bt.noexec
    <3>1. t[at.frame][y] = u[bt.frame][y]
      BY <1>0, <2>4
    <3>2. WalkStep(t, at, y) = WalkStep(u, bt, y)
      BY <2>4, <3>1, StepAlike
    <3> QED BY <3>2 DEF Alike
  <2> QED BY <1>2, <2>1, <2>2, <2>3, <2>4 DEF Alike
<1> HIDE DEF old
<1>3. /\ On(sets, 4, W4(root)) /\ On(sets, 3, W3(t, root, v))
      /\ On(sets, 2, W2(t, root, v)) /\ On(sets, 1, W1(t, root, v))
      /\ Translate(t, root, v).kind # "table"
  BY WalkStays
<1>4. Alike(W4(root), W4(root), old, new)
  BY DEF Alike
<1>5. Alike(W3(t, root, v), W3(u, root, v), old, new)
  BY <1>1, <1>2, <1>3, <1>4, 4 \in 1 .. 4 DEF W3
<1>6. Alike(W2(t, root, v), W2(u, root, v), old, new)
  BY <1>1, <1>2, <1>3, <1>5, 3 \in 1 .. 4 DEF W2
<1>7. Alike(W1(t, root, v), W1(u, root, v), old, new)
  BY <1>1, <1>2, <1>3, <1>6, 2 \in 1 .. 4 DEF W1
<1>8. Alike(Translate(t, root, v), Translate(u, root, v), old, new)
  BY <1>1, <1>2, <1>3, <1>7, TranslateSteps, 1 \in 1 .. 4
<1> QED BY <1>3, <1>8 DEF Alike

\* system_paging_table_page_entry_clone: the table below an entry of the copy is
\* copied in its turn, and the loops go on in the new one.
LEMMA CloneEntryInv ==
  ASSUME TablesInv, CloneEntry
  PROVE  TablesInv'
<1> DEFINE place == Head(todo)
           f     == place.frame
           x     == place.index
           n     == place.level
           old   == mem[f][x].address
           new   == NewFrame(free)
<1>1. phase = "clone" /\ todo # <<>> /\ Visits(mem[f][x], n)
  BY DEF CloneEntry
<1>2. CASE free = {}
  <2>1. phase' = "halted" /\ UNCHANGED <<mem, free, cr3, copy, todo, tlb>>
    BY <1>2 DEF CloneEntry, ClonePanics
  <2> QED BY <2>1 DEF TablesInv, TypeOK, BootInv, CloneInv, RunInv, TlbCoherent
<1>3. CASE free # {}
  <2>1. /\ mem' = [[mem EXCEPT ![new] = mem[old]] EXCEPT ![f][x].address = new]
        /\ free' = free \ {new}
        /\ todo' = IF n > 2 THEN EntriesOf(new, n - 1) \o Tail(todo) ELSE Tail(todo)
        /\ UNCHANGED <<cr3, phase, copy, tlb>>
    BY <1>3 DEF CloneEntry, system_paging_page_clone
  <2>2. /\ TypeOK /\ todo \in Seq(Places) /\ TlbCoherent
        /\ \A v \in AllVpages : Translate(mem, copy, v) = Translate(mem, cr3, v)
    BY <1>1 DEF TablesInv, CloneInv
  <2>3. PICK sets \in [1 .. 4 -> SUBSET BootFrames], level \in [Allocated -> 1 .. 4] :
          /\ BootLevels(sets) /\ Tree(mem, Allocated, copy, Pending, level) /\ TodoInv(sets, level)
          /\ OpenLinks(mem, Mixed(sets, level))
    BY <1>1 DEF TablesInv, CloneInv
  <2>4. /\ Tail(todo) \in Seq(Places) /\ place = todo[1] /\ 1 \in DOMAIN todo /\ place \in Places
        /\ Len(todo) \in Nat /\ Len(todo) >= 1 /\ DOMAIN todo = 1 .. Len(todo)
        /\ Len(Tail(todo)) = Len(todo) - 1
        /\ \A k \in 1 .. Len(todo) - 1 : Tail(todo)[k] = todo[k + 1]
    BY <1>1, <2>2, TailOfPlaces
  <2>5. f \in PoolFrames /\ x \in Index /\ n \in 2 .. 4
    BY <2>4 DEF Places
  <2>6. /\ mem \in [Frames -> [Index -> EntryValues]] /\ free \subseteq PoolFrames
        /\ PoolFrames \cap BootFrames = {} /\ Frames = BootFrames \cup PoolFrames
    BY <2>2, FramesAssumption DEF TypeOK, Frames
  <2>7. f = todo[1].frame /\ x = todo[1].index /\ n = todo[1].level
    BY <2>4
  <2>8. f \in Allocated /\ level[f] = n /\ old \in sets[n - 1]
    BY <1>1, <2>3, <2>4, <2>7 DEF TodoInv
  <2>9. old \in BootFrames /\ n - 1 \in 1 .. 3
    BY <2>3, <2>5, <2>8
  <2>10. new \in free /\ new \in PoolFrames /\ new \notin Allocated /\ new \notin BootFrames /\ new # f
    BY <1>3, <2>6, <2>8, NewFrameIsFree DEF Allocated
  <2>11. <<f, x>> \in Pending
    BY <2>4, <2>7 DEF Pending
  <2> HIDE DEF place, f, x, n, old, new
  <2>12. /\ mem' \in [Frames -> [Index -> EntryValues]] /\ mem'[new] = mem[old]
         /\ \A g \in Frames : g # new /\ g # f => mem'[g] = mem[g]
         /\ \A y \in Index : y # x => mem'[f][y] = mem[f][y]
         /\ mem'[f][x].flags = mem[f][x].flags /\ mem'[f][x].address = new
    <3> DEFINE m == [mem EXCEPT ![new] = mem[old]]
               e == [mem[f][x] EXCEPT !.address = new]
    <3>1. /\ m \in [Frames -> [Index -> EntryValues]] /\ m[new] = mem[old] /\ m[f] = mem[f]
          /\ \A g \in Frames : g # new => m[g] = mem[g]
      BY <2>5, <2>6, <2>9, <2>10
    <3>2. mem[f][x] \in EntryValues /\ new \in Nat
      BY <2>5, <2>6, <2>10, FramesAssumption
    <3>3. e \in EntryValues /\ e.flags = mem[f][x].flags /\ e.address = new
      BY <3>2 DEF EntryValues
    <3>4. mem' = [m EXCEPT ![f] = [m[f] EXCEPT ![x] = [m[f][x] EXCEPT !.address = new]]]
      BY <2>1
    <3> HIDE DEF m
    <3>5. mem' = [m EXCEPT ![f] = [m[f] EXCEPT ![x] = e]]
      BY <3>1, <3>4
    <3> HIDE DEF e
    <3> QED BY <2>5, <2>6, <2>10, <3>1, <3>3, <3>5
  <2>13. \A g \in BootFrames : mem'[g] = mem[g]
    BY <2>5, <2>6, <2>10, <2>12
  <2>14. Allocated' = Allocated \cup {new}
    BY <2>1, <2>10 DEF Allocated
  <2> DEFINE Begins(off) ==
               /\ n > 2 => off = EntriesPerTable
               /\ n = 2 => off = 0
               /\ todo' \in Seq(Places) /\ DOMAIN todo' = 1 .. off + Len(todo) - 1
               /\ \A k \in 1 .. off : /\ todo'[k].frame = new /\ todo'[k].index = k - 1
                                     /\ todo'[k].level = n - 1
               /\ \A k \in 2 .. Len(todo) : todo'[off + k - 1] = todo[k]
  <2>15. PICK off \in Nat : Begins(off)
    <3>1. CASE n = 2
      <4>1. todo' = Tail(todo)
        BY <2>1, <3>1
      <4>2. /\ DOMAIN todo' = 1 .. 0 + Len(todo) - 1
            /\ \A k \in 2 .. Len(todo) : todo'[0 + k - 1] = todo[k]
        <5>1. ASSUME NEW k \in 2 .. Len(todo)
              PROVE  Tail(todo)[0 + k - 1] = todo[k]
          <6>1. 0 + k - 1 = k - 1 /\ k - 1 \in 1 .. Len(todo) - 1 /\ (k - 1) + 1 = k
            BY <2>4
          <6> QED BY <2>4, <6>1
        <5> QED BY <2>4, <4>1, <5>1
      <4>3. \A k \in 1 .. 0 : FALSE
        OBVIOUS
      <4>4. Begins(0)
        BY <2>4, <3>1, <4>1, <4>2, <4>3
      <4> HIDE DEF Begins
      <4> QED BY <4>4, 0 \in Nat
    <3>2. CASE n > 2
      <4> DEFINE E == EntriesOf(new, n - 1)
      <4>1. /\ E \in Seq(Places) /\ Len(E) = EntriesPerTable
            /\ \A k \in 1 .. EntriesPerTable :
                 E[k].frame = new /\ E[k].index = k - 1 /\ E[k].level = n - 1
        <5>1. n - 1 \in 2 .. 4
          BY <2>5, <3>2
        <5> QED BY <2>10, <5>1, EntriesOfTable
      <4>2. todo' = E \o Tail(todo) /\ EntriesPerTable \in Nat
        BY <2>1, <3>2, EntriesAssumption
      <4> HIDE DEF E
      <4>3. /\ todo' \in Seq(Places) /\ DOMAIN todo' = 1 .. EntriesPerTable + Len(todo) - 1
            /\ \A k \in 1 .. EntriesPerTable : todo'[k] = E[k]
            /\ \A k \in 1 .. EntriesPerTable + Len(todo) - 1 :
                 k > EntriesPerTable => todo'[k] = Tail(todo)[k - EntriesPerTable]
        <5> DEFINE T == Tail(todo)
        <5>0. /\ E \o T \in Seq(Places) /\ Len(E \o T) = Len(E) + Len(T)
              /\ \A k \in 1 .. Len(E) + Len(T) :
                   (E \o T)[k] = IF k <= Len(E) THEN E[k] ELSE T[k - Len(E)]
          <6>1. E \in Seq(Places) /\ T \in Seq(Places)
            BY <2>4, <4>1
          <6> HIDE DEF T
          <6> QED BY <6>1, ConcatProperties, Zenon
        <5>1. /\ Len(todo') = Len(E) + Len(Tail(todo))
              /\ \A k \in 1 .. Len(E) + Len(Tail(todo)) :
                   todo'[k] = IF k <= Len(E) THEN E[k] ELSE Tail(todo)[k - Len(E)]
              /\ todo' \in Seq(Places)
          BY <4>2, <5>0, Zenon
        <5>2. Len(E) + Len(Tail(todo)) = EntriesPerTable + Len(todo) - 1
          BY <2>4, <4>1, <4>2
        <5>3. DOMAIN todo' = 1 .. EntriesPerTable + Len(todo) - 1
          <6>1. Len(todo') = EntriesPerTable + Len(todo) - 1
            BY <5>1, <5>2, Zenon
          <6>2. DOMAIN todo' = 1 .. Len(todo')
            <7>1. todo' \in Seq(Places)
              BY <5>1
            <7> QED BY <7>1
          <6> QED BY <6>1, <6>2
        <5> QED BY <2>4, <4>1, <4>2, <5>1, <5>2, <5>3
      <4>4. ASSUME NEW k \in 2 .. Len(todo)
            PROVE  todo'[EntriesPerTable + k - 1] = todo[k]
        <5>1. /\ k - 1 \in 1 .. Len(todo) - 1 /\ (k - 1) + 1 = k
              /\ EntriesPerTable + k - 1 \in 1 .. EntriesPerTable + Len(todo) - 1
              /\ EntriesPerTable + k - 1 > EntriesPerTable
              /\ (EntriesPerTable + k - 1) - EntriesPerTable = k - 1
          BY <2>4, <4>2
        <5>2. todo'[EntriesPerTable + k - 1] = Tail(todo)[k - 1]
          BY <4>3, <5>1
        <5> QED BY <2>4, <5>1, <5>2
      <4>5. Begins(EntriesPerTable)
        <5>1. \A k \in 1 .. EntriesPerTable :
                todo'[k].frame = new /\ todo'[k].index = k - 1 /\ todo'[k].level = n - 1
          BY <4>1, <4>3
        <5>2. ~ (n = 2)
          BY <2>5, <3>2
        <5> QED BY <4>3, <4>4, <5>1, <5>2
      <4> HIDE DEF Begins
      <4> QED BY <4>2, <4>5
    <3> HIDE DEF Begins
    <3> QED BY <2>5, <3>1, <3>2
  <2>16. \A k \in DOMAIN todo' :
           \/ k \in 1 .. off
           \/ \E j \in 2 .. Len(todo) : j \in DOMAIN todo /\ k = off + j - 1 /\ todo'[k] = todo[j]
    <3>1. ASSUME NEW k \in DOMAIN todo', k \notin 1 .. off
          PROVE  \E j \in 2 .. Len(todo) : j \in DOMAIN todo /\ k = off + j - 1 /\ todo'[k] = todo[j]
      <4> DEFINE j == k - off + 1
      <4>1. j \in 2 .. Len(todo) /\ k = off + j - 1 /\ j \in DOMAIN todo
        BY <2>4, <2>15, <3>1
      <4> HIDE DEF j
      <4> QED BY <2>15, <4>1
    <3> QED BY <3>1
  <2>17. \A j \in 2 .. Len(todo) :
           /\ j \in DOMAIN todo /\ todo[j].frame \in Allocated /\ todo[j].frame # new
           /\ todo[j].index \in Index /\ (todo[j].frame # f \/ todo[j].index # x)
    <3>1. ASSUME NEW j \in 2 .. Len(todo)
          PROVE  /\ j \in DOMAIN todo /\ todo[j].frame \in Allocated /\ todo[j].frame # new
                 /\ todo[j].index \in Index /\ (todo[j].frame # f \/ todo[j].index # x)
      <4>1. j \in DOMAIN todo /\ j # 1
        BY <2>4
      <4>2. todo[j].frame \in Allocated /\ todo[j].index \in Index
        BY <2>2, <2>3, <4>1 DEF TodoInv, TypeOK
      <4>3. todo[j].frame # f \/ todo[j].index # x
        BY <2>3, <2>4, <2>7, <4>1 DEF TodoInv
      <4> QED BY <2>10, <4>1, <4>2, <4>3
    <3> QED BY <3>1
  <2>18. PICK grown \in [Allocated' -> 1 .. 4] :
           /\ grown = Grown(level, Allocated, new, n - 1)
           /\ grown[new] = n - 1 /\ \A g \in Allocated : grown[g] = level[g]
    <3>1. /\ Grown(level, Allocated, new, n - 1) \in [Allocated \cup {new} -> 1 .. 4]
          /\ Grown(level, Allocated, new, n - 1)[new] = n - 1
          /\ \A g \in Allocated : Grown(level, Allocated, new, n - 1)[g] = level[g]
      BY <2>9, <2>10 DEF Grown
    <3> QED BY <2>14, <3>1
  <2>19. Tree(mem', Allocated', copy', Pending', grown)
    <3>1. ASSUME NEW g \in Allocated, NEW y \in Index, g # f \/ y # x
          PROVE  mem'[g][y] = mem[g][y] /\ (<<g, y>> \in Pending' <=> <<g, y>> \in Pending)
      <4>1. mem'[g][y] = mem[g][y]
        BY <2>6, <2>10, <2>12, <3>1 DEF Allocated
      <4>2. ASSUME NEW k \in DOMAIN todo', <<g, y>> = <<todo'[k].frame, todo'[k].index>>
            PROVE  <<g, y>> \in Pending
        <5>1. k \notin 1 .. off
          BY <2>10, <2>15, <4>2
        <5>2. PICK j \in 2 .. Len(todo) : j \in DOMAIN todo /\ todo'[k] = todo[j]
          BY <2>16, <5>1
        <5> QED BY <4>2, <5>2 DEF Pending
      <4>3. ASSUME NEW j \in DOMAIN todo, <<g, y>> = <<todo[j].frame, todo[j].index>>
            PROVE  <<g, y>> \in Pending'
        <5>1. j # 1
          BY <2>7, <3>1, <4>3
        <5>2. j \in 2 .. Len(todo) /\ off + j - 1 \in DOMAIN todo'
          BY <2>4, <2>15, <5>1
        <5>3. todo'[off + j - 1] = todo[j]
          BY <2>15, <5>2
        <5> QED BY <4>3, <5>2, <5>3 DEF Pending
      <4> QED BY <4>1, <4>2, <4>3 DEF Pending
    <3>2. <<f, x>> \notin Pending'
      <4>1. ASSUME NEW k \in DOMAIN todo', <<f, x>> = <<todo'[k].frame, todo'[k].index>>
            PROVE  FALSE
        <5>1. f = todo'[k].frame /\ x = todo'[k].index
          BY <4>1
        <5>2. k \notin 1 .. off
          BY <2>10, <2>15, <5>1
        <5> QED BY <2>16, <2>17, <5>1, <5>2
      <4> QED BY <4>1 DEF Pending
    <3>3. ASSUME n > 2, NEW y \in Index
          PROVE  <<new, y>> \in Pending'
      <4>1. off = EntriesPerTable /\ y + 1 \in 1 .. off /\ (y + 1) - 1 = y
        BY <2>15, <3>3, EntriesAssumption DEF Index
      <4>2. y + 1 \in DOMAIN todo' /\ todo'[y + 1].frame = new /\ todo'[y + 1].index = y
        BY <2>4, <2>15, <4>1
      <4> QED BY <4>2 DEF Pending
    <3>4. Visits(mem'[f][x], n)
      BY <1>1, <2>12 DEF Visits, Present, f, x, n
    <3>5. ~ IsLink(mem, level, Pending, f, x)
      BY <2>11 DEF IsLink
    <3>6. level[f] >= 2
      BY <2>5, <2>8
    <3>7. Enters(mem, mem', Allocated, Pending, Pending', level, f, x, new, n - 1)
      BY <2>5, <2>8, <2>10, <2>12, <3>1, <3>2, <3>3, <3>4, <3>5, <3>6 DEF Enters
    <3>8. Tree(mem', Allocated \cup {new}, copy, Pending', Grown(level, Allocated, new, n - 1))
      BY <2>3, <3>7, TreeGrows
    <3> QED BY <2>1, <2>14, <2>18, <3>8
  <2>20. TodoInv(sets, grown)'
    <3>1. ASSUME NEW j \in DOMAIN todo', NEW k \in DOMAIN todo',
                 todo'[j].frame = todo'[k].frame, todo'[j].index = todo'[k].index
          PROVE  j = k
      <4>1. CASE j \in 1 .. off /\ k \in 1 .. off
        <5>1. todo'[j].index = j - 1 /\ todo'[k].index = k - 1
          BY <2>15, <4>1
        <5>2. j - 1 = k - 1
          BY <3>1, <5>1, Zenon
        <5>3. j \in Nat /\ k \in Nat
          BY <4>1
        <5> QED BY <5>2, <5>3
      <4>2. CASE j \in 1 .. off /\ k \notin 1 .. off
        BY <2>15, <2>16, <2>17, <3>1, <4>2
      <4>3. CASE j \notin 1 .. off /\ k \in 1 .. off
        BY <2>15, <2>16, <2>17, <3>1, <4>3
      <4>4. CASE j \notin 1 .. off /\ k \notin 1 .. off
        <5>1. PICK i \in 2 .. Len(todo) : i \in DOMAIN todo /\ j = off + i - 1 /\ todo'[j] = todo[i]
          BY <2>16, <4>4
        <5>2. PICK l \in 2 .. Len(todo) : l \in DOMAIN todo /\ k = off + l - 1 /\ todo'[k] = todo[l]
          BY <2>16, <4>4
        <5>3. i = l
          BY <2>3, <3>1, <5>1, <5>2 DEF TodoInv
        <5> QED BY <5>1, <5>2, <5>3
      <4> QED BY <4>1, <4>2, <4>3, <4>4
    <3>2. ASSUME NEW k \in DOMAIN todo'
          PROVE  LET entry == mem'[todo'[k].frame][todo'[k].index]
                 IN  /\ todo'[k].frame \in Allocated'
                     /\ todo'[k].level = grown[todo'[k].frame]
                     /\ Visits(entry, todo'[k].level) => entry.address \in sets[todo'[k].level - 1]
      <4>1. CASE k \in 1 .. off
        <5>1. todo'[k].frame = new /\ todo'[k].index = k - 1 /\ todo'[k].level = n - 1
          BY <2>15, <4>1
        <5>2. n - 1 \in 2 .. 4 /\ k - 1 \in Index
          BY <2>5, <2>15, <4>1, EntriesAssumption DEF Index
        <5>3. Visits(mem[old][k - 1], n - 1) => mem[old][k - 1].address \in sets[(n - 1) - 1]
          BY <2>3, <2>8, <5>2 DEF BootLevels, Closed
        <5> QED BY <2>12, <2>14, <2>18, <5>1, <5>3
      <4>2. CASE k \notin 1 .. off
        <5>1. PICK i \in 2 .. Len(todo) : i \in DOMAIN todo /\ todo'[k] = todo[i]
          BY <2>16, <4>2
        <5>2. LET entry == mem[todo[i].frame][todo[i].index]
              IN  /\ todo[i].frame \in Allocated
                  /\ todo[i].level = level[todo[i].frame]
                  /\ Visits(entry, todo[i].level) => entry.address \in sets[todo[i].level - 1]
          BY <2>3, <5>1, Zenon DEF TodoInv
        <5>3. todo[i].frame # new /\ (todo[i].frame # f \/ todo[i].index # x) /\ todo[i].index \in Index
          BY <2>17, <5>1
        <5>4. todo[i].frame \in Frames
          BY <2>6, <5>2 DEF Allocated
        <5>5. mem'[todo[i].frame][todo[i].index] = mem[todo[i].frame][todo[i].index]
          BY <2>12, <5>3, <5>4
        <5> QED BY <2>14, <2>18, <5>1, <5>2, <5>5
      <4> QED BY <4>1, <4>2
    <3> QED BY <3>1, <3>2 DEF TodoInv
  <2>21. ASSUME NEW v \in AllVpages
         PROVE  Translate(mem', copy', v) = Translate(mem, copy, v)
    <3> DEFINE both == Mixed(sets, level)
    <3>1. Closed(mem, both) /\ copy \in both[4]
      BY <2>3, MixedClosed
    <3>2. \A m \in 1 .. 4 : \A g \in both[m] :
            g \in Frames /\ g # new /\ (g \in BootFrames \/ (g \in Allocated /\ level[g] = m))
      <4>1. ASSUME NEW m \in 1 .. 4, NEW g \in both[m]
            PROVE  g \in Frames /\ g # new /\ (g \in BootFrames \/ (g \in Allocated /\ level[g] = m))
        <5>1. g \in sets[m] \/ (g \in Allocated /\ level[g] = m)
          BY DEF Mixed
        <5>2. sets[m] \subseteq BootFrames
          OBVIOUS
        <5> QED BY <2>6, <2>10, <5>1, <5>2 DEF Allocated
      <4> QED BY <4>1
    <3> HIDE DEF both
    <3>3. f \notin BootFrames
      BY <2>5, <2>6
    <3>4. \A m \in 1 .. 4 : f \in both[m] => m = n
      BY <2>8, <3>2, <3>3
    <3>5. \A m \in 1 .. 4 : \A g \in both[m], y \in Index : g # f \/ y # x => mem'[g][y] = mem[g][y]
      BY <2>12, <3>2
    <3>6. Visits(mem[f][x], n)
      BY <1>1 DEF f, x, n
    <3>7. Redirects(mem, mem', both, f, x, n, new)
      BY <2>5, <2>12, <3>4, <3>5, <3>6 DEF Redirects, old
    <3>8. Translate(mem', copy, v) = Translate(mem, copy, v)
      BY <3>1, <3>7, RedirectWalk
    <3> QED BY <2>1, <3>8
  <2>22. /\ BootLevels(sets)'
         /\ \A v \in AllVpages : Translate(mem', cr3', v) = Translate(mem, cr3, v)
    BY <2>1, <2>3, <2>13, BootKept
  <2>23. CloneInv'
    <3>1. OpenLinks(mem', Mixed(sets, grown)')
      <4>1. ASSUME BootTablesOpen, NEW m \in 2 .. 4, NEW g \in Mixed(sets, grown)'[m],
                   NEW y \in Index, Visits(mem'[g][y], m)
            PROVE  Open(mem'[g][y])
        <5>1. m \in 1 .. 4
          OBVIOUS
        <5>2. \/ g \in sets[m] \/ (g \in Allocated /\ level[g] = m)
              \/ g = new /\ m = n - 1
          BY <2>14, <2>18, <5>1 DEF Mixed
        <5>3. CASE g \in sets[m] \/ (g \in Allocated /\ level[g] = m)
          <6>1. g \in Mixed(sets, level)[m] /\ g # new /\ g \in Frames
            BY <2>6, <2>10, <5>1, <5>3 DEF Mixed, Allocated
          <6>2. mem'[g][y].flags = mem[g][y].flags
            BY <2>12, <6>1
          <6>3. Visits(mem[g][y], m)
            BY <4>1, <6>2 DEF Visits, Present
          <6> QED BY <2>3, <4>1, <6>1, <6>2, <6>3 DEF OpenLinks, Open
        <5>4. CASE g = new /\ m = n - 1
          <6>1. mem'[g] = mem[old] /\ old \in Mixed(sets, level)[m]
            BY <2>8, <2>12, <5>1, <5>4 DEF Mixed
          <6> QED BY <2>3, <4>1, <6>1 DEF OpenLinks
        <5> QED BY <5>2, <5>3, <5>4
      <4> QED BY <4>1 DEF OpenLinks
    <3> QED BY <2>2, <2>18, <2>19, <2>20, <2>21, <2>22, <3>1 DEF CloneInv
  <2>24. TypeOK'
    <3>1. \A k \in DOMAIN todo' :
            todo'[k].frame \in PoolFrames /\ todo'[k].index \in Index /\ todo'[k].level \in 2 .. 4
      BY <2>15, PlacesTyped
    <3> QED BY <2>1, <2>2, <2>12, <3>1 DEF TypeOK
  <2>25. TlbCoherent'
    <3>1. \A v \in DOMAIN tlb : v \in AllVpages /\ tlb[v] = Translate(mem, cr3, v)
      BY <1>1, <2>2, EntriesAssumption DEF TypeOK, TlbCoherent
    <3> QED BY <2>1, <2>22, <3>1 DEF TlbCoherent
  <2> QED BY <1>1, <2>1, <2>15, <2>23, <2>24, <2>25 DEF TablesInv, BootInv, RunInv
<1> QED BY <1>2, <1>3

\* asm_cr3_write: the copy is complete and translates as the bootloader's tables.
LEMMA CloneDoneInv ==
  ASSUME TablesInv, CloneDone
  PROVE  /\ TablesInv'
         /\ \A v \in AllVpages : Translate(mem', cr3', v) = Translate(mem, cr3, v)
<1>1. /\ phase = "clone" /\ todo = <<>> /\ cr3' = copy /\ phase' = "run" /\ tlb' \in {tlb, <<>>}
      /\ UNCHANGED <<mem, free, copy, todo>>
  BY DEF CloneDone
<1>2. /\ TypeOK /\ todo \in Seq(Places) /\ TlbCoherent
      /\ \A v \in AllVpages : Translate(mem, copy, v) = Translate(mem, cr3, v)
  BY <1>1 DEF TablesInv, CloneInv
<1>3. PICK sets \in [1 .. 4 -> SUBSET BootFrames], level \in [Allocated -> 1 .. 4] :
        /\ Tree(mem, Allocated, copy, Pending, level)
        /\ OpenLinks(mem, Mixed(sets, level))
  BY <1>1 DEF TablesInv, CloneInv
<1>4. DOMAIN todo = {} /\ Pending = {}
  <2>1. DOMAIN todo = {}
    BY <1>1
  <2> QED BY <2>1 DEF Pending
<1>5. copy \in Frames
  BY <1>3 DEF Tree, Allocated, Frames
<1>6. TypeOK' /\ todo' \in Seq(Places)
  BY <1>1, <1>2, <1>5 DEF TypeOK
<1>7. Allocated' = Allocated
  BY <1>1 DEF Allocated
<1>8. OpenLinks(mem, Levels(Allocated, level))
  <2>1. \A n \in 1 .. 4 : Levels(Allocated, level)[n] \subseteq Mixed(sets, level)[n]
    BY DEF Levels, Mixed
  <2> QED BY <1>3, <2>1 DEF OpenLinks
<1>9. RunInv'
  <2>1. Tree(mem', Allocated', cr3', {}, level)
    BY <1>1, <1>3, <1>4, <1>7
  <2>2. OpenLinks(mem', Levels(Allocated', level))
    BY <1>1, <1>7, <1>8
  <2> QED BY <1>7, <2>1, <2>2 DEF RunInv
<1>10. TlbCoherent'
  <2>1. \A v \in DOMAIN tlb : v \in AllVpages /\ tlb[v] = Translate(mem, cr3, v)
    BY <1>1, <1>2, EntriesAssumption DEF TypeOK, TlbCoherent
  <2>2. CASE tlb' = tlb
    BY <1>1, <1>2, <2>1, <2>2 DEF TlbCoherent
  <2>3. CASE tlb' = <<>>
    BY <2>3 DEF TlbCoherent
  <2> QED BY <1>1, <2>2, <2>3
<1> QED BY <1>1, <1>2, <1>6, <1>9, <1>10 DEF TablesInv, BootInv, CloneInv

\* What the CPU caches is what the tables say.
LEMMA CpuAccessInv ==
  ASSUME TablesInv, NEW v \in Vpages, CpuAccess(v)
  PROVE  TablesInv'
<1>1. /\ phase \in {"boot", "clone", "run"}
      /\ tlb' = [w \in DOMAIN tlb \cup {v} |-> IF w = v THEN Translate(mem, cr3, v) ELSE tlb[w]]
      /\ UNCHANGED <<mem, free, cr3, phase, copy, todo>>
  BY DEF CpuAccess
<1>2. TypeOK /\ todo \in Seq(Places) /\ BootInv /\ CloneInv /\ RunInv /\ TlbCoherent
  BY DEF TablesInv
<1>3. TypeOK' /\ todo' \in Seq(Places)
  BY <1>1, <1>2 DEF TypeOK
<1>4. Allocated' = Allocated /\ Pending' = Pending
  BY <1>1 DEF Allocated, Pending
<1>5. BootInv'
  BY <1>1, <1>2 DEF BootInv, BootLevels
<1>6. CloneInv'
  <2>1. SUFFICES ASSUME phase = "clone"
                 PROVE  CloneInv'
    BY <1>1 DEF CloneInv
  <2>2. PICK sets \in [1 .. 4 -> SUBSET BootFrames], level \in [Allocated -> 1 .. 4] :
          /\ BootLevels(sets) /\ Tree(mem, Allocated, copy, Pending, level) /\ TodoInv(sets, level)
          /\ OpenLinks(mem, Mixed(sets, level))
    BY <1>2, <2>1 DEF CloneInv
  <2>3. BootLevels(sets)' /\ TodoInv(sets, level)' /\ Mixed(sets, level)' = Mixed(sets, level)
    BY <1>1, <1>4, <2>2 DEF BootLevels, TodoInv, Mixed
  <2>4. \A w \in AllVpages : Translate(mem, copy, w) = Translate(mem, cr3, w)
    BY <1>2, <2>1 DEF CloneInv
  <2> QED BY <1>1, <1>4, <2>2, <2>3, <2>4 DEF CloneInv
<1>7. RunInv'
  BY <1>1, <1>2, <1>4 DEF RunInv
<1>8. TlbCoherent'
  BY <1>1, <1>2 DEF TlbCoherent
<1> QED BY <1>3, <1>5, <1>6, <1>7, <1>8 DEF TablesInv

-----------------------------------------------------------------------------
(* Mapping and unmapping: the walk down                                    *)

\* The state of the walk to v when it is at level n.
At(t, root, v, n) ==
  IF n = 4 THEN W4(root)
  ELSE IF n = 3 THEN W3(t, root, v)
  ELSE IF n = 2 THEN W2(t, root, v) ELSE W1(t, root, v)

\* One step of it.
LEMMA AtNext ==
  ASSUME NEW t, NEW root, NEW v, NEW n \in 2 .. 4
  PROVE  At(t, root, v, n - 1) = WalkStep(t, At(t, root, v, n), v[n])
<1>1. CASE n = 4
  BY <1>1 DEF At, W3
<1>2. CASE n = 3
  BY <1>2 DEF At, W2
<1>3. CASE n = 2
  BY <1>3 DEF At, W1
<1> QED BY <1>1, <1>2, <1>3

\* A missing table, here below place x of f on level n, is entered, and is empty.
Opens(t, u, sets, f, x, n, new) ==
  /\ x \in Index /\ n \in 2 .. 4 /\ \A m \in 1 .. 4 : f \in sets[m] => m = n
  /\ ~ Present(t[f][x]) /\ u[f][x] = Entry({"P", "RW"}, new)
  /\ \A m \in 1 .. 4 : \A g \in sets[m], y \in Index : g # f \/ y # x => u[g][y] = t[g][y]
  /\ \A y \in Index : u[new][y] = NotPresent

\* Where one walk ended the other is at the new table, or they are in the same
\* place.
Further(at, bt, new, here) ==
  \/ bt = at
  \/ here /\ at = Unmapped /\ bt.kind = "table" /\ bt.frame = new

\* That changes no translation, and no walk that got further already.
LEMMA OpenWalk ==
  ASSUME NEW t, NEW u, NEW sets, Closed(t, sets), NEW root \in sets[4],
         NEW f, NEW x, NEW n, NEW new, Opens(t, u, sets, f, x, n, new),
         NEW v \in AllVpages
  PROVE  /\ Translate(u, root, v) = Translate(t, root, v)
         /\ \A m \in 1 .. 4 : At(t, root, v, m).kind = "table" => At(u, root, v, m) = At(t, root, v, m)
<1>0. /\ x \in Index /\ n \in 2 .. 4 /\ \A m \in 1 .. 4 : f \in sets[m] => m = n
      /\ ~ Present(t[f][x]) /\ u[f][x] = Entry({"P", "RW"}, new)
      /\ \A m \in 1 .. 4 : \A g \in sets[m], y \in Index : g # f \/ y # x => u[g][y] = t[g][y]
      /\ \A y \in Index : u[new][y] = NotPresent
  BY DEF Opens
<1>1. v[1] \in Index /\ v[2] \in Index /\ v[3] \in Index /\ v[4] \in Index
  BY DEF AllVpages
<1>2. Unmapped.kind # "table" /\ ~ Present(NotPresent)
  BY DEF Unmapped, Present, NotPresent, Entry
<1>3. ASSUME NEW m \in 1 .. 4, NEW at, NEW bt, On(sets, m, at), Further(at, bt, new, m = n - 1),
             NEW y \in Index
      PROVE  Further(WalkStep(t, at, y), WalkStep(u, bt, y), new, m - 1 = n - 1)
  <2>1. CASE bt = at /\ at.kind # "table"
    BY <2>1, StepEnded DEF Further
  <2>2. CASE bt = at /\ at.kind = "table" /\ (at.frame # f \/ y # x)
    <3>1. u[at.frame][y] = t[at.frame][y]
      BY <1>0, <1>3, <2>2 DEF On
    <3>2. WalkStep(u, at, y) = WalkStep(t, at, y)
      BY <3>1, StepSame
    <3> QED BY <2>2, <3>2 DEF Further
  <2>3. CASE bt = at /\ at.kind = "table" /\ at.frame = f /\ y = x
    <3>1. at.level = n /\ m = n
      BY <1>0, <1>3, <2>3 DEF On
    <3>2. WalkStep(t, at, y) = Unmapped
      BY <1>0, <2>3, StepAbsent
    <3>3. u[f][x].flags = {"P", "RW"} /\ u[f][x].address = new
      BY <1>0 DEF Entry
    <3>4. Present(u[f][x])
      BY <3>3 DEF Present
    <3> DEFINE q == [kind   |-> IF at.level = 1 \/ (at.level < 4 /\ "PS" \in u[f][x].flags)
                                THEN "page" ELSE "table",
                     level  |-> at.level - 1,
                     frame  |-> u[f][x].address,
                     rights |-> at.rights \cap u[f][x].flags,
                     noexec |-> at.noexec \/ "XD" \in u[f][x].flags]
    <3>5. WalkStep(u, bt, y) = q
      BY <2>3, <3>4, StepPresent
    <3>6. "PS" \notin u[f][x].flags /\ at.level # 1
      BY <1>0, <3>1, <3>3
    <3>7. q.kind = "table" /\ q.frame = new
      BY <3>3, <3>6
    <3> HIDE DEF q
    <3> QED BY <3>1, <3>2, <3>5, <3>7 DEF Further
  <2>4. CASE at = Unmapped /\ bt.kind = "table" /\ bt.frame = new
    <3>1. WalkStep(t, at, y) = Unmapped
      BY <1>2, <2>4, StepEnded
    <3>2. WalkStep(u, bt, y) = Unmapped
      BY <1>0, <1>2, <2>4, StepAbsent
    <3> QED BY <3>1, <3>2 DEF Further
  <2> QED BY <1>3, <2>1, <2>2, <2>3, <2>4 DEF Further
<1>4. /\ On(sets, 4, W4(root)) /\ On(sets, 3, W3(t, root, v))
      /\ On(sets, 2, W2(t, root, v)) /\ On(sets, 1, W1(t, root, v))
  BY WalkStays
<1>5. Further(W4(root), W4(root), new, 4 = n - 1)
  BY DEF Further
<1>6. Further(W3(t, root, v), W3(u, root, v), new, 3 = n - 1)
  BY <1>1, <1>3, <1>4, <1>5, 4 \in 1 .. 4, 4 - 1 = 3 DEF W3
<1>7. Further(W2(t, root, v), W2(u, root, v), new, 2 = n - 1)
  BY <1>1, <1>3, <1>4, <1>6, 3 \in 1 .. 4, 3 - 1 = 2 DEF W2
<1>8. Further(W1(t, root, v), W1(u, root, v), new, 1 = n - 1)
  BY <1>1, <1>3, <1>4, <1>7, 2 \in 1 .. 4, 2 - 1 = 1 DEF W1
<1>9. Further(Translate(t, root, v), Translate(u, root, v), new, 0 = n - 1)
  BY <1>1, <1>3, <1>4, <1>8, TranslateSteps, 1 \in 1 .. 4, 1 - 1 = 0
<1>10. Translate(u, root, v) = Translate(t, root, v)
  BY <1>0, <1>9 DEF Further
<1>11. ASSUME NEW m \in 1 .. 4, At(t, root, v, m).kind = "table"
       PROVE  At(u, root, v, m) = At(t, root, v, m)
  <2>1. CASE m = 4
    BY <2>1 DEF At
  <2>2. CASE m = 3
    BY <1>2, <1>6, <1>11, <2>2 DEF At, Further
  <2>3. CASE m = 2
    BY <1>2, <1>7, <1>11, <2>3 DEF At, Further
  <2>4. CASE m = 1
    BY <1>2, <1>8, <1>11, <2>4 DEF At, Further
  <2> QED BY <2>1, <2>2, <2>3, <2>4
<1> QED BY <1>10, <1>11

\* The states of system_paging_entry.
WalkRecord ==
  [mem : [Frames -> [Index -> EntryValues]], free : SUBSET PoolFrames, at : Nat,
   clobbers : BOOLEAN, panics : BOOLEAN]

Going(w) == w.clobbers = FALSE /\ w.panics = FALSE

\* The allocated frame is empty and entered at place x of f; nothing else is
\* written.
NewTable(t, u, f, x, new) ==
  /\ u \in [Frames -> [Index -> EntryValues]]
  /\ u[new] = EmptyTable /\ u[f][x] = Entry({"P", "RW"}, new)
  /\ \A y \in Index : y # x => u[f][y] = t[f][y]
  /\ \A g \in Frames : g # new /\ g # f => u[g] = t[g]

\* What one level of the walk does.
LEMMA DescendCases ==
  ASSUME NEW w \in WalkRecord, NEW x \in Index, w.at \in PoolFrames \ w.free
  PROVE  LET d == Descend(w, x)
             e == w.mem[w.at][x]
         IN  /\ d \in WalkRecord
             /\ \/ ~ Going(w) /\ d = w
                \/ Going(w) /\ ~ Going(d) /\ d.mem = w.mem /\ d.free = w.free
                \/ /\ Going(w) /\ Going(d) /\ d.mem = w.mem /\ d.free = w.free
                   /\ Present(e) /\ "PS" \notin e.flags /\ d.at = e.address
                \/ /\ Going(w) /\ Going(d) /\ ~ Present(e) /\ d.at \in w.free
                   /\ d.free = w.free \ {d.at} /\ NewTable(w.mem, d.mem, w.at, x, d.at)
<1> DEFINE d   == Descend(w, x)
           e   == w.mem[w.at][x]
           new == NewFrame(w.free)
           m   == [w.mem EXCEPT ![new] = EmptyTable, ![w.at][x] = Entry({"P", "RW"}, new)]
<1>1. /\ w.mem \in [Frames -> [Index -> EntryValues]] /\ w.free \subseteq PoolFrames
      /\ w.clobbers \in BOOLEAN /\ w.panics \in BOOLEAN /\ w.at \in Nat
      /\ PoolFrames \subseteq Nat /\ w.at \in Frames
  BY FramesAssumption DEF WalkRecord, Frames
<1>2. e \in EntryValues
  BY <1>1
<1>3. e.address \in Nat
  BY <1>2 DEF EntryValues
<1>4. CASE ~ Going(w)
  <2>1. w.clobbers \/ w.panics
    BY <1>1, <1>4 DEF Going
  <2>2. d = w
    BY <2>1, Zenon DEF Descend
  <2> QED BY <1>4, <2>2
<1>5. CASE Going(w) /\ Present(e) /\ "PS" \in e.flags
  <2>1. ~ (w.clobbers \/ w.panics)
    BY <1>5 DEF Going
  <2>2. d = [w EXCEPT !.clobbers = TRUE]
    BY <1>5, <2>1, Zenon DEF Descend
  <2>3. d \in WalkRecord /\ d.clobbers = TRUE /\ d.mem = w.mem /\ d.free = w.free
    <3> HIDE DEF d
    <3> QED BY <2>2 DEF WalkRecord
  <2> HIDE DEF d
  <2>4. ~ Going(d)
    BY <2>3 DEF Going
  <2> QED BY <1>5, <2>3, <2>4 DEF d
<1>6. CASE Going(w) /\ Present(e) /\ "PS" \notin e.flags
  <2>1. ~ (w.clobbers \/ w.panics)
    BY <1>6 DEF Going
  <2>2. d = [w EXCEPT !.at = e.address]
    BY <1>6, <2>1, Zenon DEF Descend
  <2>3. /\ d \in WalkRecord /\ d.clobbers = w.clobbers /\ d.panics = w.panics
        /\ d.mem = w.mem /\ d.free = w.free /\ d.at = e.address
    <3> HIDE DEF d, e
    <3> QED BY <1>3, <2>2 DEF WalkRecord
  <2> HIDE DEF d
  <2>4. Going(d)
    BY <1>6, <2>3 DEF Going
  <2> QED BY <1>6, <2>3, <2>4 DEF d
<1>7. CASE Going(w) /\ ~ Present(e) /\ w.free = {}
  <2>1. ~ (w.clobbers \/ w.panics)
    BY <1>7 DEF Going
  <2>2. d = [w EXCEPT !.panics = TRUE]
    BY <1>7, <2>1, Zenon DEF Descend
  <2>3. d \in WalkRecord /\ d.panics = TRUE /\ d.mem = w.mem /\ d.free = w.free
    <3> HIDE DEF d
    <3> QED BY <2>2 DEF WalkRecord
  <2> HIDE DEF d
  <2>4. ~ Going(d)
    BY <2>3 DEF Going
  <2> QED BY <1>7, <2>3, <2>4 DEF d
<1>8. CASE Going(w) /\ ~ Present(e) /\ w.free # {}
  <2>1. ~ (w.clobbers \/ w.panics)
    BY <1>8 DEF Going
  <2>2. d = [w EXCEPT !.mem = m, !.free = w.free \ {new}, !.at = new]
    BY <1>8, <2>1, Zenon DEF Descend
  <2>3. new \in w.free
    BY <1>8, NewFrameIsFree
  <2>4. new \in PoolFrames /\ new \in Nat /\ new # w.at /\ new \in Frames
    BY <1>1, <2>3 DEF Frames
  <2>5. NewTable(w.mem, m, w.at, x, new)
    <3> HIDE DEF new
    <3> DEFINE a == [w.mem EXCEPT ![new] = EmptyTable]
               b == Entry({"P", "RW"}, new)
    <3>1. b \in EntryValues /\ NotPresent \in EntryValues
      BY <2>4 DEF EntryValues, Entry, NotPresent
    <3>2. EmptyTable \in [Index -> EntryValues]
      BY <3>1 DEF EmptyTable
    <3>3. /\ a \in [Frames -> [Index -> EntryValues]] /\ a[new] = EmptyTable
          /\ \A g \in Frames : g # new => a[g] = w.mem[g]
      BY <1>1, <2>4, <3>2
    <3>4. m = [a EXCEPT ![w.at] = [a[w.at] EXCEPT ![x] = b]]
      OBVIOUS
    <3> HIDE DEF a, b, m
    <3> QED BY <1>1, <2>4, <3>1, <3>3, <3>4 DEF NewTable, b
  <2>6. m \in [Frames -> [Index -> EntryValues]]
    BY <2>5 DEF NewTable
  <2> HIDE DEF m, new
  <2>7. /\ d \in WalkRecord /\ d.clobbers = w.clobbers /\ d.panics = w.panics
        /\ d.mem = m /\ d.free = w.free \ {new} /\ d.at = new
    <3> HIDE DEF d
    <3> QED BY <1>1, <2>2, <2>4, <2>6 DEF WalkRecord
  <2> HIDE DEF d
  <2>8. Going(d)
    BY <1>8, <2>7 DEF Going
  <2> QED BY <1>8, <2>3, <2>5, <2>7, <2>8 DEF d
<1> QED BY <1>4, <1>5, <1>6, <1>7, <1>8

\* What the walk to v has kept when it is at level n: the bootloader's tables, all
\* translations, the tree, and its own place in it.
Sound(w, v, n) ==
  /\ w \in WalkRecord
  /\ \A f \in BootFrames : w.mem[f] = mem[f]
  /\ \A z \in AllVpages : Translate(w.mem, cr3, z) = Translate(mem, cr3, z)
  /\ \E level \in [PoolFrames \ w.free -> 1 .. 4] :
       /\ Tree(w.mem, PoolFrames \ w.free, cr3, {}, level)
       /\ OpenLinks(w.mem, Levels(PoolFrames \ w.free, level))
       /\ Going(w) => /\ w.at \in PoolFrames \ w.free /\ level[w.at] = n
                      /\ At(w.mem, cr3, v, n).kind = "table"
                      /\ At(w.mem, cr3, v, n).frame = w.at

\* The level that a walk records is the one it is on.
LEMMA AtLevel ==
  ASSUME NEW t, NEW sets, Closed(t, sets), NEW root \in sets[4], NEW v \in AllVpages,
         NEW n \in 1 .. 4, At(t, root, v, n).kind = "table"
  PROVE  At(t, root, v, n).level = n /\ At(t, root, v, n).frame \in sets[n]
<1>1. /\ On(sets, 4, W4(root)) /\ On(sets, 3, W3(t, root, v))
      /\ On(sets, 2, W2(t, root, v)) /\ On(sets, 1, W1(t, root, v))
  BY WalkStays
<1>2. CASE n = 4
  BY <1>1, <1>2 DEF At, On
<1>3. CASE n = 3
  BY <1>1, <1>3 DEF At, On
<1>4. CASE n = 2
  BY <1>1, <1>4 DEF At, On
<1>5. CASE n = 1
  BY <1>1, <1>5 DEF At, On
<1> QED BY <1>2, <1>3, <1>4, <1>5

\* A walk goes through an entry that is present and no huge page.
LEMMA StepThrough ==
  ASSUME NEW t, NEW at, NEW x, at.kind = "table", at.level \in 2 .. 4,
         Present(t[at.frame][x]), "PS" \notin t[at.frame][x].flags
  PROVE  /\ WalkStep(t, at, x).kind = "table"
         /\ WalkStep(t, at, x).frame = t[at.frame][x].address
<1> DEFINE e == t[at.frame][x]
           r == [kind   |-> IF at.level = 1 \/ (at.level < 4 /\ "PS" \in e.flags)
                            THEN "page" ELSE "table",
                 level  |-> at.level - 1,
                 frame  |-> e.address,
                 rights |-> at.rights \cap e.flags,
                 noexec |-> at.noexec \/ "XD" \in e.flags]
<1>1. WalkStep(t, at, x) = r
  BY StepPresent
<1>2. at.level # 1 /\ "PS" \notin e.flags
  OBVIOUS
<1>3. r.kind = "table" /\ r.frame = e.address
  BY <1>2
<1> HIDE DEF r, e
<1> QED BY <1>1, <1>3 DEF e

\* Each level of the walk of system_paging_entry keeps that.
LEMMA DescendSound ==
  ASSUME NEW w, NEW v \in AllVpages, NEW n \in 2 .. 4, Sound(w, v, n)
  PROVE  Sound(Descend(w, v[n]), v, n - 1)
<1> DEFINE d == Descend(w, v[n])
           x == v[n]
           f == w.at
           e == w.mem[f][x]
           F == PoolFrames \ w.free
<1>1. /\ w \in WalkRecord /\ x \in Index /\ n - 1 \in 1 .. 4 /\ n \in 1 .. 4
      /\ \A g \in BootFrames : w.mem[g] = mem[g]
      /\ \A z \in AllVpages : Translate(w.mem, cr3, z) = Translate(mem, cr3, z)
  BY DEF Sound, AllVpages
<1>2. PICK level \in [F -> 1 .. 4] :
        /\ Tree(w.mem, F, cr3, {}, level) /\ OpenLinks(w.mem, Levels(F, level))
        /\ Going(w) => /\ f \in F /\ level[f] = n
                       /\ At(w.mem, cr3, v, n).kind = "table" /\ At(w.mem, cr3, v, n).frame = f
  BY DEF Sound
<1>3. CASE ~ Going(w)
  <2>1. w.clobbers \/ w.panics
    BY <1>1, <1>3 DEF Going, WalkRecord
  <2>2. d = w
    BY <2>1, Zenon DEF Descend
  <2> QED BY <1>1, <1>2, <1>3, <2>2 DEF Sound
<1>4. CASE Going(w)
  <2>1. /\ f \in F /\ level[f] = n
        /\ At(w.mem, cr3, v, n).kind = "table" /\ At(w.mem, cr3, v, n).frame = f
    BY <1>2, <1>4
  <2>2. Closed(w.mem, Levels(F, level)) /\ cr3 \in Levels(F, level)[4]
    BY <1>2, TreeClosed
  <2>3. At(w.mem, cr3, v, n).level \in 2 .. 4
    <3>1. At(w.mem, cr3, v, n).level = n
      BY <1>1, <2>1, <2>2, AtLevel
    <3> QED BY <3>1
  <2>4. /\ d \in WalkRecord
        /\ \/ ~ Going(d) /\ d.mem = w.mem /\ d.free = w.free
           \/ /\ Going(d) /\ d.mem = w.mem /\ d.free = w.free
              /\ Present(e) /\ "PS" \notin e.flags /\ d.at = e.address
           \/ /\ Going(d) /\ ~ Present(e) /\ d.at \in w.free
              /\ d.free = w.free \ {d.at} /\ NewTable(w.mem, d.mem, f, x, d.at)
    BY <1>1, <1>4, <2>1, DescendCases
  <2> HIDE DEF d
  <2>5. CASE ~ Going(d) /\ d.mem = w.mem /\ d.free = w.free
    <3>1. Sound(d, v, n - 1)
      BY <1>1, <1>2, <2>4, <2>5 DEF Sound
    <3> QED BY <3>1 DEF d
  <2>6. CASE /\ Going(d) /\ d.mem = w.mem /\ d.free = w.free
             /\ Present(e) /\ "PS" \notin e.flags /\ d.at = e.address
    <3>1. IsLink(w.mem, level, {}, f, x)
      BY <2>1, <2>6 DEF IsLink, Visits
    <3>2. d.at \in F /\ level[d.at] = n - 1
      BY <1>1, <1>2, <2>1, <2>6, <3>1 DEF Tree
    <3>3. /\ At(w.mem, cr3, v, n - 1).kind = "table"
          /\ At(w.mem, cr3, v, n - 1).frame = d.at
      <4>1. At(w.mem, cr3, v, n - 1) = WalkStep(w.mem, At(w.mem, cr3, v, n), x)
        BY AtNext
      <4> QED BY <2>1, <2>3, <2>6, <4>1, StepThrough
    <3>4. Sound(d, v, n - 1)
      BY <1>1, <1>2, <2>4, <2>6, <3>2, <3>3 DEF Sound
    <3> QED BY <3>4 DEF d
  <2>7. CASE /\ Going(d) /\ ~ Present(e) /\ d.at \in w.free
             /\ d.free = w.free \ {d.at} /\ NewTable(w.mem, d.mem, f, x, d.at)
    <3> DEFINE t == w.mem
               u == d.mem
               new == d.at
               grown == Grown(level, F, new, n - 1)
    <3>1. /\ u[new] = EmptyTable /\ u[f][x] = Entry({"P", "RW"}, new)
          /\ \A y \in Index : y # x => u[f][y] = t[f][y]
          /\ \A g \in Frames : g # new /\ g # f => u[g] = t[g]
      BY <2>7 DEF NewTable
    <3>2. /\ w.free \subseteq PoolFrames /\ new \in PoolFrames /\ new \notin F /\ new # f
          /\ F \subseteq Frames /\ BootFrames \subseteq Frames /\ new \notin BootFrames
          /\ f \notin BootFrames /\ PoolFrames \ d.free = F \cup {new}
      BY <1>1, <2>1, <2>7, FramesAssumption DEF WalkRecord, Frames
    <3>3. /\ u[f][x].flags = {"P", "RW"} /\ u[f][x].address = new
          /\ \A y \in Index : u[new][y] = NotPresent
      BY <3>1 DEF Entry, EmptyTable
    <3>4. ~ Present(e) /\ ~ Present(NotPresent)
      BY <2>7 DEF Present, NotPresent, Entry
    <3> HIDE DEF u, t, new, F, e, f, x
    <3>5. Present(u[f][x]) /\ "PS" \notin u[f][x].flags /\ Visits(u[f][x], n) /\ Open(u[f][x])
      BY <3>3 DEF Visits, Present, Open
    <3>6. \A g \in F, y \in Index : g # f \/ y # x => u[g][y] = t[g][y]
      BY <3>1, <3>2
    <3>7. ~ Present(t[f][x])
      BY <3>4 DEF e, t
    <3>8. Enters(t, u, F, {}, {}, level, f, x, new, n - 1)
      <4>1. ~ IsLink(t, level, {}, f, x)
        BY <3>7 DEF IsLink, Visits
      <4>2. \A y \in Index : ~ Visits(u[new][y], n - 1)
        BY <3>3, <3>4 DEF Visits
      <4> QED BY <1>1, <2>1, <3>2, <3>3, <3>5, <3>6, <4>1, <4>2 DEF Enters
    <3>9. Tree(u, F \cup {new}, cr3, {}, grown)
      BY <1>2, <3>8, TreeGrows DEF t
    <3>10. /\ grown \in [F \cup {new} -> 1 .. 4] /\ grown[new] = n - 1
           /\ \A g \in F : grown[g] = level[g]
      BY <1>1, <3>2 DEF Grown
    <3> HIDE DEF grown
    <3>11. \A m \in 1 .. 4 : \A g \in Levels(F, level)[m] : g \in F /\ level[g] = m
      BY DEF Levels
    <3>12. Opens(t, u, Levels(F, level), f, x, n, new)
      <4>1. \A m \in 1 .. 4 : f \in Levels(F, level)[m] => m = n
        BY <2>1, <3>11
      <4>2. \A m \in 1 .. 4 : \A g \in Levels(F, level)[m], y \in Index :
              g # f \/ y # x => u[g][y] = t[g][y]
        BY <3>6, <3>11
      <4> QED BY <1>1, <3>1, <3>3, <3>7, <4>1, <4>2 DEF Opens
    <3>13. \A z \in AllVpages :
             /\ Translate(u, cr3, z) = Translate(t, cr3, z)
             /\ At(t, cr3, z, n).kind = "table" => At(u, cr3, z, n) = At(t, cr3, z, n)
      BY <1>1, <2>2, <3>12, OpenWalk DEF t
    <3>14. At(u, cr3, v, n - 1).kind = "table" /\ At(u, cr3, v, n - 1).frame = new
      <4>1. At(u, cr3, v, n) = At(t, cr3, v, n)
        BY <2>1, <3>13 DEF t
      <4>2. At(u, cr3, v, n - 1) = WalkStep(u, At(t, cr3, v, n), x)
        BY <4>1, AtNext DEF x
      <4>3. At(t, cr3, v, n).kind = "table" /\ At(t, cr3, v, n).frame = f /\ At(t, cr3, v, n).level \in 2 .. 4
        BY <2>1, <2>3 DEF t
      <4>4. WalkStep(u, At(t, cr3, v, n), x).kind = "table"
        BY <3>5, <4>3, StepThrough
      <4>5. WalkStep(u, At(t, cr3, v, n), x).frame = new
        BY <3>3, <3>5, <4>3, StepThrough
      <4> QED BY <4>2, <4>4, <4>5
    <3>15. OpenLinks(u, Levels(F \cup {new}, grown))
      <4>1. ASSUME BootTablesOpen, NEW m \in 2 .. 4, NEW g \in Levels(F \cup {new}, grown)[m],
                   NEW y \in Index, Visits(u[g][y], m)
            PROVE  Open(u[g][y])
        <5>1. g \in F \cup {new} /\ grown[g] = m
          BY DEF Levels
        <5>2. g # new
          BY <3>3, <3>4, <4>1 DEF Visits
        <5>3. CASE g = f /\ y = x
          BY <3>5, <5>3
        <5>4. CASE g # f \/ y # x
          <6>1. g \in F /\ level[g] = m /\ u[g][y] = t[g][y]
            BY <3>6, <3>10, <5>1, <5>2, <5>4
          <6>2. g \in Levels(F, level)[m]
            BY <6>1 DEF Levels
          <6> QED BY <1>2, <4>1, <6>1, <6>2 DEF OpenLinks, t
        <5> QED BY <5>3, <5>4
      <4> QED BY <4>1 DEF OpenLinks
    <3>16. \A g \in BootFrames : u[g] = mem[g]
      BY <1>1, <3>1, <3>2 DEF t
    <3>17. \A z \in AllVpages : Translate(u, cr3, z) = Translate(mem, cr3, z)
      BY <1>1, <3>13 DEF t
    <3>18. new \in PoolFrames \ d.free
      BY <3>2
    <3>19. Sound(d, v, n - 1)
      BY <2>4, <3>2, <3>9, <3>10, <3>14, <3>15, <3>16, <3>17, <3>18 DEF Sound, u, new
    <3> QED BY <3>19 DEF d
  <2> QED BY <2>4, <2>5, <2>6, <2>7
<1> QED BY <1>3, <1>4

\* So the whole walk keeps it.
LEMMA EntrySound ==
  ASSUME TablesInv, phase = "run", NEW v \in AllVpages
  PROVE  Sound(system_paging_entry(v), v, 1)
<1> DEFINE start == [mem |-> mem, free |-> free, at |-> cr3, clobbers |-> FALSE, panics |-> FALSE]
<1>1. TypeOK
  BY DEF TablesInv
<1>2. PICK level \in [Allocated -> 1 .. 4] :
        Tree(mem, Allocated, cr3, {}, level) /\ OpenLinks(mem, Levels(Allocated, level))
  BY DEF TablesInv, RunInv
<1>3. cr3 \in Allocated /\ level[cr3] = 4
  BY <1>2 DEF Tree
<1>4. /\ start \in WalkRecord /\ start.mem = mem /\ start.free = free /\ start.at = cr3
      /\ Allocated = PoolFrames \ free
  BY <1>1, <1>3, FramesAssumption DEF WalkRecord, TypeOK, Allocated
<1> HIDE DEF start
<1>5. At(mem, cr3, v, 4).kind = "table" /\ At(mem, cr3, v, 4).frame = cr3
  BY DEF At, W4
<1>6. Sound(start, v, 4)
  BY <1>2, <1>3, <1>4, <1>5 DEF Sound
<1>7. Sound(Descend(start, v[4]), v, 3)
  BY <1>6, DescendSound, 4 \in 2 .. 4, 4 - 1 = 3
<1>8. Sound(Descend(Descend(start, v[4]), v[3]), v, 2)
  BY <1>7, DescendSound, 3 \in 2 .. 4, 3 - 1 = 2
<1>9. Sound(Descend(Descend(Descend(start, v[4]), v[3]), v[2]), v, 1)
  BY <1>8, DescendSound, 2 \in 2 .. 4, 2 - 1 = 1
<1> QED BY <1>9 DEF system_paging_entry, start

-----------------------------------------------------------------------------
(* Mapping and unmapping: the entry in the page table                      *)

\* Two walks that meet came the same way: every table is entered once.
LEMMA MeetAbove ==
  ASSUME NEW t, NEW frames, NEW root, NEW level, Tree(t, frames, root, {}, level),
         NEW v \in AllVpages, NEW z \in AllVpages, NEW n \in 2 .. 4,
         At(t, root, v, n - 1).kind = "table", At(t, root, z, n - 1).kind = "table",
         At(t, root, v, n - 1).frame = At(t, root, z, n - 1).frame
  PROVE  /\ At(t, root, v, n).kind = "table" /\ At(t, root, z, n).kind = "table"
         /\ At(t, root, v, n).frame = At(t, root, z, n).frame /\ v[n] = z[n]
<1>1. Closed(t, Levels(frames, level)) /\ root \in Levels(frames, level)[4]
  BY TreeClosed
<1>2. ASSUME NEW a \in AllVpages, At(t, root, a, n - 1).kind = "table"
      PROVE  /\ At(t, root, a, n).kind = "table" /\ a[n] \in Index
             /\ At(t, root, a, n).frame \in frames
             /\ IsLink(t, level, {}, At(t, root, a, n).frame, a[n])
             /\ At(t, root, a, n - 1).frame = t[At(t, root, a, n).frame][a[n]].address
  <2> DEFINE at == At(t, root, a, n)
  <2>1. At(t, root, a, n - 1) = WalkStep(t, at, a[n])
    BY AtNext
  <2>2. a[n] \in Index /\ n \in 1 .. 4
    BY DEF AllVpages
  <2> HIDE DEF at
  <2>3. at.kind = "table"
    BY <1>2, <2>1, StepEnded
  <2>4. at.level = n /\ at.frame \in Levels(frames, level)[n]
    BY <1>1, <2>2, <2>3, AtLevel DEF at
  <2>5. at.frame \in frames /\ level[at.frame] = n
    BY <2>2, <2>4 DEF Levels
  <2>6. /\ Visits(t[at.frame][a[n]], at.level)
        /\ WalkStep(t, at, a[n]).frame = t[at.frame][a[n]].address
    BY <1>2, <2>1, <2>2, <2>3, <2>4, StepDown
  <2>7. IsLink(t, level, {}, at.frame, a[n])
    BY <2>4, <2>5, <2>6 DEF IsLink
  <2> QED BY <2>1, <2>2, <2>3, <2>5, <2>6, <2>7 DEF at
<1> DEFINE f == At(t, root, v, n).frame
           g == At(t, root, z, n).frame
<1>3. /\ f \in frames /\ g \in frames /\ v[n] \in Index /\ z[n] \in Index
      /\ IsLink(t, level, {}, f, v[n]) /\ IsLink(t, level, {}, g, z[n])
      /\ t[f][v[n]].address = t[g][z[n]].address
      /\ At(t, root, v, n).kind = "table" /\ At(t, root, z, n).kind = "table"
  BY <1>2
<1> HIDE DEF f, g
<1>4. f = g /\ v[n] = z[n]
  BY <1>3 DEF Tree
<1> QED BY <1>3, <1>4 DEF f, g

\* So walks to different pages of one page table use different entries of it.
LEMMA PathUnique ==
  ASSUME NEW t, NEW frames, NEW root, NEW level, Tree(t, frames, root, {}, level),
         NEW v \in AllVpages, NEW z \in AllVpages,
         At(t, root, v, 1).kind = "table", At(t, root, z, 1).kind = "table",
         At(t, root, v, 1).frame = At(t, root, z, 1).frame, v[1] = z[1]
  PROVE  v = z
<1>1. /\ At(t, root, v, 2).kind = "table" /\ At(t, root, z, 2).kind = "table"
      /\ At(t, root, v, 2).frame = At(t, root, z, 2).frame /\ v[2] = z[2]
  BY MeetAbove, 2 \in 2 .. 4, 2 - 1 = 1
<1>2. /\ At(t, root, v, 3).kind = "table" /\ At(t, root, z, 3).kind = "table"
      /\ At(t, root, v, 3).frame = At(t, root, z, 3).frame /\ v[3] = z[3]
  BY <1>1, MeetAbove, 3 \in 2 .. 4, 3 - 1 = 2
<1>3. v[4] = z[4]
  BY <1>2, MeetAbove, 4 \in 2 .. 4, 4 - 1 = 3
<1>4. \A n \in 1 .. 4 : v[n] = z[n]
  BY <1>1, <1>2, <1>3
<1> QED BY <1>4 DEF AllVpages

\* Only the entries above the page tables matter for the tree.
LEMMA TreeSame ==
  ASSUME NEW t, NEW u, NEW frames, NEW root, NEW pend, NEW level,
         Tree(t, frames, root, pend, level),
         \A g \in frames, y \in Index : level[g] >= 2 => u[g][y] = t[g][y]
  PROVE  Tree(u, frames, root, pend, level)
<1> DEFINE J(g, y) == IsLink(t, level, pend, g, y)
           K(g, y) == IsLink(u, level, pend, g, y)
<1>1. /\ level \in [frames -> 1 .. 4] /\ root \in frames /\ level[root] = 4
      /\ \A g \in frames, y \in Index :
           J(g, y) => t[g][y].address \in frames /\ level[t[g][y].address] = level[g] - 1
      /\ \A g, h \in frames, y, z \in Index :
           J(g, y) /\ J(h, z) /\ t[g][y].address = t[h][z].address => g = h /\ y = z
      /\ \A h \in frames \ {root} : \E g \in frames, y \in Index :
           J(g, y) /\ t[g][y].address = h
  BY DEF Tree
<1>2. \A g \in frames, y \in Index : (J(g, y) <=> K(g, y)) /\ (J(g, y) => u[g][y] = t[g][y])
  BY DEF IsLink
<1> HIDE DEF J, K
<1>3. /\ \A g \in frames, y \in Index :
           K(g, y) => u[g][y].address \in frames /\ level[u[g][y].address] = level[g] - 1
      /\ \A g, h \in frames, y, z \in Index :
           K(g, y) /\ K(h, z) /\ u[g][y].address = u[h][z].address => g = h /\ y = z
    BY <1>1, <1>2
<1>4. ASSUME NEW h \in frames \ {root}
      PROVE  \E g \in frames, y \in Index : K(g, y) /\ u[g][y].address = h
  <2>1. PICK g \in frames, y \in Index : J(g, y) /\ t[g][y].address = h
    BY <1>1
  <2>2. K(g, y) /\ u[g][y] = t[g][y]
    BY <1>2, <2>1
  <2> QED BY <2>1, <2>2
<1> QED BY <1>1, <1>3, <1>4 DEF Tree, K

\* Entry x of the page table f is written.
Writes(t, u, frames, level, f, x) ==
  /\ f \in frames /\ level[f] = 1
  /\ \A g \in frames, y \in Index : g # f \/ y # x => u[g][y] = t[g][y]

\* All walks are as before down to their page table, and there too but for the
\* page whose entry it is.
LEMMA LeafWalk ==
  ASSUME NEW t, NEW u, NEW frames, NEW root, NEW level, Tree(t, frames, root, {}, level),
         NEW f, NEW v \in AllVpages, Writes(t, u, frames, level, f, v[1]),
         At(t, root, v, 1).kind = "table", At(t, root, v, 1).frame = f, NEW z \in AllVpages
  PROVE  /\ Translate(u, root, z) = WalkStep(u, At(t, root, z, 1), z[1])
         /\ z # v => Translate(u, root, z) = Translate(t, root, z)
<1>1. Closed(t, Levels(frames, level)) /\ root \in Levels(frames, level)[4]
  BY TreeClosed
<1>2. z[1] \in Index /\ z[2] \in Index /\ z[3] \in Index /\ z[4] \in Index
  BY DEF AllVpages
<1>3. /\ f \in frames /\ level[f] = 1
      /\ \A g \in frames, y \in Index : g # f \/ y # v[1] => u[g][y] = t[g][y]
  BY DEF Writes
<1>4. \A n \in 1 .. 4 : \A g \in Levels(frames, level)[n] : g \in frames /\ level[g] = n
  BY DEF Levels
<1>5. ASSUME NEW n \in 2 .. 4, NEW at, On(Levels(frames, level), n, at), NEW y \in Index
      PROVE  WalkStep(u, at, y) = WalkStep(t, at, y)
  <2>1. at.kind = "table" => u[at.frame][y] = t[at.frame][y]
    BY <1>3, <1>4, <1>5 DEF On
  <2> QED BY <2>1, StepSame
<1>6. /\ On(Levels(frames, level), 4, W4(root)) /\ On(Levels(frames, level), 3, W3(t, root, z))
      /\ On(Levels(frames, level), 2, W2(t, root, z)) /\ On(Levels(frames, level), 1, W1(t, root, z))
  BY <1>1, WalkStays
<1>7. W3(u, root, z) = W3(t, root, z)
  BY <1>2, <1>5, <1>6, 4 \in 2 .. 4 DEF W3
<1>8. W2(u, root, z) = W2(t, root, z)
  BY <1>2, <1>5, <1>6, <1>7, 3 \in 2 .. 4 DEF W2
<1>9. W1(u, root, z) = W1(t, root, z)
  BY <1>2, <1>5, <1>6, <1>8, 2 \in 2 .. 4 DEF W1
<1>10. At(t, root, z, 1) = W1(t, root, z)
  BY DEF At
<1>11. Translate(u, root, z) = WalkStep(u, At(t, root, z, 1), z[1])
  BY <1>9, <1>10, TranslateSteps
<1>12. ASSUME z # v
       PROVE  Translate(u, root, z) = Translate(t, root, z)
  <2> DEFINE at == At(t, root, z, 1)
  <2>1. at.kind = "table" => at.frame # f \/ z[1] # v[1]
    BY <1>12, PathUnique
  <2>2. at.kind = "table" => at.frame \in frames
    BY <1>4, <1>6, <1>10, 1 \in 1 .. 4 DEF On
  <2> HIDE DEF at
  <2>3. at.kind = "table" => u[at.frame][z[1]] = t[at.frame][z[1]]
    BY <1>2, <1>3, <2>1, <2>2
  <2>4. WalkStep(u, at, z[1]) = WalkStep(t, at, z[1])
    BY <2>3, StepSame
  <2> QED BY <1>10, <1>11, <2>4, TranslateSteps DEF at
<1> QED BY <1>11, <1>12

\* Through open links a walk keeps the right to write and to execute.
LEMMA OpenRights ==
  ASSUME NEW t, NEW sets, Closed(t, sets), OpenLinks(t, sets), BootTablesOpen,
         NEW root \in sets[4], NEW v \in AllVpages, At(t, root, v, 1).kind = "table"
  PROVE  "RW" \in At(t, root, v, 1).rights /\ At(t, root, v, 1).noexec = FALSE
<1>1. ASSUME NEW n \in 2 .. 4, At(t, root, v, n - 1).kind = "table",
             At(t, root, v, n).kind = "table" =>
               "RW" \in At(t, root, v, n).rights /\ At(t, root, v, n).noexec = FALSE
      PROVE  "RW" \in At(t, root, v, n - 1).rights /\ At(t, root, v, n - 1).noexec = FALSE
  <2> DEFINE at == At(t, root, v, n)
             e  == t[at.frame][v[n]]
             r == [kind   |-> IF at.level = 1 \/ (at.level < 4 /\ "PS" \in e.flags)
                              THEN "page" ELSE "table",
                   level  |-> at.level - 1,
                   frame  |-> e.address,
                   rights |-> at.rights \cap e.flags,
                   noexec |-> at.noexec \/ "XD" \in e.flags]
  <2>1. At(t, root, v, n - 1) = WalkStep(t, at, v[n]) /\ v[n] \in Index /\ n \in 1 .. 4
    BY AtNext DEF AllVpages
  <2>2. at.kind = "table"
    <3> HIDE DEF at
    <3> QED BY <1>1, <2>1, StepEnded
  <2>3. at.level = n /\ at.frame \in sets[n]
    BY <2>1, <2>2, AtLevel
  <2>4. Visits(e, at.level)
    BY <1>1, <2>1, <2>2, <2>3, StepDown
  <2>5. Present(e)
    BY <2>4 DEF Visits
  <2>6. Open(e)
    BY <2>1, <2>3, <2>4 DEF OpenLinks
  <2>7. WalkStep(t, at, v[n]) = r
    BY <2>2, <2>5, StepPresent
  <2>8. "RW" \in at.rights /\ at.noexec = FALSE
    BY <1>1, <2>2
  <2>9. r.rights = at.rights \cap e.flags /\ r.noexec = (at.noexec \/ "XD" \in e.flags)
    BY Zenon
  <2> HIDE DEF r, at, e
  <2>10. "RW" \in r.rights
    BY <2>6, <2>8, <2>9 DEF Open
  <2>11. r.noexec = FALSE
    <3>1. (at.noexec \/ "XD" \in e.flags) = FALSE
      BY <2>6, <2>8, Zenon DEF Open
    <3> QED BY <2>9, <3>1, Zenon
  <2> QED BY <2>1, <2>7, <2>10, <2>11
<1>2. "RW" \in At(t, root, v, 4).rights /\ At(t, root, v, 4).noexec = FALSE
  BY DEF At, W4
<1>3. At(t, root, v, 3).kind = "table" =>
        "RW" \in At(t, root, v, 3).rights /\ At(t, root, v, 3).noexec = FALSE
  BY <1>1, <1>2, 4 \in 2 .. 4, 4 - 1 = 3
<1>4. At(t, root, v, 2).kind = "table" =>
        "RW" \in At(t, root, v, 2).rights /\ At(t, root, v, 2).noexec = FALSE
  BY <1>1, <1>3, 3 \in 2 .. 4, 3 - 1 = 2
<1> QED BY <1>1, <1>4, 2 \in 2 .. 4, 2 - 1 = 1

\* system_paging_map and system_paging_unmap: what they keep, and the entry that
\* the walk to v reads afterwards.
LEMMA SetEntryInv ==
  ASSUME TablesInv, NEW v \in Vpages, NEW entry \in EntryValues, SetEntry(v, entry)
  PROVE  /\ TablesInv' /\ cr3' = cr3 /\ \A f \in BootFrames : mem'[f] = mem[f]
         /\ phase' = "run" =>
              /\ OthersKept(v)
              /\ \E at : /\ at.kind = "table" /\ at.level = 1
                         /\ BootTablesOpen => "RW" \in at.rights /\ at.noexec = FALSE
                         /\ mem'[at.frame][v[1]] = entry
                         /\ Translate(mem', cr3', v) = WalkStep(mem', at, v[1])
<1> DEFINE w == system_paging_entry(v)
           F == PoolFrames \ w.free
<1>1. /\ phase = "run" /\ free' = w.free /\ UNCHANGED <<cr3, copy, todo>>
      /\ w.clobbers \/ w.panics => /\ phase' = IF w.clobbers THEN "clobbered" ELSE "halted"
                                   /\ mem' = w.mem /\ UNCHANGED tlb
      /\ ~ (w.clobbers \/ w.panics) => /\ mem' = [w.mem EXCEPT ![w.at][v[1]] = entry]
                                       /\ tlb' = invlpg(tlb, v) /\ UNCHANGED phase
  BY DEF SetEntry
<1>2. v \in AllVpages /\ v[1] \in Index
  BY EntriesAssumption DEF AllVpages
<1>3. TypeOK /\ todo \in Seq(Places) /\ TlbCoherent
  BY DEF TablesInv
<1>4. Sound(w, v, 1)
  BY <1>1, <1>2, EntrySound
<1> HIDE DEF w
<1>5. /\ w \in WalkRecord /\ w.mem \in [Frames -> [Index -> EntryValues]]
      /\ w.free \subseteq PoolFrames /\ w.clobbers \in BOOLEAN /\ w.panics \in BOOLEAN
      /\ \A f \in BootFrames : w.mem[f] = mem[f]
      /\ \A z \in AllVpages : Translate(w.mem, cr3, z) = Translate(mem, cr3, z)
  BY <1>4 DEF Sound, WalkRecord
<1>6. CASE w.clobbers = TRUE \/ w.panics = TRUE
  <2>1. mem' = w.mem /\ tlb' = tlb /\ phase' \in {"clobbered", "halted"}
    BY <1>1, <1>6
  <2>2. TypeOK' /\ todo' \in Seq(Places)
    BY <1>1, <1>3, <1>5, <2>1 DEF TypeOK
  <2>3. phase' # "run" /\ phase' # "boot" /\ phase' # "clone"
    BY <2>1
  <2>4. BootInv' /\ CloneInv' /\ RunInv' /\ TlbCoherent'
    BY <2>3 DEF BootInv, CloneInv, RunInv, TlbCoherent
  <2> QED BY <1>1, <1>5, <2>1, <2>2, <2>3, <2>4 DEF TablesInv
<1>7. CASE Going(w)
  <2>1. ~ (w.clobbers \/ w.panics)
    BY <1>7 DEF Going
  <2>2. /\ mem' = [w.mem EXCEPT ![w.at][v[1]] = entry] /\ tlb' = invlpg(tlb, v)
        /\ phase' = "run" /\ cr3' = cr3
    BY <1>1, <2>1
  <2>3. PICK level \in [F -> 1 .. 4] :
          /\ Tree(w.mem, F, cr3, {}, level) /\ OpenLinks(w.mem, Levels(F, level))
          /\ w.at \in F /\ level[w.at] = 1
          /\ At(w.mem, cr3, v, 1).kind = "table" /\ At(w.mem, cr3, v, 1).frame = w.at
    BY <1>4, <1>7 DEF Sound
  <2>4. /\ w.at \in Frames /\ w.at \notin BootFrames /\ F \subseteq Frames
        /\ BootFrames \subseteq Frames /\ Allocated' = F
    BY <1>1, <2>3, FramesAssumption DEF Frames, Allocated
  <2>5. /\ mem' \in [Frames -> [Index -> EntryValues]] /\ mem'[w.at][v[1]] = entry
        /\ \A g \in Frames, y \in Index : g # w.at \/ y # v[1] => mem'[g][y] = w.mem[g][y]
        /\ \A g \in Frames : g # w.at => mem'[g] = w.mem[g]
    BY <1>2, <1>5, <2>2, <2>4
  <2>6. \A f \in BootFrames : mem'[f] = mem[f]
    BY <1>5, <2>4, <2>5
  <2>7. Writes(w.mem, mem', F, level, w.at, v[1])
    BY <2>3, <2>4, <2>5 DEF Writes
  <2>8. Tree(mem', F, cr3, {}, level)
    <3>1. \A g \in F, y \in Index : level[g] >= 2 => mem'[g][y] = w.mem[g][y]
      BY <2>3, <2>4, <2>5
    <3> QED BY <2>3, <3>1, TreeSame
  <2>9. OpenLinks(mem', Levels(F, level))
    <3>1. ASSUME NEW m \in 2 .. 4, NEW g \in Levels(F, level)[m], NEW y \in Index
          PROVE  mem'[g][y] = w.mem[g][y]
      <4>1. m \in 1 .. 4
        OBVIOUS
      <4>2. g \in F /\ level[g] = m
        BY <4>1 DEF Levels
      <4>3. g # w.at /\ g \in Frames
        BY <2>3, <2>4, <4>2
      <4> QED BY <2>5, <4>3
    <3> QED BY <2>3, <3>1 DEF OpenLinks
  <2>10. \A z \in AllVpages :
           /\ Translate(mem', cr3, z) = WalkStep(mem', At(w.mem, cr3, z, 1), z[1])
           /\ z # v => Translate(mem', cr3, z) = Translate(w.mem, cr3, z)
    BY <1>2, <2>3, <2>7, LeafWalk
  <2>11. OthersKept(v)
    BY <1>5, <2>2, <2>10 DEF OthersKept
  <2>12. TypeOK' /\ todo' \in Seq(Places)
    <3>1. DOMAIN tlb' \subseteq DOMAIN tlb
      BY <2>2 DEF invlpg
    <3> QED BY <1>1, <1>3, <1>5, <2>2, <2>5, <3>1 DEF TypeOK
  <2>13. RunInv'
    BY <2>2, <2>3, <2>4, <2>8, <2>9 DEF RunInv
  <2>14. TlbCoherent'
    <3>1. DOMAIN tlb' = DOMAIN tlb \ {v} /\ \A z \in DOMAIN tlb \ {v} : tlb'[z] = tlb[z]
      BY <2>2 DEF invlpg
    <3>2. \A z \in DOMAIN tlb : z \in AllVpages /\ tlb[z] = Translate(mem, cr3, z)
      BY <1>1, <1>3, EntriesAssumption DEF TypeOK, TlbCoherent
    <3> QED BY <2>11, <3>1, <3>2 DEF TlbCoherent, OthersKept
  <2> DEFINE at == At(w.mem, cr3, v, 1)
  <2>15. /\ at.kind = "table" /\ at.level = 1 /\ at.frame = w.at
         /\ BootTablesOpen => "RW" \in at.rights /\ at.noexec = FALSE
    <3>1. Closed(w.mem, Levels(F, level)) /\ cr3 \in Levels(F, level)[4]
      BY <2>3, TreeClosed
    <3>2. at.level = 1
      BY <1>2, <2>3, <3>1, AtLevel, 1 \in 1 .. 4
    <3>3. BootTablesOpen => "RW" \in at.rights /\ at.noexec = FALSE
      BY <1>2, <2>3, <3>1, OpenRights
    <3> QED BY <2>3, <3>2, <3>3
  <2>16. Translate(mem', cr3', v) = WalkStep(mem', at, v[1])
    BY <1>2, <2>2, <2>10
  <2> HIDE DEF at
  <2>17. /\ TablesInv'
         /\ cr3' = cr3
    BY <2>2, <2>12, <2>13, <2>14 DEF TablesInv, BootInv, CloneInv
  <2>18. mem'[at.frame][v[1]] = entry
    BY <2>5, <2>15
  <2> QED BY <2>6, <2>11, <2>15, <2>16, <2>17, <2>18
<1> QED BY <1>5, <1>6, <1>7 DEF Going

-----------------------------------------------------------------------------
(* Theorems                                                                *)

\* The entries that are written are entries.
LEMMA WrittenEntries ==
  /\ NotPresent \in EntryValues
  /\ \A physical \in Physicals, flags \in FlagSets :
       Entry({"P"} \cup system_paging_amd64_flag_convert(flags), physical) \in EntryValues
<1>1. NotPresent \in EntryValues
  BY DEF NotPresent, Entry, EntryValues
<1>2. ASSUME NEW physical \in Physicals, NEW flags \in FlagSets
      PROVE  Entry({"P"} \cup system_paging_amd64_flag_convert(flags), physical) \in EntryValues
  <2>1. system_paging_amd64_flag_convert(flags) \subseteq {"RW", "US", "XD"}
    BY DEF system_paging_amd64_flag_convert
  <2>2. {"P"} \cup system_paging_amd64_flag_convert(flags) \in SUBSET {"P", "RW", "US", "PS", "XD"}
    BY <2>1
  <2>3. physical \in Nat
    BY FramesAssumption
  <2> QED BY <2>2, <2>3 DEF Entry, EntryValues
<1> QED BY <1>1, <1>2

\* Every step keeps the inductive invariant and the bootloader's tables.
LEMMA NextInv ==
  ASSUME TablesInv, [Next]_vars
  PROVE  TablesInv' /\ (\A f \in BootFrames : mem'[f] = mem[f])
         /\ (cr3' # cr3 => \A v \in AllVpages : Translate(mem', cr3', v) = Translate(mem, cr3, v))
<1>1. CASE CloneBegin
  <2>1. TablesInv' /\ cr3' = cr3
    BY <1>1, CloneBeginInv DEF CloneBegin, ClonePanics
  <2>2. \A f \in BootFrames : mem'[f] = mem[f]
    <3>1. CASE free = {}
      BY <1>1, <3>1 DEF CloneBegin, ClonePanics
    <3>2. CASE free # {}
      <4>1. /\ NewFrame(free) \notin BootFrames
            /\ mem' = [mem EXCEPT ![NewFrame(free)] = mem[cr3]]
            /\ BootFrames \subseteq DOMAIN mem
        BY <1>1, <3>2, NewFrameIsFree, FramesAssumption
           DEF CloneBegin, system_paging_page_clone, TablesInv, TypeOK, Frames
      <4> QED BY <4>1
    <3> QED BY <3>1, <3>2
  <2> QED BY <2>1, <2>2
<1>2. CASE CloneSkips
  BY <1>2, CloneSkipsInv DEF CloneSkips
<1>3. CASE CloneEntry
  <2>1. TablesInv' /\ cr3' = cr3
    BY <1>3, CloneEntryInv DEF CloneEntry, ClonePanics
  <2>2. \A f \in BootFrames : mem'[f] = mem[f]
    <3> DEFINE f   == Head(todo).frame
               x   == Head(todo).index
               new == NewFrame(free)
    <3>1. CASE free = {}
      BY <1>3, <3>1 DEF CloneEntry, ClonePanics
    <3>2. CASE free # {}
      <4>1. mem' = [[mem EXCEPT ![new] = mem[mem[f][x].address]] EXCEPT ![f][x].address = new]
        BY <1>3, <3>2 DEF CloneEntry, system_paging_page_clone
      <4>2. new \notin BootFrames /\ BootFrames \subseteq DOMAIN mem
        BY <3>2, NewFrameIsFree, FramesAssumption DEF TablesInv, TypeOK, Frames
      <4>3. f \notin BootFrames
        <5>1. todo \in Seq(Places) /\ todo # <<>>
          BY <1>3 DEF TablesInv, CloneEntry
        <5>2. Head(todo) \in Places
          BY <5>1, TailOfPlaces
        <5> QED BY <5>2, FramesAssumption DEF Places
      <4> HIDE DEF f, x, new
      <4> QED BY <4>1, <4>2, <4>3
    <3> QED BY <3>1, <3>2
  <2> QED BY <2>1, <2>2
<1>4. CASE CloneDone
  BY <1>4, CloneDoneInv DEF CloneDone
<1>5. ASSUME NEW v \in Vpages, NEW physical \in Physicals, NEW flags \in FlagSets,
             system_paging_map(v, physical, flags)
      PROVE  TablesInv' /\ cr3' = cr3 /\ \A f \in BootFrames : mem'[f] = mem[f]
  <2> DEFINE entry == Entry({"P"} \cup system_paging_amd64_flag_convert(flags), physical)
  <2>1. entry \in EntryValues /\ SetEntry(v, entry)
    BY <1>5, WrittenEntries DEF system_paging_map
  <2> HIDE DEF entry
  <2> QED BY <2>1, SetEntryInv
<1>6. ASSUME NEW v \in Vpages, system_paging_unmap(v)
      PROVE  TablesInv' /\ cr3' = cr3 /\ \A f \in BootFrames : mem'[f] = mem[f]
  <2>1. NotPresent \in EntryValues /\ SetEntry(v, NotPresent)
    BY <1>6, WrittenEntries DEF system_paging_unmap
  <2> QED BY <2>1, SetEntryInv
<1>7. ASSUME NEW v \in Vpages, CpuAccess(v)
      PROVE  TablesInv' /\ cr3' = cr3 /\ \A f \in BootFrames : mem'[f] = mem[f]
  BY <1>7, CpuAccessInv DEF CpuAccess
<1>8. CASE UNCHANGED vars
  <2>1. UNCHANGED <<mem, free, cr3, phase, copy, todo, tlb>>
    BY <1>8 DEF vars
  <2>2. Allocated' = Allocated /\ Pending' = Pending
    BY <2>1 DEF Allocated, Pending
  <2>3. TypeOK' /\ todo' \in Seq(Places) /\ TlbCoherent'
    BY <2>1 DEF TablesInv, TypeOK, TlbCoherent
  <2>4. BootInv'
    BY <2>1 DEF TablesInv, BootInv, BootLevels
  <2>5. CloneInv'
    BY <2>1, <2>2 DEF TablesInv, CloneInv, BootLevels, TodoInv, Mixed
  <2>6. RunInv'
    BY <2>1, <2>2 DEF TablesInv, RunInv
  <2> QED BY <2>1, <2>3, <2>4, <2>5, <2>6 DEF TablesInv
<1> QED BY <1>1, <1>2, <1>3, <1>4, <1>5, <1>6, <1>7, <1>8 DEF Next, Cloning, Stopped

\* The inductive invariant holds in every reachable state.
THEOREM TablesInvHolds == Spec => []TablesInv
<1>1. Init => TablesInv
  BY InitInv
<1>2. TablesInv /\ [Next]_vars => TablesInv'
  BY NextInv
<1> QED BY <1>1, <1>2, PTL DEF Spec

\* Type correctness.
THEOREM TypeCorrect == Spec => []TypeOK
<1>1. TablesInv => TypeOK
  BY DEF TablesInv
<1> QED BY <1>1, TablesInvHolds, PTL

\* The CPU never uses a translation that the tables no longer hold: invlpg of the
\* one page is enough after an update, and no flush is needed at the switch.
THEOREM NoStaleTranslation == Spec => []TlbCoherent
<1>1. TablesInv => TlbCoherent
  BY DEF TablesInv
<1> QED BY <1>1, TablesInvHolds, PTL

\* Neither the clone nor a mapping writes to the bootloader's tables.
THEOREM BootTablesAreKept == Spec => BootTablesUntouched
<1>1. TablesInv /\ [Next]_vars => [\A frame \in BootFrames : mem'[frame] = mem[frame]]_vars
  BY NextInv
<1> QED BY <1>1, TablesInvHolds, PTL DEF Spec, BootTablesUntouched

\* Writing cr3 changes no translation.
THEOREM SwitchIsTransparent == Spec => SwitchKeepsTranslations
<1>1. TablesInv /\ [Next]_vars =>
        [cr3' # cr3 =>
           \A v \in AllVpages : Translate(mem', cr3', v) = Translate(mem, cr3, v)]_vars
  BY NextInv
<1> QED BY <1>1, TablesInvHolds, PTL DEF Spec, SwitchKeepsTranslations

\* The links that leave a level of the tree lead to the whole of the next one.
LEMMA LevelBelow ==
  ASSUME NEW t, NEW frames, NEW root, NEW level, Tree(t, frames, root, {}, level), NEW n \in 2 .. 4
  PROVE  /\ Below(t, Levels(frames, level)[n], n) = Levels(frames, level)[n - 1]
         /\ \A link : link \in Links(t, Levels(frames, level)[n], n) <=>
              /\ link \in frames \X Index
              /\ IsLink(t, level, {}, link[1], link[2]) /\ level[link[1]] = n
<1>1. /\ level \in [frames -> 1 .. 4] /\ root \in frames /\ level[root] = 4
      /\ \A f \in frames, x \in Index : IsLink(t, level, {}, f, x) =>
           t[f][x].address \in frames /\ level[t[f][x].address] = level[f] - 1
      /\ \A g \in frames \ {root} : \E f \in frames, x \in Index :
           IsLink(t, level, {}, f, x) /\ t[f][x].address = g
  BY DEF Tree
<1>2. /\ Levels(frames, level)[n] = {f \in frames : level[f] = n}
      /\ Levels(frames, level)[n - 1] = {f \in frames : level[f] = n - 1}
  <2>1. n \in 1 .. 4 /\ n - 1 \in 1 .. 4
    OBVIOUS
  <2> QED BY <2>1 DEF Levels
<1> DEFINE links == Links(t, Levels(frames, level)[n], n)
<1>3. ASSUME NEW link
      PROVE  link \in links <=> /\ link \in frames \X Index
                                /\ IsLink(t, level, {}, link[1], link[2]) /\ level[link[1]] = n
  <2>1. link \in links <=> /\ link \in Levels(frames, level)[n] \X Index
                           /\ Visits(t[link[1]][link[2]], n)
    BY DEF Links
  <2>2. link \in Levels(frames, level)[n] \X Index <=> link \in frames \X Index /\ level[link[1]] = n
    BY <1>2
  <2> QED BY <2>1, <2>2 DEF IsLink
<1>4. ASSUME NEW g \in Below(t, Levels(frames, level)[n], n)
      PROVE  g \in Levels(frames, level)[n - 1]
  <2>1. PICK link \in links : g = t[link[1]][link[2]].address
    BY DEF Below, Targets
  <2>2. /\ link[1] \in frames /\ link[2] \in Index /\ IsLink(t, level, {}, link[1], link[2])
        /\ level[link[1]] = n
    BY <1>3
  <2>3. g \in frames /\ level[g] = n - 1
    BY <1>1, <2>1, <2>2
  <2> QED BY <1>2, <2>3
<1>5. ASSUME NEW g \in Levels(frames, level)[n - 1]
      PROVE  g \in Below(t, Levels(frames, level)[n], n)
  <2>1. g \in frames /\ level[g] = n - 1 /\ g # root
    BY <1>1, <1>2
  <2>2. PICK f \in frames, x \in Index : IsLink(t, level, {}, f, x) /\ t[f][x].address = g
    BY <1>1, <2>1
  <2>3. level[f] - 1 = n - 1 /\ level[f] \in 1 .. 4
    BY <1>1, <2>1, <2>2
  <2>4. level[f] = n
    BY <2>3
  <2>5. f \in Levels(frames, level)[n] /\ Visits(t[f][x], n)
    BY <1>2, <2>2, <2>4 DEF IsLink
  <2> QED BY <2>2, <2>5, BelowHas
<1> QED BY <1>3, <1>4, <1>5

\* Every table but the root has one entry that leads to it, so a finite tree has
\* one link less than it has tables.
LEMMA TreeCount ==
  ASSUME NEW t, NEW frames, NEW root, NEW level, Tree(t, frames, root, {}, level),
         IsFiniteSet(frames), NEW links,
         \A link : link \in links <=>
           link \in frames \X Index /\ IsLink(t, level, {}, link[1], link[2])
  PROVE  /\ Targets(t, links) = frames \ {root}
         /\ Cardinality(links) + 1 = Cardinality(frames)
<1>1. /\ level \in [frames -> 1 .. 4] /\ root \in frames /\ level[root] = 4
      /\ \A f \in frames, x \in Index : IsLink(t, level, {}, f, x) =>
           t[f][x].address \in frames /\ level[t[f][x].address] = level[f] - 1
      /\ \A f, g \in frames, x, y \in Index :
           /\ IsLink(t, level, {}, f, x) /\ IsLink(t, level, {}, g, y)
           /\ t[f][x].address = t[g][y].address
           => f = g /\ x = y
      /\ \A g \in frames \ {root} : \E f \in frames, x \in Index :
           IsLink(t, level, {}, f, x) /\ t[f][x].address = g
  BY DEF Tree
<1> DEFINE to(link) == t[link[1]][link[2]].address
           S == frames \ {root}
<1>2. \A link \in links : to(link) \in S
  <2>1. ASSUME NEW link \in links
        PROVE  to(link) \in S
    <3>1. link[1] \in frames /\ link[2] \in Index /\ IsLink(t, level, {}, link[1], link[2])
      OBVIOUS
    <3>2. to(link) \in frames /\ level[to(link)] = level[link[1]] - 1 /\ level[link[1]] \in 1 .. 4
      BY <1>1, <3>1
    <3>3. level[to(link)] # 4
      BY <3>2
    <3> QED BY <1>1, <3>2, <3>3
  <2> QED BY <2>1
<1>3. \A g \in S : \E link \in links : to(link) = g
  <2>1. ASSUME NEW g \in S
        PROVE  \E link \in links : to(link) = g
    <3>1. PICK f \in frames, x \in Index : IsLink(t, level, {}, f, x) /\ t[f][x].address = g
      BY <1>1
    <3> DEFINE link == <<f, x>>
    <3>2. link \in frames \X Index /\ link[1] = f /\ link[2] = x
      OBVIOUS
    <3> HIDE DEF link
    <3>3. link \in links /\ to(link) = g
      BY <3>1, <3>2
    <3> QED BY <3>3
  <2> QED BY <2>1
<1>4. \A a, b \in links : to(a) = to(b) => a = b
  <2>1. ASSUME NEW a \in links, NEW b \in links, to(a) = to(b)
        PROVE  a = b
    <3>1. /\ a \in frames \X Index /\ b \in frames \X Index
          /\ IsLink(t, level, {}, a[1], a[2]) /\ IsLink(t, level, {}, b[1], b[2])
      OBVIOUS
    <3>2. a[1] = b[1] /\ a[2] = b[2]
      BY <1>1, <2>1, <3>1
    <3> QED BY <3>1, <3>2
  <2> QED BY <2>1
<1>5. Targets(t, links) = S
  BY <1>2, <1>3 DEF Targets
<1> HIDE DEF to
<1> DEFINE from == [g \in S |-> CHOOSE link \in links : to(link) = g]
<1>6. \A g \in S : from[g] \in links /\ to(from[g]) = g
  BY <1>3
<1>7. from \in [S -> links]
  BY <1>6
<1> HIDE DEF from
<1>8. from \in Bijection(S, links)
  <2>1. \A a, b \in S : from[a] = from[b] => a = b
    BY <1>6
  <2>2. \A link \in links : \E g \in S : from[g] = link
    BY <1>2, <1>4, <1>6
  <2>3. IsInjective(from)
    BY <1>7, <2>1 DEF IsInjective
  <2> QED BY <1>7, <2>2, <2>3 DEF Bijection, Injection, Surjection
<1>9. IsFiniteSet(S) /\ Cardinality(S) = Cardinality(frames) - 1
  BY <1>1, FS_RemoveElement
<1>10. Cardinality(links) = Cardinality(S)
  BY <1>8, <1>9, FS_Bijection DEF ExistsBijection
<1>11. Cardinality(frames) \in Nat
  BY FS_CardinalityType
<1> QED BY <1>5, <1>9, <1>10, <1>11

\* On its own tables the kernel's tables form a tree of exactly the allocated
\* frames.
THEOREM TablesAreATree == Spec => []TablesFormTree
<1>1. ASSUME TablesInv, phase = "run"
      PROVE  TablesFormTree
  <2>1. PICK level \in [Allocated -> 1 .. 4] : Tree(mem, Allocated, cr3, {}, level)
    BY <1>1 DEF TablesInv, RunInv
  <2> DEFINE L(n)  == Levels(Allocated, level)[n]
             pdpts == Links(mem, {cr3}, 4)
             pds   == Links(mem, Targets(mem, pdpts), 3)
             pts   == Links(mem, Targets(mem, pds), 2)
             links == pdpts \cup pds \cup pts
  <2>2. /\ level \in [Allocated -> 1 .. 4] /\ cr3 \in Allocated /\ level[cr3] = 4
        /\ \A f \in Allocated, x \in Index : IsLink(mem, level, {}, f, x) =>
             mem[f][x].address \in Allocated /\ level[mem[f][x].address] = level[f] - 1
        /\ \A g \in Allocated \ {cr3} : \E f \in Allocated, x \in Index :
             IsLink(mem, level, {}, f, x) /\ mem[f][x].address = g
    BY <2>1 DEF Tree
  <2>3. \A n \in 1 .. 4 : L(n) = {f \in Allocated : level[f] = n}
    BY DEF Levels
  <2>4. L(4) = {cr3}
    <3>1. ASSUME NEW g \in Allocated, g # cr3
          PROVE  level[g] # 4
      <4>1. PICK f \in Allocated, x \in Index : IsLink(mem, level, {}, f, x) /\ mem[f][x].address = g
        BY <2>2, <3>1
      <4>2. level[g] = level[f] - 1 /\ level[f] \in 1 .. 4
        BY <2>2, <4>1
      <4> QED BY <4>2
    <3> QED BY <2>2, <2>3, <3>1
  <2>5. Targets(mem, pdpts) = L(3)
    <3>1. Below(mem, L(4), 4) = L(3)
      BY <2>1, LevelBelow, 4 \in 2 .. 4, 4 - 1 = 3
    <3> HIDE DEF L
    <3> QED BY <2>4, <3>1 DEF Below
  <2>6. Targets(mem, pds) = L(2)
    BY <2>1, <2>5, LevelBelow, 3 \in 2 .. 4, 3 - 1 = 2 DEF Below
  <2>7. L(3) \subseteq PoolFrames /\ L(2) \subseteq PoolFrames
    BY <2>3 DEF Allocated
  <2>8. /\ \A link : link \in pdpts <=>
             /\ link \in Allocated \X Index
             /\ IsLink(mem, level, {}, link[1], link[2]) /\ level[link[1]] = 4
        /\ \A link : link \in pds <=>
             /\ link \in Allocated \X Index
             /\ IsLink(mem, level, {}, link[1], link[2]) /\ level[link[1]] = 3
        /\ \A link : link \in pts <=>
             /\ link \in Allocated \X Index
             /\ IsLink(mem, level, {}, link[1], link[2]) /\ level[link[1]] = 2
    <3>1. pdpts = Links(mem, L(4), 4) /\ pds = Links(mem, L(3), 3) /\ pts = Links(mem, L(2), 2)
      BY <2>4, <2>5, <2>6
    <3> HIDE DEF pdpts, pds, pts
    <3> QED BY <2>1, <3>1, LevelBelow, 4 \in 2 .. 4, 3 \in 2 .. 4, 2 \in 2 .. 4
  <2> HIDE DEF pdpts, pds, pts
  <2>9. ASSUME NEW link
        PROVE  link \in links <=>
                 link \in Allocated \X Index /\ IsLink(mem, level, {}, link[1], link[2])
    <3>1. link \in Allocated \X Index /\ IsLink(mem, level, {}, link[1], link[2]) =>
            level[link[1]] = 2 \/ level[link[1]] = 3 \/ level[link[1]] = 4
      <4>1. ASSUME link \in Allocated \X Index, IsLink(mem, level, {}, link[1], link[2])
            PROVE  level[link[1]] = 2 \/ level[link[1]] = 3 \/ level[link[1]] = 4
        <5>1. level[link[1]] \in 1 .. 4 /\ level[link[1]] >= 2
          BY <2>2, <4>1 DEF IsLink
        <5> QED BY <5>1
      <4> QED BY <4>1
    <3> QED BY <2>8, <3>1
  <2>10. IsFiniteSet(Allocated)
    BY FramesAssumption, FS_Subset DEF Allocated
  <2>11. Targets(mem, links) = Allocated \ {cr3} /\ Cardinality(links) + 1 = Cardinality(Allocated)
    <3> HIDE DEF links
    <3> QED BY <2>1, <2>9, <2>10, TreeCount
  <2>12. {cr3} \cup Targets(mem, links) = PoolFrames \ free
    BY <2>2, <2>11 DEF Allocated
  <2> QED BY <2>5, <2>6, <2>7, <2>11, <2>12 DEF TablesFormTree, Allocated, pdpts, pds, pts
<1>2. TablesInv => TablesFormTree
  BY <1>1 DEF TablesFormTree
<1> QED BY <1>2, TablesInvHolds, PTL

\* Mapping and unmapping a page changes its translation as asked and no other,
\* when the bootloader's upper entries take no rights away.
THEOREM UpdatesAreLocal ==
  ASSUME BootTablesOpen
  PROVE  Spec => UpdatesOnlyItsPage
<1>1. ASSUME TablesInv, phase' = "run", NEW v \in Vpages, NEW physical \in Physicals,
             NEW flags \in FlagSets, system_paging_map(v, physical, flags)
      PROVE  LET found == Translate(mem', cr3', v)
             IN  /\ found.kind = "page" /\ found.frame = physical
                 /\ "RW" \in found.rights <=> "WRITE" \in flags
                 /\ "US" \in found.rights => "USER" \in flags
                 /\ found.noexec <=> "EXEC" \notin flags
                 /\ OthersKept(v)
  <2> DEFINE entry == Entry({"P"} \cup system_paging_amd64_flag_convert(flags), physical)
  <2>1. entry \in EntryValues /\ SetEntry(v, entry)
    BY <1>1, WrittenEntries DEF system_paging_map
  <2>2. entry.address = physical /\ entry.flags = {"P"} \cup system_paging_amd64_flag_convert(flags)
    BY DEF Entry
  <2> HIDE DEF entry
  <2>3. /\ Present(entry)
        /\ "RW" \in entry.flags <=> "WRITE" \in flags
        /\ "US" \in entry.flags <=> "USER" \in flags
        /\ "XD" \in entry.flags <=> "EXEC" \notin flags
    BY <2>2 DEF Present, system_paging_amd64_flag_convert
  <2>4. OthersKept(v)
    BY <1>1, <2>1, SetEntryInv
  <2>5. PICK at : /\ at.kind = "table" /\ at.level = 1
                  /\ "RW" \in at.rights /\ at.noexec = FALSE
                  /\ mem'[at.frame][v[1]] = entry
                  /\ Translate(mem', cr3', v) = WalkStep(mem', at, v[1])
    <3>1. \E at : /\ at.kind = "table" /\ at.level = 1
                  /\ BootTablesOpen => "RW" \in at.rights /\ at.noexec = FALSE
                  /\ mem'[at.frame][v[1]] = entry
                  /\ Translate(mem', cr3', v) = WalkStep(mem', at, v[1])
      BY <1>1, <2>1, SetEntryInv, Zenon
    <3> QED BY <3>1
  <2> DEFINE r == [kind   |-> IF at.level = 1 \/ (at.level < 4 /\ "PS" \in entry.flags)
                              THEN "page" ELSE "table",
                   level  |-> at.level - 1,
                   frame  |-> entry.address,
                   rights |-> at.rights \cap entry.flags,
                   noexec |-> at.noexec \/ "XD" \in entry.flags]
  <2>6. Translate(mem', cr3', v) = r
    <3>1. Present(mem'[at.frame][v[1]])
      BY <2>3, <2>5
    <3> QED BY <2>5, <3>1, StepPresent
  <2>7. r.kind = "page" /\ r.frame = entry.address
    BY <2>5
  <2>8. r.rights = at.rights \cap entry.flags /\ r.noexec = (at.noexec \/ "XD" \in entry.flags)
    BY Zenon
  <2> HIDE DEF r
  <2>9. "RW" \in r.rights <=> "WRITE" \in flags
    BY <2>3, <2>5, <2>8
  <2>10. "US" \in r.rights => "USER" \in flags
    BY <2>3, <2>8
  <2>11. r.noexec <=> "EXEC" \notin flags
    BY <2>3, <2>5, <2>8, Zenon
  <2> QED BY <2>2, <2>4, <2>6, <2>7, <2>9, <2>10, <2>11
<1>2. ASSUME TablesInv, phase' = "run", NEW v \in Vpages, system_paging_unmap(v)
      PROVE  Translate(mem', cr3', v) = Unmapped /\ OthersKept(v)
  <2>1. NotPresent \in EntryValues /\ SetEntry(v, NotPresent) /\ ~ Present(NotPresent)
    BY <1>2, WrittenEntries DEF system_paging_unmap, Present, NotPresent, Entry
  <2>2. OthersKept(v)
    BY <1>2, <2>1, SetEntryInv
  <2>3. PICK at : /\ at.kind = "table" /\ mem'[at.frame][v[1]] = NotPresent
                  /\ Translate(mem', cr3', v) = WalkStep(mem', at, v[1])
    <3>1. \E at : /\ at.kind = "table" /\ at.level = 1
                  /\ BootTablesOpen => "RW" \in at.rights /\ at.noexec = FALSE
                  /\ mem'[at.frame][v[1]] = NotPresent
                  /\ Translate(mem', cr3', v) = WalkStep(mem', at, v[1])
      BY <1>2, <2>1, SetEntryInv, Zenon
    <3> QED BY <3>1
  <2> QED BY <2>1, <2>2, <2>3, StepAbsent
<1>3. TablesInv =>
        [phase = "run" /\ phase' = "run" =>
           \A v \in Vpages :
             /\ \A physical \in Physicals, flags \in FlagSets :
                  system_paging_map(v, physical, flags) =>
                    LET found == Translate(mem', cr3', v)
                    IN  /\ found.kind = "page" /\ found.frame = physical
                        /\ "RW" \in found.rights <=> "WRITE" \in flags
                        /\ "US" \in found.rights => "USER" \in flags
                        /\ found.noexec <=> "EXEC" \notin flags
                        /\ OthersKept(v)
             /\ system_paging_unmap(v) =>
                  Translate(mem', cr3', v) = Unmapped /\ OthersKept(v)]_vars
  BY <1>1, <1>2, Zenon
<1> QED BY <1>3, TablesInvHolds, PTL DEF UpdatesOnlyItsPage

=============================================================================
