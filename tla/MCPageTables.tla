---------------------------- MODULE MCPageTables ----------------------------
(***************************************************************************)
(* Tables of two entries for TLC, with huge pages at both of the levels    *)
(* that may have them, and a pool that runs dry in the middle of a walk.   *)
(***************************************************************************)
EXTENDS PageTables

Table(x, y) == [index \in Index |-> IF index = 0 THEN x ELSE y]

\* One half of the address space: a pdpt with a 1 GiB page, a pd with a 2 MiB
\* page, and a page table.
OneHalf ==
  [root |-> 1,
   mem  |-> << Table(Entry({"P", "RW", "US"}, 2), NotPresent),
               Table(Entry({"P", "RW", "US"}, 3), Entry({"P", "RW", "PS"}, 200)),
               Table(Entry({"P", "RW", "US"}, 4), Entry({"P", "PS", "XD"}, 210)),
               Table(Entry({"P", "RW"}, 220), NotPresent),
               EmptyTable >>]

\* The other half in use too, all of it by a 1 GiB page.
BothHalves ==
  [root |-> 1,
   mem  |-> [OneHalf.mem EXCEPT ![1][1] = Entry({"P", "RW", "US"}, 5),
                                ![5]    = Table(Entry({"P", "RW", "PS"}, 230), NotPresent)]]

\* Both halves through the same tables; the copy must not share them.
Aliased == [OneHalf EXCEPT !.mem[1][1] = Entry({"P", "RW", "US"}, 2)]

\* Tables shared on every level: their copy takes more frames than there are.
TooMany ==
  [Aliased EXCEPT !.mem[2][1] = Entry({"P", "RW"}, 3), !.mem[3][1] = Entry({"P", "RW"}, 4)]

MCBootTables == {OneHalf, BothHalves, Aliased, TooMany}
MCBootFrames == 1 .. 5
MCPoolFrames == 11 .. 18

\* A page with a page table, one that needs three new tables, one that shares
\* only the first of these, one below the 2 MiB page.
MCVpages == {<<0, 0, 0, 0>>, <<1, 0, 0, 0>>, <<1, 0, 0, 1>>, <<0, 0, 1, 1>>, <<0, 1, 0, 0>>}

MCFlagSets == {{"WRITE"}, {"EXEC", "USER"}}

=============================================================================
