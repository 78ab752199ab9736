-------------------------- MODULE MCPhysicalMemory --------------------------
(***************************************************************************)
(* Memory maps for TLC.  Pages are 128 bytes, enough for the metadata of a *)
(* small region; the 16 MiB zone is 8 pages long, the 4 GiB zone 16.       *)
(***************************************************************************)
EXTENDS PhysicalMemory

Pages(first_page, count, is_usable) ==
  [base |-> first_page * SYSTEM_PAGE_SIZE, length |-> count * SYSTEM_PAGE_SIZE,
   usable |-> is_usable]

\* A region in each zone, with a reserved entry and one too small to use.
ThreeZones ==
  <<Pages(0, 3, TRUE), Pages(3, 1, FALSE), Pages(4, 1, TRUE),
    Pages(9, 3, TRUE), Pages(17, 3, TRUE)>>

\* Regions that lie across the limits of the zones, and a reserved tail.
Straddling ==
  <<Pages(1, 2, TRUE), Pages(6, 3, TRUE), Pages(15, 3, TRUE), Pages(20, 1, FALSE)>>

\* Regions that end exactly at the limits, next to each other.
AtTheLimits ==
  <<Pages(1, 3, TRUE), Pages(5, 3, TRUE), Pages(8, 2, TRUE), Pages(13, 3, TRUE)>>

\* All memory below 16 MiB.
OnlyLow == <<Pages(0, 3, TRUE), Pages(4, 3, TRUE)>>

\* No region that is large enough to use lies wholly below 16 MiB.
NoLow == <<Pages(0, 1, TRUE), Pages(7, 3, TRUE)>>

AllMaps == {ThreeZones, Straddling, AtTheLimits, OnlyLow, NoLow}

OneNoLow == {NoLow}

OneThreeZones == {ThreeZones}

=============================================================================
