------------------------------- MODULE MCBoot -------------------------------
(***************************************************************************)
(* Stubs in the higher half, the second one behind a carry into the next   *)
(* word; firmware with lengths around those of the two headers and of one  *)
(* and two entries, with an old revision and with each checksum wrong.     *)
(***************************************************************************)
EXTENDS Boot

MCStubs == {<<65520, 32768, 65535, 65535>>}

MCFirmwares ==
  {FirmwareWith(revision, 0, 256, 256, 0, length) :
     revision \in {0, 2}, length \in {0, 28, 29, 33, 36, 48}}
  \cup {FirmwareWith(2, 7, 0, 0, 0, 48), FirmwareWith(2, 0, 7, 0, 0, 48)}
  \cup {FirmwareWith(1, 0, 7, 0, 255, 44), FirmwareWith(0, 0, 0, 255, 0, 48)}

\* Tables of zero to three whole entries.
WholeFirmwares ==
  {FirmwareWith(revision, 0, 0, 0, 0, length) : revision \in {0, 2}, length \in {36, 44, 52, 60}}

=============================================================================
