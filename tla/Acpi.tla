-------------------------------- MODULE Acpi --------------------------------
(***************************************************************************)
(* system_acpi.c: the root pointer that the bootloader hands over, the     *)
(* checksums, the choice between the old and the extended root table, and  *)
(* the access to the root table's entries.  The firmware is the            *)
(* environment: its structures may have any checksum and any length.       *)
(***************************************************************************)
EXTENDS Kernel

CONSTANTS
  Firmwares,   \* what may lie in memory: see FirmwareWith
  MaxItem      \* items asked for are at most this

\* Revision, sums and lengths are unsigned numbers.
Firmware ==
  [revision : Nat, rsdp_sum : Nat, xsdp_sum : Nat,
   sdt : [{"rsdt", "xsdt"} -> [length : Nat, sum : Nat]]]

ASSUME AcpiConstants == MaxItem \in Nat /\ Firmwares \subseteq Firmware

VARIABLES
  firmware,     \* the structures in memory
  system_acpi,  \* what the setup has found
  got           \* the last access to an entry

None == [item |-> -1, from |-> 0, size |-> 0]

\* No descriptor yet: rsdp is NULL.
Unset == [rsdp |-> FALSE, use_extended |-> FALSE, sdt |-> "none"]

\* Revision and sums of the root pointer, sums of the bytes of both tables, and
\* the length in their headers.
FirmwareWith(revision, rsdp_sum, xsdp_sum, rsdt_sum, xsdt_sum, length) ==
  [revision |-> revision, rsdp_sum |-> rsdp_sum, xsdp_sum |-> xsdp_sum,
   sdt |-> [rsdt |-> [length |-> length, sum |-> rsdt_sum],
            xsdt |-> [length |-> length, sum |-> xsdt_sum]]]

\* The sum of the bytes, in a U32, without its upper bits.
system_acpi_validate(sum) == sum % 256 = 0

\* As many bytes as the header says; of none the sum is 0.
system_acpi_sdt_validate(sdt) == system_acpi_validate(IF sdt.length = 0 THEN 0 ELSE sdt.sum)

\* sdt_address
ChosenTable(f) == IF f.revision = 2 THEN "xsdt" ELSE "rsdt"

\* The checksum of the first twenty bytes, that of the extended structure, and
\* that of the table.
ChecksPass(f) ==
  /\ system_acpi_validate(f.rsdp_sum)
  /\ f.revision = 2 => system_acpi_validate(f.xsdp_sum)
  /\ system_acpi_sdt_validate(f.sdt[ChosenTable(f)])

system_acpi_setup ==
  /\ pc = "acpi"
  /\ firmware' \in Firmwares
  /\ IF {"rsdp", "hhdm"} \subseteq answered /\ ChecksPass(firmware')
     THEN /\ system_acpi' = [rsdp |-> TRUE, use_extended |-> firmware'.revision = 2,
                             sdt |-> ChosenTable(firmware')]
          /\ GoTo("pic")
     ELSE UNCHANGED system_acpi /\ hcf
  /\ UNCHANGED got

-----------------------------------------------------------------------------
(* Access to the entries                                                   *)

\* sizeof(System_Acpi_Sdt_Header): the struct has one byte for oem_table_id.
HEADER_SIZE == 4 + 4 + 1 + 1 + 6 + 1 + 4 + 4 + 4

EntrySize == IF system_acpi.use_extended THEN 8 ELSE 4

\* Division in C drops the fraction, so that it rounds negative numbers up.
Quotient(a, b) == IF a < 0 THEN -((-a) \div b) ELSE a \div b

\* Bug variant: the length minus an unsigned sizeof wraps around.
CountUnsigned == ((firmware.sdt[system_acpi.sdt].length - HEADER_SIZE) % 65536) \div EntrySize

system_acpi_sdt_count ==
  Quotient(firmware.sdt[system_acpi.sdt].length - HEADER_SIZE, EntrySize)

EntryAt(item) == HEADER_SIZE + item * EntrySize

\* Without a setup, or out of range, the assertions stop the kernel.  Nothing calls
\* it yet: here it is called before the setup, or after the rest of the boot.
system_acpi_sdt_get(item) ==
  /\ pc \in {"acpi", "spin"}
  /\ IF system_acpi.rsdp /\ item \in 0 .. system_acpi_sdt_count - 1
     THEN /\ got' = [item |-> item, from |-> EntryAt(item), size |-> EntrySize]
          /\ UNCHANGED pc
     ELSE hcf /\ UNCHANGED got
  /\ UNCHANGED <<firmware, system_acpi>>

AcpiInit ==
  /\ firmware = FirmwareWith(0, 0, 0, 0, 0, 0)
  /\ system_acpi = Unset
  /\ got = None

-----------------------------------------------------------------------------
(* Correctness properties                                                  *)

\* No access to an entry reads past the end of the table, not even where its length
\* is shorter than a header; and what it reads has been checked: the root pointer,
\* its extension if that led to the table, and the very table.
ReadsInsideCheckedTable ==
  got # None =>
    LET sdt == firmware.sdt[system_acpi.sdt]
    IN  /\ got.from + got.size <= sdt.length
        /\ sdt.sum % 256 = 0 /\ firmware.rsdp_sum % 256 = 0
        /\ system_acpi.sdt = "xsdt" => firmware.revision = 2 /\ firmware.xsdp_sum % 256 = 0

\* The header of a table as the ACPI specification has it: 36 bytes.
FirmwareHeaderSize == 36

\* "kassert(0 <= item && item < item_count)" lets only items of the table through.
AssertedItemsExist ==
  got # None => FirmwareHeaderSize + (got.item + 1) * got.size
                  <= firmware.sdt[system_acpi.sdt].length

=============================================================================
