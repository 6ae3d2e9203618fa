--------------------------- MODULE DeviceIdentity ---------------------------
(***************************************************************************)
(* How hardware detection names a device (hwdetect.rs, inventory.rs): what *)
(* it reads from the uevent file and, failing that, from the modalias.     *)
(*                                                                         *)
(* A modalias is a text whose characters are a bus ("pci:"), a letter that *)
(* marks a field, a group of four hexadecimal digits, or "name" for        *)
(* anything else.  A line of a uevent file is [key, value], with key None  *)
(* where it is blank, a comment or no pair.                                *)
(***************************************************************************)
EXTENDS HardwareMatching, Common

BUS_SUBSYSTEMS == {"pci", "usb", "virtio", "i2c", "spi", "sdio"}

validate_bus_type(bus) ==
  bus \in {"pci", "usb", "hid", "virtio", "acpi", "platform", "sdio", "i2c", "spi", "thunderbolt"}

\* HardwareId::validate
HardwareIdValid(id) ==
  << >> \notin {id.modalias, id.vendor, id.device} /\ validate_bus_type(id.bus)

\* UeventData::parse: the last pair of a key counts.
UeventParse(lines) ==
  LET pairs == filter(lines, {l \in Range(lines) : l.key # None})
  IN  [key \in {pairs[i].key : i \in DOMAIN pairs} |->
         pairs[SelectLastInSeq(pairs, LAMBDA p : p.key = key)].value]

UeventGet(pairs, key) == IF key \in DOMAIN pairs THEN pairs[key] ELSE None

\* The parts of a modalias that are not four hexadecimal digits.
Marks == {"pci:", "usb:", "virtio:", "i2c:", "spi:", "sdio:", "c00", "name", "v", "d", "p"}
IsGroup(part) == part \notin Marks

\* The first part with a letter in it, and the group behind it.
Holding == [v |-> {"v", "virtio:"}, p |-> {"p", "pci:", "spi:"}]

AfterLetter(modalias, letter) ==
  LET k == SelectInSeq(modalias, LAMBDA part : part \in Holding[letter])
  IN  IF k \in {0, Len(modalias)} \/ modalias[k] # letter \/ ~IsGroup(modalias[k + 1])
      THEN None ELSE <<"0x", modalias[k + 1]>>

extract_vendor_from_modalias(modalias) ==
  LET k == find_subslice(modalias, <<"v", "0000">>)
  IN  IF k = -1 THEN AfterLetter(modalias, "v")
      ELSE IF Len(modalias) > k + 2 /\ IsGroup(modalias[k + 3]) THEN <<"0x", modalias[k + 3]>>
      ELSE <<"0x", "0000">>

extract_device_from_modalias(modalias) ==
  LET k == find_subslice(modalias, <<"d", "0000">>)
  IN  IF k = -1 THEN AfterLetter(modalias, "p")
      ELSE IF Len(modalias) > k + 2 THEN <<"0x", modalias[k + 3]>> ELSE None

\* What the uevent file says comes first, even if it is empty.
Identifier(said, extracted) ==
  IF said # None THEN said ELSE IF extracted # None THEN extracted ELSE <<"unknown">>

\* SysfsReader::read_device; None for a directory that is left out.
read_device(directory, bus) ==
  LET pairs == UeventParse(directory.uevent)
      id == [modalias |-> directory.modalias,
             vendor |-> Identifier(UeventGet(pairs, "VENDOR_ID"),
                                   extract_vendor_from_modalias(directory.modalias)),
             device |-> Identifier(UeventGet(pairs, "DEVICE_ID"),
                                   extract_device_from_modalias(directory.modalias)),
             bus |-> bus]
  IN  IF directory.modalias = << >> \/ ~HardwareIdValid(id) THEN None
      ELSE [id |-> id, driver |-> directory.driver, operational |-> directory.driver # None]

-----------------------------------------------------------------------------
(***************************************************************************)
(* The modalias the kernel gives to a device.                              *)
(***************************************************************************)
KernelModalias(bus, vendor, device, revision) ==
  IF bus = "pci" THEN <<"pci:", "v", "0000", vendor, "d", "0000", device, "name">>
  ELSE IF bus = "usb" THEN <<"usb:", "v", vendor, "p", device, "d", revision, "dc09", "name">>
  ELSE IF bus = "virtio" THEN <<"virtio:", "d", "0000", device, "v", "0000", vendor>>
  ELSE IF bus = "sdio" THEN <<"sdio:", "c00", "v", vendor, "d", device>>
  ELSE IF bus = "spi" THEN <<"spi:", "name">> ELSE <<"i2c:", "name">>

(***************************************************************************)
(* A device of the buses that are enumerated is left out only if its       *)
(* uevent file has an empty identifier.  What is extracted from a modalias *)
(* is the device's own and finds the drivers that name it: except that a   *)
(* USB device of revision 0000 gets its class for an identifier and an     *)
(* SDIO device gets none, and that the buses whose modalias is a name have *)
(* neither (hwdetect.rs:202, 424, 454).                                    *)
(***************************************************************************)
IdentityIsOwn(bus, vendor, device, revision, uevent, driver) ==
  LET modalias == KernelModalias(bus, vendor, device, revision)
      pairs    == UeventParse(uevent)
      read     == read_device([modalias |-> modalias, uevent |-> uevent, driver |-> driver], bus)
      silent   == {"VENDOR_ID", "DEVICE_ID"} \cap DOMAIN pairs = {}
  IN  /\ read = None
           <=> \E key \in {"VENDOR_ID", "DEVICE_ID"} : UeventGet(pairs, key) = << >>
      /\ read # None /\ silent /\ bus \notin {"i2c", "spi"} =>
           /\ read.id.vendor = <<"0x", vendor>>
           /\ read.id.device = IF bus = "sdio" THEN <<"unknown">>
                               ELSE IF bus = "usb" /\ revision = "0000" THEN <<"0x", "dc09">>
                               ELSE <<"0x", device>>
           /\ bus # "sdio" => check_vendor_device_match([patterns |-> {modalias}], read.id)
=============================================================================
