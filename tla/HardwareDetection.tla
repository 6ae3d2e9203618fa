------------------------- MODULE HardwareDetection -------------------------
(***************************************************************************)
(* How the inventory's device list follows the machine: the poll task asks *)
(* UdevMonitor::poll_events, which compares the modification time of each  *)
(* bus directory of sysfs, in whole seconds, with the one it saw last, and *)
(* rescans if one has moved; ScanHardware calls rescan when they like.  A  *)
(* scan reads one bus after the other while devices come and go.           *)
(*                                                                         *)
(* A device list keeps, of each device, whether its matched_drivers were   *)
(* filled in.  The clock stops at MaxNow, ScanHardware is called MaxScans  *)
(* times (the bounds of the model).                                        *)
(***************************************************************************)
EXTENDS Naturals, SequencesExt

CONSTANTS
  BUS_SUBSYSTEMS, \* the buses, in the order they are read
  Absent,         \* buses that have no directory in sysfs
  Devices,
  Bus,            \* the bus of each device
  Supported,      \* devices some built-in driver matches
  MayFail,        \* reading a bus directory may fail
  AutoDetect,     \* config.inventory.auto_detect_on_start
  MaxNow,
  MaxScans

Buses    == ToSet(BUS_SUBSYSTEMS)
BusCount == Len(BUS_SUBSYSTEMS)

ASSUME BusesAssumption ==
  /\ BUS_SUBSYSTEMS \in Seq(STRING)
  /\ IsInjective(BUS_SUBSYSTEMS)

ASSUME DevicesAssumption ==
  /\ Bus \in [Devices -> Buses \ Absent]
  /\ Supported \subseteq Devices
  /\ MayFail \in BOOLEAN /\ AutoDetect \in BOOLEAN
  /\ MaxNow \in Nat \ {0} /\ MaxScans \in Nat

VARIABLES
  now,       \* the second it is
  present,   \* devices in sysfs
  mtime,     \* modification time of each bus directory, in seconds
  last_poll, \* UdevMonitor.last_poll
  unseen,    \* history: buses whose last change did not move a time seen before
  poll,      \* where the poll task is
  next,      \* the bus it inspects next
  events,    \* whether it has events
  lock,      \* who holds the scanner mutex
  reading,   \* the bus its holder reads next
  found,     \* the devices it has found
  scans,     \* ScanHardware calls so far
  listed,    \* inventory.devices
  matched    \* devices whose matched_drivers are filled in

machine   == <<now, present, mtime, unseen>>
monitor   == <<last_poll, poll, next, events>>
scan      == <<lock, reading, found, scans>>
inventory == <<listed, matched>>
vars == <<machine, monitor, scan, inventory>>

On(b) == {x \in Devices : Bus[x] = b}

Init ==
  /\ now = 1
  /\ present \in SUBSET Devices
  /\ mtime = [b \in Buses |-> 1]
  /\ last_poll = [b \in Buses |-> 0]
  /\ unseen = {}
  /\ poll = "idle" /\ next = 1 /\ events = FALSE
  /\ lock = "free" /\ reading = 1 /\ found = {} /\ scans = 0
  /\ listed = IF AutoDetect THEN present ELSE {}
  /\ matched = listed \cap Supported

-----------------------------------------------------------------------------
Tick ==
  /\ now < MaxNow
  /\ now' = now + 1
  /\ UNCHANGED <<present, mtime, unseen, monitor, scan, inventory>>

\* A device is plugged in or pulled out; its bus directory is modified.
Hotplug(x) ==
  /\ present' = IF x \in present THEN present \ {x} ELSE present \cup {x}
  /\ mtime' = [mtime EXCEPT ![Bus[x]] = now]
  /\ unseen' = IF last_poll[Bus[x]] = now THEN unseen \cup {Bus[x]}
                                         ELSE unseen \ {Bus[x]}
  /\ UNCHANGED <<now, monitor, scan, inventory>>

\* The poll task's interval ends: poll_events begins.
StartPoll ==
  /\ poll = "idle"
  /\ poll' = "polling"
  /\ next' = 1
  /\ events' = FALSE
  /\ UNCHANGED <<last_poll, machine, scan, inventory>>

MutInspectNow ==
  /\ poll = "polling" /\ next <= BusCount
  /\ LET b == BUS_SUBSYSTEMS[next]
     IN IF b \in Absent
        THEN UNCHANGED <<last_poll, events>>
        ELSE /\ \E read \in {TRUE, ~MayFail} :
                  events' = (events \/ (mtime[b] > last_poll[b] /\ read))
             /\ last_poll' = [last_poll EXCEPT ![b] = now]
  /\ next' = next + 1
  /\ UNCHANGED <<poll, machine, scan, inventory>>

MutInspectForgets ==
  /\ poll = "polling" /\ next <= BusCount
  /\ LET b == BUS_SUBSYSTEMS[next]
     IN IF b \in Absent
        THEN UNCHANGED <<last_poll, events>>
        ELSE /\ \E read \in {TRUE, ~MayFail} :
                  events' = (mtime[b] > last_poll[b] /\ read)
             /\ last_poll' = [last_poll EXCEPT ![b] = mtime[b]]
  /\ next' = next + 1
  /\ UNCHANGED <<poll, machine, scan, inventory>>

\* One bus of poll_events: an event if its time moved and the bus can be read.
\* The time is remembered in either case.
Inspect ==
  /\ poll = "polling" /\ next <= BusCount
  /\ LET b == BUS_SUBSYSTEMS[next]
     IN IF b \in Absent
        THEN UNCHANGED <<last_poll, events>>
        ELSE /\ \E read \in {TRUE, ~MayFail} :
                  events' = (events \/ (mtime[b] > last_poll[b] /\ read))
             /\ last_poll' = [last_poll EXCEPT ![b] = mtime[b]]
  /\ next' = next + 1
  /\ UNCHANGED <<poll, machine, scan, inventory>>

MutEndPoll ==
  /\ poll = "polling" /\ next > BusCount
  /\ poll' = IF events /\ lock = "free" THEN "rescan" ELSE "idle"
  /\ UNCHANGED <<last_poll, next, events, machine, scan, inventory>>

\* With events the poll task goes on to lock the scanner.
EndPoll ==
  /\ poll = "polling" /\ next > BusCount
  /\ poll' = IF events THEN "rescan" ELSE "idle"
  /\ UNCHANGED <<last_poll, next, events, machine, scan, inventory>>

Begin(who) ==
  /\ lock = "free"
  /\ lock' = who
  /\ reading' = 1
  /\ found' = {}

\* The poll task locks the scanner and calls scan_system.
RescanBegins ==
  /\ poll = "rescan"
  /\ Begin("poll")
  /\ UNCHANGED <<scans, machine, monitor, inventory>>

\* ScanHardware, authorized, locks the scanner and calls scan_system.
ScanBegins ==
  /\ scans < MaxScans
  /\ Begin("caller")
  /\ scans' = scans + 1
  /\ UNCHANGED <<machine, monitor, inventory>>

\* One bus of enumerate_all; a bus or a device that cannot be read is skipped.
Enumerate ==
  /\ lock # "free" /\ reading <= BusCount
  /\ LET here == present \cap On(BUS_SUBSYSTEMS[reading])
     IN \E some \in IF MayFail THEN SUBSET here ELSE {here} : found' = found \cup some
  /\ reading' = reading + 1
  /\ UNCHANGED <<lock, scans, machine, monitor, inventory>>

\* The devices replace the list.  The poll task then matches drivers to them
\* (match_drivers_to_hardware), a ScanHardware call does not.
EndScan ==
  /\ lock # "free" /\ reading > BusCount
  /\ listed' = found
  /\ matched' = IF lock = "poll" THEN found \cap Supported ELSE {}
  /\ poll' = IF lock = "poll" THEN "idle" ELSE poll
  /\ lock' = "free"
  /\ UNCHANGED <<last_poll, next, events, reading, found, scans, machine>>

Poll == StartPoll \/ Inspect \/ EndPoll \/ RescanBegins
Scan == Enumerate \/ EndScan

Next == Tick \/ (\E x \in Devices : Hotplug(x)) \/ Poll \/ ScanBegins \/ Scan

Spec == Init /\ [][Next]_vars

\* The interval fires again and again, and whoever scans goes on to the end.
FairSpec == Spec /\ WF_vars(Poll) /\ WF_vars(Scan)

-----------------------------------------------------------------------------
\* Types; whoever has filled in matched_drivers is still listed, and the poll
\* task is never ahead of the directories.
TypeOK ==
  /\ now \in 1..MaxNow /\ scans \in 0..MaxScans
  /\ present \subseteq Devices /\ found \subseteq Devices /\ listed \subseteq Devices
  /\ matched \subseteq listed \cap Supported
  /\ {mtime, last_poll} \subseteq [Buses -> 0..MaxNow]
  /\ unseen \subseteq Buses
  /\ \A b \in Buses : last_poll[b] <= mtime[b] /\ mtime[b] <= now
  /\ poll \in {"idle", "polling", "rescan"} /\ events \in BOOLEAN
  /\ lock \in {"free", "poll", "caller"} /\ (lock = "poll" => poll = "rescan")
  /\ next \in 1..(BusCount + 1) /\ reading \in 1..(BusCount + 1)

\* If directories can be read: when nothing is under way, the list has exactly
\* the devices of each bus whose time is the one poll_events saw last, unless
\* the last change came in the second of one that a poll had already seen.  No
\* other change is lost, whatever scans and polls were at work meanwhile.
OnlySameSecondIsLost ==
  poll = "idle" /\ lock = "free" =>
    \A b \in Buses \ unseen :
      last_poll[b] = mtime[b] => listed \cap On(b) = present \cap On(b)

\* If directories can be read: a device that came or went on a bus whose time
\* has moved since the last poll is listed, or no longer listed, in the end.
ChangeIsListed ==
  \A x \in Devices :
    /\ x \in present /\ mtime[Bus[x]] > last_poll[Bus[x]] ~> x \in listed \/ x \notin present
    /\ x \notin present /\ mtime[Bus[x]] > last_poll[Bus[x]] ~> x \notin listed \/ x \in present
=============================================================================
