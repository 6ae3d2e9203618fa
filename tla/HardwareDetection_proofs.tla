---------------------- MODULE HardwareDetection_proofs ----------------------
(***************************************************************************)
(* Proofs about HardwareDetection, for any buses, devices, clock and       *)
(* number of scans.                                                        *)
(***************************************************************************)
EXTENDS HardwareDetection, TLAPS

\* The directories of sysfs can be read.
Readable == ~MayFail

\* poll_events took the last change of bus b into account.
Seen(b) == b \notin unseen /\ last_poll[b] = mtime[b]

\* The poll task will scan, but does not yet.
Pending == (poll = "polling" /\ events) \/ (poll = "rescan" /\ lock # "poll")

\* The scan under way has still to read bus b.
Unread(b) == \E i \in reading..BusCount : BUS_SUBSYSTEMS[i] = b

Same(list, b) == list \cap On(b) = present \cap On(b)

\* A scan finds nothing on a bus before it reads it.
FoundWhereRead ==
  lock # "free" => \A b \in Buses : Unread(b) => found \cap On(b) = {}

\* A bus whose last change was seen is listed as it is, and the scan under way
\* will not spoil that, unless the poll task is about to scan.
SeenIsListed ==
  \A b \in Buses :
    Seen(b) => \/ Pending
               \/ /\ lock # "free" => Unread(b) \/ Same(found, b)
                  /\ lock # "poll" => Same(listed, b)

IInv == TypeOK /\ (Readable => FoundWhereRead /\ SeenIsListed)

-----------------------------------------------------------------------------
LEMMA BusFacts ==
  /\ BusCount \in Nat
  /\ \A i \in 1..BusCount : BUS_SUBSYSTEMS[i] \in Buses
  /\ \A b \in Buses : \E i \in 1..BusCount : BUS_SUBSYSTEMS[i] = b
  /\ \A i, j \in 1..BusCount : BUS_SUBSYSTEMS[i] = BUS_SUBSYSTEMS[j] => i = j
BY BusesAssumption DEF BusCount, Buses, ToSet, IsInjective

\* TypeOK is preserved by every step.
LEMMA TypeInit == Init => TypeOK
<1> SUFFICES ASSUME Init PROVE TypeOK
  OBVIOUS
<1>1. {mtime, last_poll} \subseteq [Buses -> 0..MaxNow]
  BY DevicesAssumption DEF Init
<1>2. \A b \in Buses : last_poll[b] <= mtime[b] /\ mtime[b] <= now
  BY DEF Init
<1>3. listed \subseteq Devices /\ matched \subseteq listed \cap Supported
  BY DevicesAssumption DEF Init
<1>4. next \in 1..(BusCount + 1) /\ reading \in 1..(BusCount + 1)
  BY BusFacts DEF Init
<1>5. now \in 1..MaxNow /\ scans \in 0..MaxScans
  BY DevicesAssumption DEF Init
<1> QED BY <1>1, <1>2, <1>3, <1>4, <1>5 DEF Init, TypeOK

LEMMA TypeStep == TypeOK /\ [Next]_vars => TypeOK'
<1> SUFFICES ASSUME TypeOK, [Next]_vars PROVE TypeOK'
  OBVIOUS
<1>0. /\ mtime \in [Buses -> 0..MaxNow] /\ last_poll \in [Buses -> 0..MaxNow]
      /\ BusCount \in Nat /\ MaxNow \in Nat /\ MaxScans \in Nat
  BY BusFacts, DevicesAssumption DEF TypeOK
<1> USE <1>0, DevicesAssumption DEF TypeOK, machine, monitor, scan, inventory
<1>1. CASE Tick
  BY <1>1 DEF Tick
<1>2. ASSUME NEW x \in Devices, Hotplug(x) PROVE TypeOK'
  <2> DEFINE b == Bus[x]
  <2>1. b \in Buses /\ now \in 0..MaxNow
    OBVIOUS
  <2>2. mtime' \in [Buses -> 0..MaxNow] /\ unseen' \subseteq Buses /\ present' \subseteq Devices
    BY <1>2, <2>1 DEF Hotplug
  <2>3. \A c \in Buses : last_poll'[c] <= mtime'[c] /\ mtime'[c] <= now
    BY <1>2, <2>1 DEF Hotplug
  <2>4. /\ UNCHANGED <<now, last_poll, poll, next, events, lock, reading, found, scans>>
        /\ UNCHANGED <<listed, matched>>
    BY <1>2 DEF Hotplug
  <2>5. {mtime', last_poll'} \subseteq [Buses -> 0..MaxNow]
    BY <2>2, <2>4
  <2> QED BY <2>2, <2>3, <2>4, <2>5
<1>3. CASE StartPoll
  <2>1. 1 \in 1..(BusCount + 1)
    OBVIOUS
  <2>2. UNCHANGED <<now, present, mtime, unseen, last_poll, lock, reading, found, scans>>
    BY <1>3 DEF StartPoll
  <2> QED BY <1>3, <2>1, <2>2 DEF StartPoll
<1>4. CASE Inspect
  <2> DEFINE b == BUS_SUBSYSTEMS[next]
  <2>1. b \in Buses /\ next + 1 \in 1..(BusCount + 1)
    BY <1>4, BusFacts DEF Inspect
  <2>2. last_poll' \in [Buses -> 0..MaxNow] /\ events' \in BOOLEAN
    BY <1>4, <2>1 DEF Inspect
  <2>3. \A c \in Buses : last_poll'[c] <= mtime[c] /\ mtime[c] <= now
    BY <1>4, <2>1 DEF Inspect
  <2> QED BY <1>4, <2>1, <2>2, <2>3 DEF Inspect
<1>5. CASE EndPoll
  BY <1>5 DEF EndPoll
<1>6. CASE RescanBegins \/ ScanBegins
  BY <1>6 DEF RescanBegins, ScanBegins, Begin
<1>7. CASE Enumerate
  BY <1>7 DEF Enumerate
<1>8. CASE EndScan
  BY <1>8 DEF EndScan
<1>9. CASE UNCHANGED vars
  BY <1>9 DEF vars
<1> QED BY <1>1, <1>2, <1>3, <1>4, <1>5, <1>6, <1>7, <1>8, <1>9 DEF Next, Poll, Scan

-----------------------------------------------------------------------------
\* Where a device's bus is read, and what a bus has, never overlap.
LEMMA OnFacts ==
  /\ \A b \in Buses : On(b) \subseteq Devices
  /\ \A x \in Devices : Bus[x] \in Buses
  /\ \A b \in Buses, x \in Devices : x \in On(b) <=> Bus[x] = b
BY DevicesAssumption DEF On

LEMMA InitIInv == Init => IInv
<1> SUFFICES ASSUME Init PROVE IInv
  OBVIOUS
<1>1. FoundWhereRead
  BY DEF Init, FoundWhereRead
<1>2. SeenIsListed
  BY DEF Init, SeenIsListed, Seen
<1> QED BY <1>1, <1>2, TypeInit DEF IInv

\* Every step keeps FoundWhereRead: a bus that is still to be read is not read.
LEMMA FoundStep ==
  ASSUME TypeOK, TypeOK', FoundWhereRead, [Next]_vars
  PROVE  FoundWhereRead'
<1> USE BusFacts, OnFacts DEF machine, monitor, scan, inventory
<1>1. CASE RescanBegins \/ ScanBegins
  BY <1>1 DEF RescanBegins, ScanBegins, Begin, FoundWhereRead
<1>2. CASE Enumerate
  <2> SUFFICES ASSUME NEW b \in Buses, Unread(b)' PROVE found' \cap On(b) = {}
    BY DEF FoundWhereRead, On
  <2> DEFINE r == BUS_SUBSYSTEMS[reading]
  <2>1. reading \in 1..BusCount /\ reading' = reading + 1 /\ lock # "free" /\ r \in Buses
    BY <1>2 DEF Enumerate, TypeOK
  <2>2. PICK i \in (reading + 1)..BusCount : BUS_SUBSYSTEMS[i] = b
    BY <2>1 DEF Unread
  <2>3. Unread(b) /\ r # b
    BY <2>1, <2>2 DEF Unread
  <2>4. found \cap On(b) = {}
    BY <2>1, <2>3 DEF FoundWhereRead
  <2>5. found' \subseteq found \cup On(r)
    BY <1>2 DEF Enumerate
  <2>6. On(r) \cap On(b) = {}
    BY <2>3 DEF On
  <2> QED BY <2>4, <2>5, <2>6
<1>3. CASE EndScan
  BY <1>3 DEF EndScan, FoundWhereRead
<1>4. CASE UNCHANGED scan
  BY <1>4 DEF FoundWhereRead, Unread, On
<1>5. CASE Tick \/ StartPoll \/ Inspect \/ EndPoll \/ UNCHANGED vars
  BY <1>4, <1>5 DEF Tick, StartPoll, Inspect, EndPoll, vars
<1>6. ASSUME NEW x \in Devices, Hotplug(x) PROVE FoundWhereRead'
  BY <1>4, <1>6 DEF Hotplug
<1> QED BY <1>1, <1>2, <1>3, <1>5, <1>6 DEF Next, Poll, Scan

\* The same for one bus, the case the next lemma splits.
SeenBusIsListed(b) ==
  Seen(b) => \/ Pending
             \/ /\ lock # "free" => Unread(b) \/ Same(found, b)
                /\ lock # "poll" => Same(listed, b)

LEMMA SeenStep ==
  ASSUME TypeOK, TypeOK', Readable, FoundWhereRead, SeenIsListed, [Next]_vars
  PROVE  SeenIsListed'
<1> SUFFICES ASSUME NEW b \in Buses PROVE SeenBusIsListed(b)'
  BY DEF SeenIsListed, SeenBusIsListed, Seen, Unread, Same, On
<1>0. SeenBusIsListed(b) /\ (lock = "poll" => poll = "rescan")
  BY DEF SeenIsListed, SeenBusIsListed, TypeOK
<1> USE BusFacts, OnFacts, <1>0
        DEF machine, monitor, scan, inventory, SeenBusIsListed, Seen, Pending, Same, On
<1>1. CASE Tick
  BY <1>1 DEF Tick, Unread
<1>2. ASSUME NEW x \in Devices, Hotplug(x) PROVE SeenBusIsListed(b)'
  <2>1. CASE Bus[x] = b
    <3>1. ~Seen(b)'
      BY <1>2, <2>1 DEF Hotplug, TypeOK
    <3> QED BY <3>1
  <2>2. CASE Bus[x] # b
    <3>1. Seen(b)' => Seen(b)
      BY <1>2, <2>2 DEF Hotplug, TypeOK
    <3>2. present' \cap On(b) = present \cap On(b)
      BY <1>2, <2>2 DEF Hotplug
    <3> QED BY <1>2, <3>1, <3>2 DEF Hotplug, Unread
  <2> QED BY <2>1, <2>2
<1>3. CASE StartPoll
  BY <1>3 DEF StartPoll, Unread
<1>4. CASE Inspect
  <2> DEFINE c == BUS_SUBSYSTEMS[next]
  <2>0. ASSUME c \notin Absent PROVE events' <=> events \/ mtime[c] > last_poll[c]
    <3>1. PICK read \in {TRUE, ~MayFail} :
            events' = (events \/ (mtime[c] > last_poll[c] /\ read))
      BY <1>4, <2>0 DEF Inspect
    <3>2. read = TRUE
      BY DevicesAssumption DEF Readable
    <3> QED BY <3>1, <3>2 DEF TypeOK
  <2>1. Seen(b)' => Seen(b) \/ events'
    <3> SUFFICES ASSUME Seen(b)', ~Seen(b) PROVE events'
      OBVIOUS
    <3>1. UNCHANGED <<mtime, unseen>> /\ last_poll'[b] # last_poll[b]
      BY <1>4 DEF Inspect
    <3>2. c \notin Absent /\ c = b
      BY <1>4, <3>1 DEF Inspect, TypeOK
    <3>3. mtime[b] \in Nat /\ last_poll[b] \in Nat /\ last_poll[b] <= mtime[b] /\ last_poll[b] # mtime[b]
      BY <3>1 DEF TypeOK
    <3> QED BY <2>0, <3>2, <3>3
  <2>2. events => events'
    BY <1>4, <2>0 DEF Inspect, TypeOK
  <2> QED BY <1>4, <2>1, <2>2 DEF Inspect, Unread
<1>5. CASE EndPoll
  BY <1>5 DEF EndPoll, Unread
<1>6. CASE RescanBegins \/ ScanBegins
  <2>1. Unread(b)'
    BY <1>6 DEF RescanBegins, ScanBegins, Begin, Unread
  <2> QED BY <1>6, <2>1 DEF RescanBegins, ScanBegins, Begin
<1>7. CASE Enumerate
  <2> DEFINE r == BUS_SUBSYSTEMS[reading]
  <2>1. reading \in 1..BusCount /\ reading' = reading + 1 /\ lock # "free" /\ r \in Buses
    BY <1>7 DEF Enumerate, TypeOK
  <2>2. found' = found \cup (present \cap On(r))
    BY <1>7, Readable DEF Enumerate, Readable
  <2>3. UNCHANGED <<lock, scans, machine, monitor, inventory>>
    BY <1>7 DEF Enumerate
  <2>4. CASE r = b
    <3>1. found \cap On(b) = {}
      BY <2>1, <2>4 DEF FoundWhereRead, Unread
    <3>2. Same(found, b)'
      BY <2>2, <2>3, <2>4, <3>1
    <3> QED BY <2>3, <3>2
  <2>5. CASE r # b
    <3>1. Same(found, b) => Same(found, b)'
      BY <2>2, <2>3, <2>5
    <3>2. Unread(b) => Unread(b)'
      BY <2>1, <2>5 DEF Unread
    <3> QED BY <2>3, <3>1, <3>2
  <2> QED BY <2>4, <2>5
<1>8. CASE EndScan
  <2>1. ~Unread(b)
    BY <1>8 DEF EndScan, Unread, TypeOK
  <2>2. lock' = "free" /\ listed' = found /\ UNCHANGED <<found, machine, last_poll, events>>
    BY <1>8 DEF EndScan
  <2>3. Same(found, b) => Same(listed, b)'
    BY <2>2
  <2>4. Pending => lock # "poll" /\ Pending'
    BY <1>8, <2>2 DEF EndScan
  <2> QED BY <1>8, <2>1, <2>2, <2>3, <2>4 DEF EndScan
<1>9. CASE UNCHANGED vars
  BY <1>9 DEF vars, Unread
<1> QED BY <1>1, <1>2, <1>3, <1>4, <1>5, <1>6, <1>7, <1>8, <1>9 DEF Next, Poll, Scan

-----------------------------------------------------------------------------
\* Types, and if directories can be read the two facts above, hold always.
THEOREM Invariance == Spec => []IInv
<1>1. Init => IInv
  BY InitIInv
<1>2. IInv /\ [Next]_vars => IInv'
  BY TypeStep, FoundStep, SeenStep DEF IInv, Readable
<1> QED BY <1>1, <1>2, PTL DEF Spec

\* Type correctness of the detection and the inventory it fills (hwdetect.rs,
\* inventory.rs): matched_drivers are those of listed devices, and last_poll
\* is never ahead of a directory's time.
THEOREM TypeCorrect == Spec => []TypeOK
<1>1. IInv => TypeOK
  BY DEF IInv
<1> QED BY <1>1, Invariance, PTL

\* If directories can be read, poll_events and the scans lose no change of a
\* bus except one in the second of a change that was seen, for any buses,
\* devices and number of concurrent scans.
THEOREM ChangesAreSeen == Readable => (Spec => []OnlySameSecondIsLost)
<1>1. Readable /\ IInv => OnlySameSecondIsLost
  BY DEF IInv, SeenIsListed, Seen, Pending, Same, OnlySameSecondIsLost
<1>2. ASSUME Readable PROVE IInv => OnlySameSecondIsLost
  BY <1>1, <1>2
<1>3. ASSUME Readable PROVE Spec => []OnlySameSecondIsLost
  BY <1>2, <1>3, Invariance, PTL
<1> QED BY <1>3
=============================================================================
