# Mission OS: TLA+ specifications and proofs

Mission OS is a desktop operating system built on Debian: two system services written in Rust,
a few Rust libraries, a QML component library, an installer and the scripts that build the
image. This directory holds TLA+ models of the driver service `mission-driverd`, of what it shares with
the security service `mission-securityd` and of the parts of the core library that keep state or decide; the TLC
configurations that check them, and TLAPS proofs of what matters most. Paths of driverd files below are relative to
`src/services/driverd/src/`.

Contents: [1 the system](#1-the-system), [2 modules](#2-modules), [3 runs](#3-runs),
[4 fairness](#4-fairness), [5 proofs](#5-proofs), [6 disagreements](#6-disagreements-between-code-and-documents),
[7 not modelled](#7-not-modelled), [8 plan](#8-plan).

## 1. The system

### mission-driverd

One process with a tokio runtime (`main.rs:58`), on the system bus. What it keeps:

| State | Where | Changed by |
|---|---|---|
| `AppState.scanner`, a `std::sync::Mutex<InventoryScanner>`: drivers with a status, devices with `matched_drivers` | `dbus.rs`, `inventory.rs` | scans (start, poll task, ScanHardware), commit and rollback of operations |
| `OperationTracker.saved_states` | `execution.rs` | `save_state`, `rollback_operation`, `remove` |
| `UdevMonitor.last_poll` | `hwdetect.rs` | `poll_events` |
| the kernel's loaded modules | outside; `kmod.rs` | `init_module`, `delete_module`, and everybody else |
| package store `<name>.ko`, signature files | disk; `package.rs` | `stage_local`, `remove_staged`, the administrator |
| partial, temporary and final files of a download | disk; `download.rs`, `fetch.rs` | `DownloadManager::download` |
| cache entries, metadata files | disk; `cache.rs` | cache operations |
| source registry, verified manifests, trusted keys | `source.rs`, `repository.rs`, `verification.rs` | start, manifest verification |
| audit buffer, signal sequence number | `audit.rs`, `signals.rs` | every handler |

How the parts work together:

```
D-Bus client --call--> handler (dbus.rs) --CheckAuthorization--> polkitd
                          |  lock scanner mutex
                          v
                 ExecutionEngine (execution.rs) --CheckAuthorization--> polkitd   (a second time)
                    |        |         |         \
             ConflictDetector | KernelModuleManager  verify_package
                        OperationTracker  |              |
                              |        the kernel    package store
                              v
                    InventoryScanner.inventory  <-- scan_system -- poll task <-- UdevMonitor <-- sysfs
                                                 <-- scan_system -- ScanHardware
```

The parts, what makes each of them hard, and what makes it correct:

* **Execution engine** (`install_driver`, `remove_driver`, `update_driver`). A sequence of checks,
  a saved state, module system calls, then commit or rollback. Every system call may fail; the
  kernel's module list and the package store change between any two steps; the daemon may die at
  any of them. Correct if a failed operation leaves nothing behind, a completed one changes
  exactly the driver it names, the saved state is there exactly as long as it is needed and is
  current, and what the inventory says of a module stays related to the kernel's own list.
* **Inventory scanner**. `populate_builtin_drivers` rebuilds all entries from `/proc/modules`
  and so forgets what operations recorded. Correct if `check_remove`, which trusts an entry's
  status, is not misled.
* **Handlers, poll task and runtime.** Handlers block their worker thread in `lock()`; the engine asks
  PolKit while it holds the mutex; PolKit's reply is delivered by a task that itself needs a
  worker. Correct if every call is answered.
* **Package download.** Retries over the files failed attempts left, resumption by range
  requests, a server that may answer anything. Correct if `Ok` means the right bytes, an honest
  server's bytes are not rejected because of an earlier attempt, and the call ends.
* **Hardware detection.** Modification times in whole seconds, read while devices come and go,
  compared with remembered ones; scans by two parties. Correct if no change is lost.
* **Package cache.** Each package is up to three files, and each call a sequence of file operations, any of
  which may fail or be the last before the daemon dies; ClearCache takes no lock. Correct if an entry is
  never half a package, nothing is lost but to a call that removes files, and the limits are met.
* **Manifests.** Two clocks that differ and a mirror that serves what it likes. Correct if what is
  accepted was signed and is not too old, and what is fresh is not refused.
* **Selector, matching, versions, sources, metadata, kernel module files, key store.** Decisions over data: the
  hard part is orders, boundaries, and one part accepting what another cannot use.
* **Conflict detector, package store, authorization.** Decisions the engine takes; they appear in the
  engine's model as guards.
* **Signals and audit.** Authorization, record, work and signals are separate steps of each handler.
  Correct if clients hear of every change, numbers order signals, and the trail shows the grant first.

### Everything else

* **mission-securityd**: the same shape of D-Bus service; its methods validate, authorize, audit and
  answer, and apply no firewall ruleset. Correct if the ruleset it would generate means what its rules say.
* **Core library**: configuration store (save through a temporary file that all savers share, with syncs so
  that a save survives the loss of power), version numbers, an IPC type whose connection reaches no bus, paths,
  logging, system information.
* **Crypto library**: SHA-2, Ed25519, key generation, memory that is zeroed.
* **UI library**, **desktop defaults**, **packaging**: presentation and settings.
* **Installer** and **build scripts**: sequential scripts around external tools.
* **Tests and workflows.**

`PROJECT.json` lists every part with its files and what is modelled of it, and, under `hazards`,
what can go wrong in this code that a test would hardly reach, each with the properties that
would notice.

## 2. Modules

| Module | What it is |
|---|---|
| `DriverLifecycle` | abstract specification: what the Management interface promises its callers |
| `DriverExecution`, `MCDriverExecution`, `DriverExecution_proofs` | execution engine, inventory, kernel, package store, handlers' requests; the refinement of `DriverLifecycle` |
| `ServiceRuntime`, `MCServiceRuntime`, `ServiceRuntime_proofs` | worker threads, scanner mutex and PolKit's replies |
| `ServiceBus`, `MCServiceBus`, `ServiceBus_proofs` | each method of both services as its steps: authorization, audit, work, signals |
| `PackageDownload`, `MCPackageDownload`, `PackageDownload_proofs` | one download at a time against any server and disk |
| `PackageCache`, `MCPackageCache`, `PackageCache_proofs` | the files of the package cache under failing operations, crashes and ClearCache |
| `RepositoryTrust`, `MCRepositoryTrust` | verification of manifests against two clocks and a mirror |
| `HardwareDetection`, `MCHardwareDetection`, `HardwareDetection_proofs` | polls, scans and hotplug |
| `ConfigStore`, `MCConfigStore`, `ConfigStore_proofs` | saves and loads of a configuration file, deaths and power loss |
| `Common` | the value for what is not given, and `hex_decode` |
| `VersionOrder` | versions of the core library and of driverd: parsing, display, order, kernel ranges |
| `HardwareMatching` (extends `VersionOrder`) | patterns, scores and rankings of drivers for a device |
| `DriverSelection` (extends `HardwareMatching`) | the selector: candidates and its six criteria |
| `PackageDescription` (extends `VersionOrder`) | manifest entries, metadata, digests, URLs, source configurations, registry |
| `LocalPackages` (extends `PackageDescription`) | paths and signature files of staged packages, the older list of sources |
| `DeviceIdentity` (extends `HardwareMatching`) | what uevent files and modaliases say of a device |
| `KernelModules` | `/proc/modules`, `/sys/module` and the directories of module files |
| `PackageVerification` | key files, the key store and the verdict on a package |
| `FirewallRules` | rules, profiles and the lines of the generated ruleset |
| `MCDecisions` | questions put to the nine modules above, one a state |
| `DecisionTerms` | the terms the proofs about decisions are put in: orders, the steps of folds, what a step leaves |
| `Decisions_proofs` | what `RepositoryTrust` accepts, and what the decisions come to for all their arguments |

The components of driverd meet at the scanner mutex. `ServiceRuntime` models who gets it and what a holder waits
for, and nothing of the work done under it. `DriverExecution` models the work of management
calls under it, `HardwareDetection` that of scans over the device list. Because the mutex is held
from the first step of that work to the last, the three can be checked apart. `ServiceBus` takes the work under it
as one action and models what comes around it. The decision modules are pure; where
`DriverExecution` or `RepositoryTrust` needs one of their outcomes it has it as a constant or a free choice.

### DriverExecution

Variables: `status` is `inventory.drivers` (a driver that is not in the list is `Unlisted`);
`loaded` and `busy` the kernel's modules and those something refers to; `staged` and `sigfile` the
files of the package store; `tracker` is `saved_states`; `scanner` the holder of the mutex; `pc`,
`req` and `answer` belong to each caller's handler; `before` is a history variable, the inventory
and modules at the moment the mutex was taken.

| Action | Code |
|---|---|
| `Submit`, `Refuse`, `Acquire` | the handler in `dbus.rs`: parse, authorize, lock |
| `Check`, `Reject` | `find_driver`, second authorization, downgrade check, conflict detector |
| `Verify` | `verify_package`, with `allow_unsigned` and the development bypass |
| `Save` | `save_state` |
| `Probe`, `Unload` | `is_loaded`; `unload_module` with the flags it passes to `delete_module` |
| `Place`, `Load` | `execute_install`: staged file, or a module of the kernel tree; `init_module` |
| `Commit`, `Rollback` | status and `tracker.remove`; `rollback_operation` with its reload |
| `Rescan` | `scan_system` by the poll task or ScanHardware |
| `Stage`, `Unstage`, `OtherSigns`, `OtherLoads`, `OtherUnloads`, `OtherUses` | the administrator and the kernel |
| `Crash` | the process dies and starts again (`main.rs:114`) |

Each engine action is the code between two points at which the outside can interfere. A request
carries only what the engine decides on; the target version of an update is a case relative to
the entry's version. The arms for firmware, userspace and overlay drivers are left out: every entry
the daemon can list is a kernel module, as `populate_builtin_drivers` alone fills the list. For
the same reason `check_dependents` never finds anything.

`DriverLifecycle` has three variables, `status`, `pending` and `answer`. A completed request
changes its driver's status at one instant, a failed or denied one nothing, a scan leaves no
trace of operations. `Lifecycle == INSTANCE DriverLifecycle WITH pending <- req, Nothing <- NoRequest` is the refinement
mapping.

### ServiceRuntime

A handler goes through `phase`; `onWorker` are the handlers that occupy a worker thread, `inbox` what
lies in the daemon's socket, `atPolkit` what polkitd has not answered. `Start`, `Proceed`, `Lock`,
`Finish` and `Answer` are the handler's steps between its awaits and blocking calls;
`ReadCall` and `ReadReply` those of the connection's reader task, which is external (zbus) and modelled
from how it is used: it needs a worker like any task. `call_polkit_check` waits in `block_in_place`, which hands
the worker to another thread for the time of the wait: a handler that asks does not occupy one, a
handler in `lock()` does. After a wait a handler may go on without a worker of its own (on the thread it
kept), so `Proceed` has two outcomes.

### ServiceBus

A method is a constant sequence of steps, written down from its handler: `install_driver` is check, authorize, audit,
event, engine, changed, and, if it completed, audit and event once more. `at` is how far each handler has come.
`Check`, `Authorize`, `Audit`, `Engine`, `Scan`, `Clear`, `Read` and `Done` are the steps; a signal takes two,
`next_sequence` and `emit_signal`, because the number is drawn before the asynchronous send. `Authorize` has the rules of
both services (`driver_authorize`, `security_authorize`) and the record each decision leaves. `Close` loses the
bus connection, after which nothing is sent. A client lists the drivers when it hears of a change
(`Hear`, `Listed`): `known` is the version of the inventory it has. One instance is one service, chosen initially.

### PackageDownload

A file is its length in blocks and whether its bytes are the package's first ones (`ok`). A body
is what a server sends: its length, whether its bytes are right, whether its length was declared.
`Append` says what a block does to a file: it is only right at its own position, so a partial file longer
than the offset that was asked for goes wrong. `Download` reads the partial file's size once, as
the code does; `Range*` are the ways a resumed attempt can go, `Request*` those of a fresh one;
`Read*`, `EndOfBody`, `DiskFails` and `Verify` are common; `Fail` is the retry policy. `Die` leaves the
files as they are. The code looks at no error of a removal, so each of them may leave the file (`AfterRemoval`), the partial
file of a call that answers `Ok` as well as bytes the call has just refused (`Refuse`). `leftover` is a history variable: the file at
the destination was never checked, or was refused and is still there. The initial partial file is any prefix of the package.

### PackageCache

`entry`, `part` and `meta` are the three files of each package, a file being its content (none, torn, wrong or right). The
user's calls are `Stage`/`Write` (the caller that fills a partial file), `Finalize`/`Rename`/`Describe`,
`Verify`/`Hash`/`Discard`/`DiscardMeta`, `RemoveEntry`/`Remove`/`RemoveMeta`,
`EnforceLimits`/`Measure`/`Count`/`List`/`Evict`/`EvictMeta` and `CleanupPartials`; `Clear` may be called by anybody.
`enforce_limits` reads the directory up to three times, for the size, the number of packages and the files to evict, and each time what
cannot be read is passed over: an entry without metadata, or all of them (`Readable`). `todo` holds the
files a call listed and has not come to; `total` and `left` what `enforce_limits` believes is left. `disturbed` is a history
variable: somebody else removed a file during the user's call, or a removal of its own failed, or it overlooked a file. `Subdir` is the
directory of downloads, which is listed among the packages, measured, and cannot be removed as a file. `Rot` spoils a
package on disk. Modification times are left out, so evictions come in any order.

### RepositoryTrust

The repository's clock is `time`, the daemon's `time + drift`, read as zero before the epoch (`Now`). The mirror
may offer any manifest that was published (`RefreshPublished`), an altered one or one signed by somebody else
(`RefreshAltered`), or one without signature (`RefreshUnsigned`). `verify_manifest` makes the checks in the order of the code:
validation, freshness, then the trusted keys one after the other.

### ConfigStore

Names and files are apart: `path`, `tmp` and `onDisk` are the file under the name, under the temporary name, and under the
name after a loss of power; `data` is the content of each file, `dirty` what is not known to be on disk. `Save`, `Create`,
`Write`, `Sync`, `Rename` and `SyncDir` are the steps of `save`; the last syncs the directory only if it can be opened.
`Fail`, `Die`, `PowerLoss` and `WriteBack` are the environment; `Load` and `LoadFails` are `load_or_default`,
`ServiceLoad` the services' `load_config`, which makes the defaults of whatever it cannot use. `promised` is a history
variable: what the file may hold since the last save whose directory sync succeeded.

### HardwareDetection

`mtime` is the modification time of each bus directory, `last_poll` what the monitor remembers,
`Inspect` one iteration of `poll_events`, `Enumerate` one of `enumerate_all`, `EndScan` the replacement of the
device list, with `match_drivers_to_hardware` if it is the poll task's. Devices come and go between any
two of them (`Hotplug`). `unseen` is a history variable: the buses whose last change came in the very second
`last_poll` already holds.

### The decision modules

Texts are sequences over small alphabets where the code looks at characters (versions, patterns, modaliases, addresses), and
members of a small set that name the distinction where it only validates (names, URLs, digests). Doubles that
decide a threshold are computed as the code does, in units small enough for the sums to be exact, with the one rounding that
matters noted (`HardwareMatching`). Numbers are parsed as `u64` is: a plus may stand before the digits and a value above `U64Max`
is an error (`ParseNumber`). A line of the firewall's ruleset keeps the conditions and the name that are written into it; whether nftables reads that
line at all (`Reads`: names that end a comment early, addresses of the other family, `tcp` with no port or two) is modelled beside what it
matches. Recursion is written with the folds of the community modules.
Each module ends with the reference definitions it is checked against: a glob by dynamic programming beside the greedy
search, the order of Semantic Versioning beside `cmp`, a packet filter beside the text of a rule, and so on.

## 3. Runs

Run a row with `tlc -config <run>.cfg <module>`. Two violate one property each, which states
what a comment or document of the repository says; section 6 explains them. The others pass.

| Run | Module | Checks | Distinct states |
|---|---|---|---|
| `engine_interleaved` | MCDriverExecution | `TypeOK`, `TrackerMatchesEngine`, `FailedLeavesInventory`, `LifecycleSpec` | 202,000 |
| `engine_quiet` | MCDriverExecution | `RemovedIsUnloaded`, `TrackedLoadedIsOperational`, `UnforcedRemovalKeepsTracked`, `FailedLeavesModule`, `BusyModuleSurvives`, `EngineFinishes` | 298,000 |
| `runtime_answers` | MCServiceRuntime | `TypeOK`, `ReaderCanRun`, `EveryCallIsAnswered` | 84,000 |
| `bus_signals` | MCServiceBus | `TypeOK`, `ChangesAreAnnounced`, `GrantIsOnRecord`, `NumbersOrder` | 3,753,000 |
| `download_verified` | MCPackageDownload | `TypeOK`, `OkIsVerified`, `FreshIsFaithful`, `DownloadReturns` | 973,000 |
| `cache_bounded` | MCPackageCache | `TypeOK`, `EntriesAreWhole`, `NothingIsLost`, `StoredIsDescribed`, `EnforceMeetsLimits` | 7,720,000 |
| `manifest_fresh` | MCRepositoryTrust | `ReplayIsBounded`, `FreshIsAccepted` | 1,703,000 |
| `hardware_follows` | MCHardwareDetection | `TypeOK`, `OnlySameSecondIsLost`, `ChangeIsListed` | 194,000 |
| `config_durable` | MCConfigStore | `TypeOK`, `FileIsWhole`, `SaveIsDurable`, `NoSilentDefault` | 1,951,000 |
| `decisions` | MCDecisions | `VersionsAreOrdered`, `MatchesAreSound`, `SelectionIsBest`, `DescriptionsAreUsable`, `FirewallIsFaithful` | 855,000 |
| `engine_update_reloads` | MCDriverExecution | `UpdatedIsLoaded` | violation |
| `runtime_starved` | MCServiceRuntime | `EveryCallIsAnswered` | violation |

Every property of a passing run has a mutant in `PROJECT.json`: a plausible error in one mapped definition
(a rollback that keeps its saved state, a rescan that does not lock, `O_TRUNC` where the code passes `O_WRONLY`, a save that
does not sync, a difference of seconds that wraps around)
under which the same run finds the property violated. The `Mut...` operators in the modules are these errors.

**engine_interleaved** has two callers (interchangeable, hence the symmetry set), two drivers that
behave differently (iwlwifi: in the kernel tree, its status derived by a scan; nvidia: neither), four
requests among which every pair meets on the same driver or on different ones, failing syscalls, restarts, staging,
and others loading and unloading nvidia. It checks what must hold whatever the outside does. Two callers
are enough for what the mutex has to prevent, since only one more can be waiting at the wrong moment.

**engine_quiet** has one caller, every kind of request with every flag, a third module that conflicts with nvidia,
modules in use, failing syscalls and restarts, but nobody else who loads modules: the
properties relate the inventory to the kernel's list, and another loader breaks that relation at will
between two scans. That is their precondition, and the comment on each says so. One caller loses nothing
here: `TrackerMatchesEngine`, proved for any number, says that the engine is never entered twice.

**runtime_answers** has two management calls, a scan, a listing and a poll round on five workers:
every handler has a worker, without which `EveryCallIsAnswered` fails. **runtime_starved** has two listings and one
management call on two workers, the fewest waiters for which `ReaderCanRun` leaves the reader without a worker: there the
first management call is never answered.

**bus_signals** has two calls of any methods of either service beside the health task and one round of the poll task, so up to
four senders of signals; the calls are interchangeable. It shows that whichever handler worked on the inventory still has its announcement to
send until the clients know; that numbers are drawn in the order of causes although they may be sent out of order; and that
all work and every answer follow the record of a grant.

**download_verified** has a package of two blocks, a limit of three, bodies of up to four and one retry: bodies
too short, right, too long, and over the limit; partial files shorter than, equal to
and longer than what is asked; a second attempt, and further calls, over the remains of any failure, each removal free to fail.
More than two attempts show nothing new: what an attempt can find is what any one before it, or an earlier call, can leave.

**cache_bounded** has a package of one byte and one of two beside the directory of one, limits of three bytes and one entry (each of
the two limits is the one that is exceeded in some state), one user and one handler of ClearCache, with every operation free to
fail and every reading of the directory free to overlook any of its files. One clearer is enough: it may begin again, and two remove no more than one does twice.

**manifest_fresh** has clocks that differ by up to three with a skew of two, an age limit of four, lifetimes below, at and above
it, two manifests and nine seconds: both ends of the window and one beyond each, and a mirror that
goes back. One key is tried before and one after the repository's, both malformed.

**hardware_follows** has two buses with a device each, one bus without a directory, three seconds and one ScanHardware call: a
change before, in and after the second of a poll, and a scan by somebody else around a poll's. Directories
can be read (`MayFail = FALSE`), the precondition of its properties.

**config_durable** has two programs that save in turn, three configurations of two lengths and three files: the one under the name, the one on
disk, and the one being written. The precondition, that savers take turns (`Exclusive`), is not one the code
provides; today no program but the tests saves. Without it `FileIsWhole` fails: program A creates `<name>.toml.tmp`, writes and syncs
it; program B creates the same temporary name, which empties A's file; A renames it, and the configuration's name leads to an
empty file until B has written. If B then dies it stays so.

**decisions** puts one question to one algorithm in each state: texts of up to four characters as patterns, all versions
made of a core and up to two suffixes, triples of versions for the order, three drivers and three packages that differ in one thing or
several, descriptions with one or more wrong fields, rules of every name, port and kind of address against packets. `U64Max` is 21, so that
texts of two digits are numbers, the largest number or too large. Three values are what transitivity, a tie and
the middle of a range need; four characters let a pattern have two stars and segments that overlap.

Bounds of the models: the sets of callers, drivers, packages and requests, `MaxBody`, `MaxRetries`, `MaxNow`,
`MaxScans`, `EndOfTime`, `MaxPublished`, `Inodes`, one call per handler in `ServiceRuntime` and `ServiceBus`. Lengths and seconds are small numbers;
nothing in the code depends on their size near the limits of `u64`, except the saturating differences, which
`RepositoryTrust` has at zero, and the numbers of versions, which `U64Max` bounds. Deadlock checking is on except in
`runtime_answers`, `runtime_starved`, `bus_signals`, whose handlers end, and `decisions`, whose questions have no successor.

## 4. Fairness

* `DriverExecution!FairSpec`: weak fairness of `EngineStep(c)`. The engine is synchronous code under the mutex:
  it goes on unless the process dies, and waits for nobody but PolKit, which `ServiceRuntime` is about.
  Acquiring the mutex is not assumed fair.
* `ServiceRuntime!FairSpec`: weak fairness of each reader step and each handler step, and of PolKit's
  answers. tokio runs a ready task when a worker is free; a std mutex that is free is given to a waiter.
  PolKit's answer is an assumption: no code bounds the time a user takes, so the run shows that calls are
  answered if the user answers. No client is obliged to call.
* `PackageDownload!FairSpec`: weak fairness of `Step`: every wait of the loop has a timeout (`download.rs`), after which
  `ReadFails` or `RequestFails` happens. A call being made is not assumed.
* `HardwareDetection!FairSpec`: weak fairness of `Poll` and of `Scan`: the interval of the poll task keeps
  firing, and whoever scans goes on. `Tick` and `Hotplug` are not assumed: devices need not move.
* `ServiceBus`, `PackageCache`, `RepositoryTrust` and `ConfigStore` assume none: what is checked of them is safety.
  `ChangesAreAnnounced` says who still has to act instead of saying that he will.

## 5. Proofs

TLAPS checks them for every value of the constants that satisfies the ASSUMEs of the module.

| Module | Theorem | States |
|---|---|---|
| `DriverExecution_proofs` | `TypeCorrect` | `Spec => []TypeOK` |
| | `TrackerCorrect` | `Spec => []TrackerMatchesEngine` |
| | `FailuresAreInvisible` | `Spec => FailedLeavesInventory` |
| | `ImplementsLifecycle` | `Spec => LifecycleSpec` |
| | `BusyModulesSurvive` | `Spec => BusyModuleSurvives` |
| | `RemovedStaysUnloaded`, `LoadedStaysOperational`, `UnforcedNeverUnloads`, `FailuresLeaveModule` | `RemovedIsUnloaded`, `TrackedLoadedIsOperational`, `UnforcedRemovalKeepsTracked`, `FailedLeavesModule`, if nobody else loads modules |
| `ServiceRuntime_proofs` | `TypeCorrect`, `OnlyLockWaitersStarve` | types, and `ReaderCanRun`, for any number of handlers and workers |
| `ServiceBus_proofs` | `TypeCorrect`, `NumbersAreOrdered`, `GrantsAreOnRecord`, `ChangesStayAnnounced` | types, `NumbersOrder`, `GrantIsOnRecord`, `ChangesAreAnnounced`, for any number of calls |
| `PackageDownload_proofs` | `TypeCorrect` | types, and at most `max_retries + 1` attempts |
| | `OkMeansVerified`, `FreshBodiesAreFaithful` | `OkIsVerified`, `FreshIsFaithful` |
| `PackageCache_proofs` | `TypeCorrect`, `EntriesStayWhole`, `NothingGetsLost`, `StoredAreDescribed` | types, `EntriesAreWhole`, `NothingIsLost`, `StoredIsDescribed`, for any packages and clearers |
| | `LimitsAreMet` | `EnforceMeetsLimits`, for any limits, sizes and numbers of packages |
| `Decisions_proofs` | `ReplaysAreBounded`, `FreshOnesAreAccepted` | `ReplayIsBounded`, `FreshIsAccepted`, for any policy, drift and list of keys |
| | `VersionsHaveAnOrder`, `PrefixesComeFirst`, `DriverVersionsHaveAnOrder`, `RangesHaveNoGap` | versions are ordered and kernel ranges have no gap, for versions, bounds and kernels of any length |
| | `CandidatesHaveAnOrder`, `MaxByIsLastGreatest`, `MaxByIsPreferred`, `SelectionsAreBest` | the six criteria are an order, and `SelectedIsBest`, for every system, registry, inventory and catalog |
| | `MatchesHaveTheirOrder` | `MatchesAreRanked`, for every system, device and inventory without a driver listed twice |
| | `EnabledSourcesAreFound`, `RegistriesAreUsable`, `EntriesAreUsable` | `SourcesAreFound`, `RegistryIsUsable`, `EntryIsUsable`, for all source configurations and manifest entries |
| | `RangesAreRead` | `RangeIsRead`, for all metadata and kernel versions of any length |
| | `LinesAreRules`, `ProfilesAreWider` | `LineIsRule`, `ProfilesWiden`, for all rules and packets |
| | `GlobsAreExact` | `modalias_pattern_match` finds a match exactly if there is one, for every pattern and every modalias |
| | `KernelsAreDetected`, `IdentitiesAreOwn` | `DetectedSystemFits` for every release and what a distribution appends to it; `IdentityIsOwn` for every bus and any vendor, device and revision |
| | `ModulesAreFound`, `AnswersAreTheSame` | `FilesAreFound`, `AnswersAgree`, for all module files and all modules of the kernel |
| | `SourceListsAgree`, `SignaturesAreOwn`, `VerdictsFollowKeys` | `SourcesAgree`, `SignatureIsOwn`, `VerdictFollowsKeys`, for all lists of identifiers, directories and lists of key files |
| | `TextsAgree` | `TextAgrees`: a version is read again from what it is shown as, for every text |
| | `OrdersAreRight`, `MatchesAreRight`, `SelectionsAreRight`, `DescriptionsAreRight`, `RulesetsAreRight` | `Questions => []VersionsAreOrdered`, and the same of `MatchesAreSound`, `SelectionIsBest`, `DescriptionsAreUsable`, `FirewallIsFaithful` |
| `HardwareDetection_proofs` | `TypeCorrect` | types |
| | `ChangesAreSeen` | `OnlySameSecondIsLost`, if directories can be read |
| `ConfigStore_proofs` | `TypeCorrect`, `FileStaysWhole`, `SavesAreDurable`, `NoDefaultInsteadOfSaved` | types, `FileIsWhole`, `SaveIsDurable`, `NoSilentDefault` |

**DriverExecution.** The inductive invariant `IInv` adds to `TypeOK` and `TrackerMatchesEngine`:
`PendingHasRequest` (a handler that is not idle has a request, without which nothing is known of the driver
it names), `InventoryAsBefore` (the engine has not touched the inventory before it commits or rolls back, which
needs the mutex, and with it `TrackerMatchesEngine`: a rescan may not come in between) and
`DriverIsListed` (past the check the entry exists, so what is saved is one of `Statuses`). `TrackerMatchesEngine` is in turn
not inductive without the types of requests. Engine steps are of two kinds, those that go on (`ContinueStep`) and
those that return (`ReturnStep`); the proof treats each action as one of them. `FailuresAreInvisible` follows
because a rollback restores the status that the saved state and the inventory share. For
`ImplementsLifecycle` every engine step but `Commit`, `Reject`, `Rollback` and a failing `Verify` stutters.

The properties that relate inventory and kernel hold if nobody else loads modules (`NobodyElseLoads`, a hypothesis about the
constant `Autoload`, stated in each theorem). Their invariant `Related` adds for the operation in flight
(`OperationFacts`) that it is in a phase its kind of request goes through, that what was saved agrees with what was
loaded then (`SavedIsSound`), that a removal commits only an unloaded module, and that an unforced removal of a tracked
driver past its check has found the module not loaded. `RollbackFacts` is the core: a
rollback loads a module only if it was loaded when saved, and then the entry it restores said so. `BusyModulesSurvive` needs none of this:
only a loaded module is busy, and no flag the engine passes truncates.

**ServiceRuntime.** `IInv` says which phases a handler on a worker can be in, which replies are awaited, which
calls sent, and that one handler at a time is between acquiring the mutex and leaving it (`HolderIsAlone`). While the holder waits for PolKit it
occupies no worker, so a worker that is not free is taken by a handler in `lock()`: the reader task has none only if at least `Workers` of them
are (`FewerFit`, `OneMoreFits` count them). The theorem has no condition on the number of calls or workers, and its bound is exact: `runtime_starved` meets it.

**ServiceBus.** Each method has one place where it asks for authorization and none of its work before (`Guarded`, proved method by
method); `GrantsLogged` and `WorkDone` carry that along a call. `NumbersHeld` says that a handler with a number is at the
step that sends it and that no number is held twice. For `ChangesStayAnnounced`, each method that works on the inventory sends
`changed` later and has nothing in between that can end it (`Announced`, also method by method); with `WorkBehind`, that a
running handler that has worked is past that work, the announcement cannot get lost before it is sent.

**PackageDownload.** `IInv` says that the file being read into exists, that a file written from the start
is as long as `total` and right if the body is (`WrittenFromTheStart`), that the first attempt appends to a partial file that has not
changed since its length was read, and that an `Ok` is the result of a verified destination. No assumption is made on the server or the disk, whose removals fail as they
like: `OkIsVerified` says nothing of the partial file, and of the destination that wrong bytes are only there if a check of them was cut
short, or refused them and could not remove them.

**PackageCache.** `IInv` says that a partial file is torn only while it is written (`Whole`), that what is discarded was found
to be wrong (`Wrong`), and that between the two steps of finalize the package is there or somebody
removed it (`Stored`). `EnforceMeetsLimits` has an invariant of its own, `LInv`: while one user enforces,
unless somebody removed a package, a removal failed or a file was overlooked (`disturbed`), the packages
that are there are those he has not come to, and his counters are theirs (`Believed`). The sums are folds over finite sets of files; that taking a file away takes its size
off the sum is proved for every finite set by its smallest counterexample, as the prover has no induction over an
operator. It assumes that the digests are finitely many (a directory holds finitely many files).

**RepositoryTrust** (in `Decisions_proofs`). Published manifests were issued in their time, the daemon's clock is behind by no more than `Behind` (`NowIsNear`),
and the bounds of `check_freshness` translate to the repository's clock (`FreshBounds`).

**HardwareDetection.** For each bus whose last change was seen, either the poll task is about to scan, or the list is
right, and so will be what a scan under way puts in its place (`SeenIsListed`). This needs to know that a scan
has found nothing on a bus it has not read (`FoundWhereRead`), which rests on each bus being listed once.

**ConfigStore.** One save at a time; the file it writes has no other name (`Apart`), is whole and synced when it is renamed
(`Progress`), and both what the name leads to and what it would lead to after a loss of power are whole, on disk and promised
(`KeptAreGood`). A save whose directory sync fails is not durable but breaks none of this.

**Decisions.** A comparison is a function whose values are signs, which turns its sign with its arguments and is transitive
(`IsComparison`). Lexicographic comparison is taken apart once (`ByIs`, `ByChains`: of two first differences the earlier decides), and
numbers, texts, lists of identifiers and the criteria of the selector (`ThenBy`) are instances of it. What a fold computes is
reached in two steps: that the function the fold chooses exists (`RunExists`, again by a smallest counterexample, since
a function defined by recursion is only known if there is one), and then whatever is needed about it, going up the prefixes of
the list (`UpTo`): the value of a number, the last greatest of a list (`MaxByIsLastGreatest`), the members that a filter leaves.
`SelectionsAreBest` rests on the candidates depending on the inventory and the catalog as sets only (`CandidatesAre`), on
those that qualify being trusted and fitting (`TheOthersQualify`: no score reaches a half without a matching pattern), and on a
greatest by six criteria being left over by each criterion in turn (`PreferredIs`). In the firewall's chains the first
line that matches decides; as all lines of such a chain accept, a packet passes exactly if some line matches it (`AcceptingChain`),
and the profiles are compared line by line. `LinesAreRules` has no condition on the rule: it says which rules nftables reads as they are
written (`Tellable`), and that a line that is read and is about incoming packets matches what its rule describes.

Three arguments are about texts. *Globs:* after each character of the pattern, the position of the greedy search is compared with the
set of places the pattern can have come to by any choice of what the stars stand for: a match that exists is never
given up, and one that is found exists (`GlobsAreExact`). *Splits:* `Split` is a fold as well; where a text is the join of two, and a separator
stands between them, its pieces are those of the one followed by those of the other. So the numbers of a release are those of the kernel
it names, and what stands behind the marker of a modalias is what the bus wrote there. A text joined with dots and split at the dots is
its parts again, and a number is read from the digits `Show` finds for it, which exist since some text was parsed to it; hence
`TextsAgree`. *Key stores:* a store loaded file by file holds for each identifier the key of the last file that has it
(`KeyedBy`); it is the same in the reverse order if no two files share an identifier. What a filter or a sort
leaves is known the same way, one member at a time (`StepsAre`, `SortIs`): nothing is lost, and of equal ones the earlier stays first.

The theorems about `Questions` then follow, since what is asked is among what the theorems cover; `NoneAssumption`
says that None is none of the values a question can hold. Texts are over the alphabet of the model (`TextsAgree` over any larger
one too); numbers and lengths are unbounded.

What no theorem states and TLC alone checks: everything under fairness (`EngineFinishes`, `EveryCallIsAnswered`,
`DownloadReturns`, `ChangeIsListed`), as liveness is out of the prover's reach, and what is about the two runs that expect a violation:
nothing is proved of `UpdatedIsLoaded`, which is false.

## 6. Disagreements between code and documents

Two have a run of their own; `PROJECT.json` quotes both sides.

* `engine_update_reloads`: an update unloads the module and, if nothing is staged and the module is in the kernel
  tree, reports success without loading it again. The status is then Active ("Driver is loaded and active", `inventory.rs:382`).
* `runtime_starved`: as many handlers waiting for the scanner mutex as there are workers keep PolKit's reply
  from the one that holds it; no method is answered again (`IPC_ARCHITECTURE.md:77`).

Met on the way, by reading or by a property that had to be weakened; the comments on the properties name the exceptions:

Engine
* A rollback reloads a module from the package store only and drops the result, so one that came from the kernel
  tree stays unloaded (`execution.rs:706`; "Reload module if it was loaded before", 704).
* An update is not checked for conflicts, so nvidia can be loaded beside nouveau: `check_update` (`conflict.rs:217`) has no caller,
  and `main.rs:29` promises the check. It would also treat an equal version as a downgrade.
* Nothing deletes a staged file after an installation (`package.rs:52`).
* `kmod.rs:404` names the flag it passes on a forced unload `O_TRUNC`; its value is that of `O_WRONLY`, which
  `delete_module` ignores: a forced removal of a module in use fails as any other does (`BusyModuleSurvives` has no exception). `unload_flags` in the model is what the code passes.
* nvidia is listed as Available after every scan, loaded or not, so that `module_in_use` does not protect it
  after a rescan: `UnforcedRemovalKeepsTracked` holds of tracked drivers only. An entry is Installed
  after an installation from the kernel tree that loads nothing.
* A module that is being loaded or unloaded is loaded for `is_loaded` and missing from `get_loaded_modules`; a compressed or
  updated module is found by `module_available` and not listed by `list_available_modules` (`KernelModules`).

Devices
* ScanHardware replaces the list the poll task had matched and does not match drivers itself (`dbus.rs:291`, against `main.rs:124`, `main.rs:284` and
  `inventory.rs:527`): until the next hardware event a listing shows devices without matched drivers.
* `poll_events` remembers a directory's time even if it could not enumerate it, and compares whole seconds; the documentation
  promises best effort (`hwdetect.rs:339`).
* The device identifier is cut out of a modalias at the first `d`: a USB device of revision 0000 gets its class, an SDIO
  device nothing (`hwdetect.rs:455`).
* A pattern's `?` is literal in the code; the comment says it matches any character (`matching.rs:478`). `/proc/config.gz` is
  not decompressed (`matching.rs:139`).

Downloads, packages, manifests
* A refused range is asked for again with the same offset until the retries are used up (`download.rs:602` and 427, against 32).
* A resumed attempt that fails while reading leaves the partial file longer; the next one asks for the old offset, appends, and the
  digest of a package whose every byte was right does not match. `FreshIsFaithful` is therefore about bodies read from the start and
  about first attempts, and the hazard at `download.rs:427` has no property for the others: the code has none to offer.
* After the rename to the destination the process may die, reading the file back may fail (`DiskFails`), or the removal of what was refused may fail, its
  error being dropped (`download.rs:457`, 477): unverified or refused bytes stay there. Only an `Ok` says otherwise; `OkIsVerified` names the cases in `leftover`.
* The removal of the partial file is not looked at either (`download.rs:458`, 493, 688), so it may outlive an `Ok` and be resumed
  by a later call.
* Nothing but a resumed attempt writes `dl-*.part` files, and a resumed attempt needs one: today's program never creates the first.
* `enforce_limits` takes a directory it cannot read for an empty one and passes over entries without metadata (`cache.rs:330`, 340, 351, 384, 393), and subtracts
  what it failed to remove (411). It then returns Ok with the limits exceeded: `EnforceMeetsLimits` is about calls that overlooked no file and whose every removal succeeded.
* The default source's key `mission-os-release-key` (`source.rs:375`) is no hexadecimal key, so that the signature check passes over it. A manifest may write the
  algorithm `Sha256`, which the digest parser refuses. Metadata may describe two gigabytes (`metadata.rs:227`), the fetcher takes
  one (`fetch.rs:137`). A kernel range may be empty. The duplicate check of a manifest compares texts, though `1.2.3` and `1.2.3.0` are one version.
* A manifest that fails validation leaves no audit record; `FreshnessPolicy::validate` has no caller; nothing compares a manifest with
  the last accepted one, so that only its age bounds a step back (`ReplayIsBounded`).
* The signature of `x.ko.xz` is looked for as `x.ko.ko.sig` and `x.ko.sig`, the latter that of its neighbour (`package.rs:134`). Two key
  files with one identifier: the last one read counts. `create_source_from_id` and `SourceId::new` know different identifiers.
* The documented order of selection (`selector.rs:88`) is not that of the comparison (247). A package without key from a source with keys is judged by
  the source's type.
* Pre-releases of drivers are compared as texts (rc10 before rc2); `Version` is equal only if its build is, while its order ignores
  the build.

Services
* Sequence numbers begin at 0 again with the process. Signals may be sent in the order opposite to their numbers (`dbus.rs:739`).
* An unreadable configuration file makes the services use their defaults (`ServiceLoad`); programs get an error. `require_signature` of the
  configuration is only logged and `audit.enabled` never read.
* securityd answers success to firewall requests and applies nothing. In the ruleset it would generate, rules of the user stand outside
  any chain, the direction is not written (`nftables.rs:184`), and ports given with icmp or another protocol are dropped.
* nftables does not read every line of that ruleset: `tcp` and `udp` are written without a port, or with both (`nftables.rs:215`), addresses of IPv6 behind
  `ip saddr` and `ip daddr` (205, 210). The name of a rule is written as it is into the comment of its line and into the remark for a disabled one (188, 255),
  against "No arbitrary strings are interpolated into rules without escaping" (17). `LineIsRule` says which rules are read.

## 7. Not modelled

* Parsing and formatting of JSON requests, HTTP headers and TOML. They are inputs: the models are free in what they yield.
* Cryptography: a signature or digest is right or not. The crypto library is third-party arithmetic behind small wrappers.
* The texts of answers, audit events, errors and logs.
* Backoff times, modification times of cache entries, the counters of a listing, sizes of modules.
* `check_update`, `cleanup_all` and `RepositoryId::new`, which have no caller. The selector and the repository manager have none outside the tests
  either (`refresh_metadata` is a placeholder); they are modelled as what their future caller gets.
* The core library's IPC (a connection that reaches no bus), paths, logging and system information; the UI library, installer, build
  scripts, desktop defaults and packaging; tests and workflows. They keep no state that two of their calls or
  processes share, or are sequences of external tools.

`PROJECT.json` says of each component what was left out.

## 8. Plan

What would come next, in this order:

1. Saves without `Exclusive` in `ConfigStore`, should the code give each saver a temporary name of its own: then `FileIsWhole` without
   precondition.
2. The composition of `PackageDownload` and `PackageCache` once a caller connects them: the two name partial files differently today.
3. The composition of `RepositoryTrust`, `DriverSelection` and `PackageDownload` once `refresh_metadata` does its work, with a promise of its own:
   what is installed was in a fresh manifest.
4. `MayFail = TRUE` in `HardwareDetection` with a weaker promise than `OnlySameSecondIsLost`.
5. Proofs with weaker hypotheses: which of the properties of inventory and kernel remain if others load modules between two operations
   (`NobodyElseLoads`).
