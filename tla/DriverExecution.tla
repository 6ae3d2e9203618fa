-------------------------- MODULE DriverExecution --------------------------
(***************************************************************************)
(* The driver execution engine of mission-driverd: what InstallDriver,     *)
(* RemoveDriver and UpdateDriver do to the driver inventory (memory of the *)
(* daemon) and to the kernel's loaded modules, while other callers, the    *)
(* hardware poll task, the administrator's package staging and the kernel  *)
(* itself take their own steps.                                            *)
(*                                                                         *)
(* A request is authorized in its D-Bus handler, waits for the scanner     *)
(* mutex, and is then executed by the engine, synchronously, under that    *)
(* mutex.  The mutex keeps requests and rescans apart; it does not stop    *)
(* the kernel or the package store from changing between two steps of the  *)
(* engine, so every step that reads or changes them is an action here.     *)
(*                                                                         *)
(* Every entry the daemon can list is a kernel module: the only code that  *)
(* fills the list is populate_builtin_drivers.  The arms of the engine for *)
(* firmware, userspace and overlay drivers are never reached and are not   *)
(* modelled; nor is check_dependents, which finds nothing in that list.    *)
(***************************************************************************)
EXTENDS FiniteSets

CONSTANTS
  Callers,       \* D-Bus clients of org.mission.Driver1.Management
  Drivers,       \* module names of the built-in inventory
  Foreign,       \* other kernel modules (nouveau, iwlegacy)
  Tracked,       \* drivers whose status a scan derives from /proc/modules
  InTree,        \* drivers with a module file under /lib/modules
  Incompatible,  \* drivers that fail the kernel or architecture check
  Conflicting,   \* the table of mutually exclusive modules
  Packages,      \* contents a staged package file can have
  Trusted,       \* packages an enabled trusted key has signed
  Loadable,      \* packages the kernel accepts
  Requests,      \* the requests callers make (bounds the model)
  Autoload,      \* modules that others load and unload on their own
  InUse,         \* modules that others use while they are loaded
  Transient,     \* may a module syscall fail for want of memory and the like
  MayCrash,      \* may the daemon be killed and restarted
  AutoDetect,    \* config.inventory.auto_detect_on_start
  DevMode,       \* MISSION_ALLOW_UNAUTHORIZED is set
  AllowUnsigned, \* config.verification.allow_unsigned
  NoPackage,     \* no file in the package store
  NoRequest,     \* the caller has no handler running
  Free           \* nobody holds the scanner mutex

Modules == Drivers \cup Foreign

Statuses    == {"Available", "Installed", "Active", "Removed"}
Operational == {"Installed", "Active"}

\* What a client may ask for.  force is read by install and remove, target
\* (relative to the version of the entry) and allowDowngrade by update.
RequestSpace ==
  [kind : {"install", "remove", "update"}, driver : Drivers, force : BOOLEAN,
   target : {"unset", "older", "notOlder", "malformed"},
   allowDowngrade : BOOLEAN]

ASSUME ModulesAssumption ==
  /\ Drivers \cap Foreign = {}
  /\ Tracked \subseteq Drivers
  /\ InTree \subseteq Drivers
  /\ Incompatible \subseteq Drivers
  /\ Conflicting \in [Drivers -> SUBSET Modules]
  /\ Autoload \subseteq Modules
  /\ InUse \subseteq Modules

ASSUME RequestsAssumption ==
  /\ Requests \subseteq RequestSpace
  /\ NoRequest \notin RequestSpace

ASSUME PackagesAssumption ==
  /\ Trusted \subseteq Packages
  /\ Loadable \subseteq Packages
  /\ NoPackage \notin Packages

ASSUME FreeAssumption == Free \notin Callers

ASSUME FlagsAssumption ==
  {Transient, MayCrash, AutoDetect, DevMode, AllowUnsigned} \subseteq BOOLEAN

VARIABLES
  status,   \* inventory.drivers: status of each entry, or "Unlisted"
  loaded,   \* kernel modules that are loaded
  busy,     \* loaded modules something holds a reference to
  staged,   \* content of each driver's file in the package store
  sigfile,  \* the package that driver's signature file there was made for
  pc,       \* where each caller's handler is
  req,      \* the request a caller's handler serves
  scanner,  \* holder of AppState.scanner, or Free
  tracker,  \* OperationTracker.saved_states
  answer,   \* the last answer each caller got
  before    \* history: inventory and modules when the mutex was taken

kernelVars == <<loaded, busy>>
storeVars  == <<staged, sigfile>>
handlerVars == <<pc, req, scanner, answer, before>>
vars == <<status, kernelVars, storeVars, tracker, handlerVars>>

EnginePhases == {"check", "verify", "save", "probe", "unload", "place",
                 "load", "commit", "rollback"}
\* The phases in which the engine has saved the state it may roll back to.
SavedPhases  == {"probe", "unload", "place", "load", "commit", "rollback"}

SavedStates == [caller : Callers, driver : Drivers,
                status : Statuses, wasLoaded : BOOLEAN]

\* The driver caller c's request names.
d(c) == req[c].driver

-----------------------------------------------------------------------------
(***************************************************************************)
(* The inventory scan.                                                     *)
(***************************************************************************)

MutPopulate(mods) == [x \in Drivers |-> "Available"]

\* populate_builtin_drivers rebuilds the whole list from /proc/modules.
populate_builtin_drivers(mods) ==
  [x \in Drivers |-> IF x \in Tracked \cap mods THEN "Active" ELSE "Available"]

\* The inventory of a daemon that has just started.
StartInventory(mods) ==
  IF AutoDetect THEN populate_builtin_drivers(mods)
                ELSE [x \in Drivers |-> "Unlisted"]

NothingBefore == [status |-> [x \in Drivers |-> "Unlisted"], loaded |-> {}]

Init ==
  /\ loaded \in SUBSET Modules
  /\ busy = {}
  /\ status = StartInventory(loaded)
  /\ staged = [x \in Drivers |-> NoPackage]
  /\ sigfile = [x \in Drivers |-> NoPackage]
  /\ pc = [c \in Callers |-> "idle"]
  /\ req = [c \in Callers |-> NoRequest]
  /\ scanner = Free
  /\ tracker = {}
  /\ answer = [c \in Callers |-> "none"]
  /\ before = NothingBefore

MutRescan ==
  /\ status' = populate_builtin_drivers(loaded)
  /\ UNCHANGED <<kernelVars, storeVars, tracker, handlerVars>>

\* The poll task after a hardware event, or an authorized ScanHardware call.
Rescan ==
  /\ scanner = Free
  /\ status' = populate_builtin_drivers(loaded)
  /\ UNCHANGED <<kernelVars, storeVars, tracker, handlerVars>>

-----------------------------------------------------------------------------
(***************************************************************************)
(* The D-Bus handlers.                                                     *)
(***************************************************************************)

\* A handler parses, validates and authorizes a request, announces it and
\* waits for the mutex.
Submit(c) ==
  /\ pc[c] = "idle"
  /\ \E r \in Requests : req' = [req EXCEPT ![c] = r]
  /\ pc' = [pc EXCEPT ![c] = "queued"]
  /\ answer' = [answer EXCEPT ![c] = "none"]
  /\ UNCHANGED <<status, kernelVars, storeVars, scanner, tracker, before>>

\* The handler's own authorization check says no.
Refuse(c) ==
  /\ pc[c] = "idle"
  /\ ~DevMode
  /\ answer' = [answer EXCEPT ![c] = "Denied"]
  /\ UNCHANGED <<status, kernelVars, storeVars, pc, req, scanner, tracker, before>>

\* The handler gets the mutex and calls the engine.
Acquire(c) ==
  /\ pc[c] = "queued"
  /\ scanner = Free
  /\ scanner' = c
  /\ pc' = [pc EXCEPT ![c] = "check"]
  /\ before' = [status |-> status, loaded |-> loaded]
  /\ UNCHANGED <<status, kernelVars, storeVars, req, tracker, answer>>

\* The engine returns a, and the handler releases the mutex and answers.
Return(c, a) ==
  /\ pc' = [pc EXCEPT ![c] = "idle"]
  /\ req' = [req EXCEPT ![c] = NoRequest]
  /\ scanner' = Free
  /\ answer' = [answer EXCEPT ![c] = a]
  /\ before' = NothingBefore

\* The engine goes on to phase ph without touching inventory or kernel.
Continue(c, ph) ==
  /\ pc' = [pc EXCEPT ![c] = ph]
  /\ UNCHANGED <<req, scanner, answer, before>>

-----------------------------------------------------------------------------
(***************************************************************************)
(* The engine: checks made before anything is saved.                       *)
(***************************************************************************)

\* The conflicts the detector can find; kernel and architecture are one.
check_kernel(x)              == x \in Incompatible
check_duplicate(x)           == status[x] \in Operational
check_conflicting_modules(x) == Conflicting[x] \cap loaded # {}
check_module_in_use(x)       == x \in loaded

check_install(x) == check_kernel(x) \/ check_duplicate(x) \/ check_conflicting_modules(x)

MutCheckRemove(x) == FALSE

\* check_remove: a loaded module counts as in use if its entry says that the
\* driver is operational.
check_remove(x) == status[x] \in Operational /\ check_module_in_use(x)

\* Downgrade protection of update.
downgrade(r) ==
  \/ r.target = "malformed"
  \/ r.target = "older" /\ ~r.allowDowngrade

\* The reasons for which the engine turns a request down.
Blocked(r) ==
  \/ status[r.driver] = "Unlisted"
  \/ r.kind = "install" /\ ~r.force /\ check_install(r.driver)
  \/ r.kind = "remove" /\ ~r.force /\ check_remove(r.driver)
  \/ r.kind = "update" /\ downgrade(r)

\* The engine's second authorization check says no, or the request is blocked.
Reject(c) ==
  /\ pc[c] = "check"
  /\ Blocked(req[c]) \/ ~DevMode
  /\ Return(c, "Failed")
  /\ UNCHANGED <<status, kernelVars, storeVars, tracker>>

\* Authorized and not blocked; only an install verifies the package.
Check(c) ==
  /\ pc[c] = "check"
  /\ ~Blocked(req[c])
  /\ Continue(c, IF req[c].kind = "install" THEN "verify" ELSE "save")
  /\ UNCHANGED <<status, kernelVars, storeVars, tracker>>

\* verify_package on a package file and a signature file: without a signature
\* the policy decides; with one, a trusted key must have signed this package.
verify_package(file, sig) ==
  \/ sig = NoPackage /\ AllowUnsigned
  \/ sig # NoPackage /\ file = sig /\ file \in Trusted

Verify(c) ==
  /\ pc[c] = "verify"
  /\ IF verify_package(staged[d(c)], sigfile[d(c)]) \/ DevMode
     THEN Continue(c, "save")
     ELSE Return(c, "Failed")
  /\ UNCHANGED <<status, kernelVars, storeVars, tracker>>

-----------------------------------------------------------------------------
(***************************************************************************)
(* The engine: saved state and module syscalls.                            *)
(***************************************************************************)

\* save_state: the entry, and whether the module is loaded now.
Save(c) ==
  /\ pc[c] = "save"
  /\ tracker' = tracker \cup {[caller |-> c, driver |-> d(c),
                               status |-> status[d(c)],
                               wasLoaded |-> d(c) \in loaded]}
  /\ Continue(c, IF req[c].kind = "install" THEN "place" ELSE "probe")
  /\ UNCHANGED <<status, kernelVars, storeVars>>

MutProbe(c) ==
  /\ pc[c] = "probe"
  /\ Continue(c, IF req[c].kind = "remove" THEN "commit"
                 ELSE IF d(c) \in loaded THEN "unload" ELSE "place")
  /\ UNCHANGED <<status, kernelVars, storeVars, tracker>>

\* is_loaded, asked by remove and update before they unload.
Probe(c) ==
  /\ pc[c] = "probe"
  /\ Continue(c, IF d(c) \in loaded THEN "unload"
                 ELSE IF req[c].kind = "remove" THEN "commit" ELSE "place")
  /\ UNCHANGED <<status, kernelVars, storeVars, tracker>>

\* The flags its comment names (kmod.rs:404).
MutUnloadFlags(force) == IF force THEN {"O_NONBLOCK", "O_TRUNC"} ELSE {"O_NONBLOCK"}

\* The flags unload_module passes to delete_module: 0x0001 is O_WRONLY.
unload_flags(force) ==
  IF force THEN {"O_NONBLOCK", "O_WRONLY"} ELSE {"O_NONBLOCK"}

\* Only remove passes the request's force flag on.
forced(c) == req[c].kind = "remove" /\ req[c].force

\* delete_module(2): refuses a module in use unless told to truncate it.
delete_module_ok(m, flags) ==
  m \in loaded /\ (m \notin busy \/ "O_TRUNC" \in flags)

Unload(c) ==
  /\ pc[c] = "unload"
  /\ \/ /\ delete_module_ok(d(c), unload_flags(forced(c)))
        /\ loaded' = loaded \ {d(c)}
        /\ busy' = busy \ {d(c)}
        /\ Continue(c, IF req[c].kind = "remove" THEN "commit" ELSE "place")
     \/ /\ Transient \/ ~delete_module_ok(d(c), unload_flags(forced(c)))
        /\ Continue(c, "rollback")
        /\ UNCHANGED kernelVars
  /\ UNCHANGED <<status, storeVars, tracker>>

\* execute_install up to the syscall: load the staged file if there is one;
\* a module of the kernel tree is taken as installed without loading it.
Place(c) ==
  /\ pc[c] = "place"
  /\ Continue(c, IF staged[d(c)] # NoPackage THEN "load"
                 ELSE IF d(c) \in InTree THEN "commit" ELSE "rollback")
  /\ UNCHANGED <<status, kernelVars, storeVars, tracker>>

\* init_module(2) on the staged file: fails if there is none, if the kernel
\* does not take it, or if the module is loaded already.
init_module_ok(m) == staged[m] \in Loadable /\ m \notin loaded

MutLoad(c) ==
  /\ pc[c] = "load"
  /\ \/ /\ init_module_ok(d(c))
        /\ loaded' = loaded \cup {d(c)}
        /\ Continue(c, "commit")
     \/ /\ Transient \/ ~init_module_ok(d(c))
        /\ Continue(c, "load")
        /\ UNCHANGED loaded
  /\ UNCHANGED <<status, busy, storeVars, tracker>>

Load(c) ==
  /\ pc[c] = "load"
  /\ \/ /\ init_module_ok(d(c))
        /\ loaded' = loaded \cup {d(c)}
        /\ Continue(c, "commit")
     \/ /\ Transient \/ ~init_module_ok(d(c))
        /\ Continue(c, "rollback")
        /\ UNCHANGED loaded
  /\ UNCHANGED <<status, busy, storeVars, tracker>>

-----------------------------------------------------------------------------
(***************************************************************************)
(* The engine: the end of an operation.                                    *)
(***************************************************************************)

MutUpdatedStatus(kind) ==
  IF kind = "install" THEN "Installed"
  ELSE IF kind = "remove" THEN "Removed" ELSE "PendingReboot"

MutDoneStatus(kind) ==
  IF kind = "install" THEN "Available"
  ELSE IF kind = "remove" THEN "Removed" ELSE "Active"

\* The status a completed operation gives the entry.
done_status(kind) ==
  IF kind = "install" THEN "Installed"
  ELSE IF kind = "remove" THEN "Removed" ELSE "Active"

saved_by(c) == {s \in tracker : s.caller = c}

Commit(c) ==
  /\ pc[c] = "commit"
  /\ status' = [status EXCEPT ![d(c)] = done_status(req[c].kind)]
  /\ tracker' = tracker \ saved_by(c)
  /\ Return(c, "Completed")
  /\ UNCHANGED <<kernelVars, storeVars>>

MutRollbackLeaks(c) ==
  /\ pc[c] = "rollback"
  /\ \E s \in saved_by(c) :
       /\ status' = [status EXCEPT ![s.driver] = s.status]
       /\ \/ /\ s.wasLoaded /\ init_module_ok(s.driver)
             /\ loaded' = loaded \cup {s.driver}
          \/ /\ ~s.wasLoaded \/ Transient \/ ~init_module_ok(s.driver)
             /\ UNCHANGED loaded
  /\ Return(c, "Failed")
  /\ UNCHANGED <<busy, storeVars, tracker>>

MutRollbackLoads(c) ==
  /\ pc[c] = "rollback"
  /\ \E s \in saved_by(c) :
       /\ status' = [status EXCEPT ![s.driver] = s.status]
       /\ tracker' = tracker \ {s}
       /\ loaded' = IF init_module_ok(s.driver) THEN loaded \cup {s.driver}
                                               ELSE loaded
  /\ Return(c, "Failed")
  /\ UNCHANGED <<busy, storeVars>>

\* rollback_operation: the entry is restored; the module is loaded again from
\* the package store if it was loaded, and the result of that is dropped.
\* The code answers Failed as well when no state was saved; that cannot be:
\* TrackerMatchesEngine.
Rollback(c) ==
  /\ pc[c] = "rollback"
  /\ \E s \in saved_by(c) :
       /\ status' = [status EXCEPT ![s.driver] = s.status]
       /\ tracker' = tracker \ {s}
       /\ \/ /\ s.wasLoaded /\ init_module_ok(s.driver)
             /\ loaded' = loaded \cup {s.driver}
          \/ /\ ~s.wasLoaded \/ Transient \/ ~init_module_ok(s.driver)
             /\ UNCHANGED loaded
  /\ Return(c, "Failed")
  /\ UNCHANGED <<busy, storeVars>>

EngineStep(c) ==
  \/ Check(c) \/ Reject(c) \/ Verify(c) \/ Save(c) \/ Probe(c)
  \/ Unload(c) \/ Place(c) \/ Load(c) \/ Commit(c) \/ Rollback(c)

-----------------------------------------------------------------------------
(***************************************************************************)
(* What happens around the engine.                                         *)
(***************************************************************************)

\* PackageStore.stage_local copies a package into the store, without the
\* signature file beside it.
Stage(x, p) ==
  /\ staged' = [staged EXCEPT ![x] = p]
  /\ UNCHANGED <<status, kernelVars, sigfile, tracker, handlerVars>>

\* PackageStore.remove_staged deletes it, and leaves a signature file behind.
Unstage(x) ==
  /\ staged' = [staged EXCEPT ![x] = NoPackage]
  /\ UNCHANGED <<status, kernelVars, sigfile, tracker, handlerVars>>

\* The administrator puts a signature file into the store, or removes it.
OtherSigns(x, p) ==
  /\ sigfile' = [sigfile EXCEPT ![x] = p]
  /\ UNCHANGED <<status, kernelVars, staged, tracker, handlerVars>>

\* Somebody else loads a module, unloads it, starts or stops using it.
OtherLoads(m) ==
  /\ m \in Autoload \ loaded
  /\ loaded' = loaded \cup {m}
  /\ UNCHANGED <<status, busy, storeVars, tracker, handlerVars>>

OtherUnloads(m) ==
  /\ m \in (Autoload \cap loaded) \ busy
  /\ loaded' = loaded \ {m}
  /\ UNCHANGED <<status, busy, storeVars, tracker, handlerVars>>

OtherUses(m) ==
  /\ m \in InUse \cap loaded
  /\ busy' = IF m \in busy THEN busy \ {m} ELSE busy \cup {m}
  /\ UNCHANGED <<status, loaded, storeVars, tracker, handlerVars>>

\* The daemon dies at any point and is started again: what it kept in memory
\* is gone, the kernel and the package store are as they were.
Crash ==
  /\ MayCrash
  /\ status' = StartInventory(loaded)
  /\ pc' = [c \in Callers |-> "idle"]
  /\ req' = [c \in Callers |-> NoRequest]
  /\ scanner' = Free
  /\ tracker' = {}
  /\ answer' = [c \in Callers |-> "none"]
  /\ before' = NothingBefore
  /\ UNCHANGED <<kernelVars, storeVars>>

Next ==
  \/ \E c \in Callers : Submit(c) \/ Refuse(c) \/ Acquire(c) \/ EngineStep(c)
  \/ Rescan
  \/ \E x \in Drivers : Unstage(x) \/ \E p \in Packages : Stage(x, p)
  \/ \E x \in Drivers, p \in Packages \cup {NoPackage} : OtherSigns(x, p)
  \/ \E m \in Modules : OtherLoads(m) \/ OtherUnloads(m) \/ OtherUses(m)
  \/ Crash

Spec == Init /\ [][Next]_vars

\* The engine is synchronous code: once it has the mutex it runs on.
FairSpec == Spec /\ \A c \in Callers : WF_vars(EngineStep(c))

-----------------------------------------------------------------------------
(***************************************************************************)
(* Properties.                                                             *)
(***************************************************************************)

\* Type correctness of the inventory, the kernel's module lists, the package
\* store, the handlers and OperationTracker.saved_states.
TypeOK ==
  /\ status \in [Drivers -> Statuses \cup {"Unlisted"}]
  /\ loaded \subseteq Modules
  /\ busy \subseteq Modules
  /\ staged \in [Drivers -> Packages \cup {NoPackage}]
  /\ sigfile \in [Drivers -> Packages \cup {NoPackage}]
  /\ pc \in [Callers -> {"idle", "queued"} \cup EnginePhases]
  /\ req \in [Callers -> Requests \cup {NoRequest}]
  /\ scanner \in Callers \cup {Free}
  /\ tracker \subseteq SavedStates
  /\ answer \in [Callers -> {"none", "Completed", "Failed", "Denied"}]
  /\ before \in [status : [Drivers -> Statuses \cup {"Unlisted"}],
                 loaded : SUBSET Modules]

\* At most one handler is inside the engine, the one that holds the scanner
\* mutex, and OperationTracker holds exactly the state that handler saved: the
\* entry as the inventory still has it.  So rollback_operation always finds
\* its state, what it restores is current, and no saved state is ever leaked.
TrackerMatchesEngine ==
  /\ \A c \in Callers : pc[c] \in EnginePhases <=> scanner = c
  /\ \A s \in tracker : /\ scanner = s.caller
                        /\ pc[s.caller] \in SavedPhases
                        /\ s.driver = d(s.caller)
                        /\ s.status = status[s.driver]
  /\ \A c \in Callers :
       pc[c] \in SavedPhases => \E s \in tracker : saved_by(c) = {s}

\* An operation that answers Failed leaves the whole inventory as it was when
\* the operation got the scanner mutex, whatever failed and at whichever step
\* (the end-to-end rollback tests of execution.rs, for every interleaving).
FailedLeavesInventory ==
  [][\A c \in Callers :
       scanner = c /\ scanner' = Free /\ answer'[c] = "Failed"
         => status' = before.status]_vars

\* If nobody else loads modules: an install or a removal that answers Failed
\* leaves the driver's module loaded or not as it found it (execute_install,
\* execute_remove and the reload in rollback_operation taken together).
FailedLeavesModule ==
  [][\A c \in Callers :
       (/\ scanner = c /\ scanner' = Free /\ answer'[c] = "Failed"
        /\ req[c].kind # "update")
         => (d(c) \in loaded' <=> d(c) \in before.loaded)]_vars

\* The operation in flight, if any, is on driver x.
InFlight(x) == \E c \in Callers : pc[c] \in SavedPhases /\ d(c) = x

\* If nobody else loads modules, a driver listed as Removed has no module in
\* the kernel, whatever operations, rescans and restarts came in between.
RemovedIsUnloaded ==
  \A x \in Drivers : status[x] = "Removed" /\ ~InFlight(x) => x \notin loaded

\* If nobody else loads modules, the inventory lists a loaded module of a
\* tracked driver as operational (which is what check_remove relies on).
TrackedLoadedIsOperational ==
  \A x \in Tracked : x \in loaded /\ status[x] # "Unlisted" /\ ~InFlight(x)
                       => status[x] \in Operational

\* If nobody else loads modules, a removal without force never gets as far as
\* unloading a tracked driver's module: module_in_use stops it.
UnforcedRemovalKeepsTracked ==
  \A c \in Callers :
    pc[c] = "unload" /\ req[c].kind = "remove" /\ d(c) \in Tracked => req[c].force

\* No step of the daemon or of anybody else takes away a module in use, not even
\* a forced removal: it may come between the request, the check and the system
\* call that the module is taken into use, and the flags of a forced unload are
\* not those that make the kernel take it away (kmod.rs:404).
BusyModuleSurvives == [][\A m \in busy : m \in loaded']_vars

\* An operation that has the scanner mutex gives it back: no path through the
\* engine, the rollback included, runs round in circles or gets stuck.
EngineFinishes == \A c \in Callers : scanner = c ~> scanner # c

\* execution.rs:675 "Reload new version" and inventory.rs:382 "Driver is
\* loaded and active": a completed update leaves the module it unloaded loaded.
UpdatedIsLoaded ==
  [][\A c \in Callers :
       (/\ pc[c] = "commit" /\ pc'[c] = "idle" /\ req[c].kind = "update"
        /\ d(c) \in before.loaded) => d(c) \in loaded']_vars

-----------------------------------------------------------------------------
\* The engine implements the promise of DriverLifecycle: every request takes
\* effect on the inventory at one instant, or not at all.
Lifecycle == INSTANCE DriverLifecycle
               WITH pending <- req, Nothing <- NoRequest
LifecycleSpec == Lifecycle!Spec
=============================================================================
