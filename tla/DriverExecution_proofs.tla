----------------------- MODULE DriverExecution_proofs -----------------------
(***************************************************************************)
(* Proofs about DriverExecution, for any set of callers, drivers, packages *)
(* and requests.  The inductive invariant has five parts: the types; that  *)
(* a handler that is not idle has a request; that the saved states are     *)
(* those of the engine's current operation; that the inventory is still    *)
(* what it was when the scanner mutex was taken; and that an operation     *)
(* that passed the checks is about a driver the inventory lists.  Related, *)
(* at the end, adds what holds between inventory and kernel when nobody    *)
(* but the daemon loads or unloads modules.                                *)
(***************************************************************************)
EXTENDS DriverExecution, TLAPS

\* A caller has a request pending exactly while its handler is not idle.
PendingHasRequest ==
  \A c \in Callers : /\ pc[c] = "idle" => req[c] = NoRequest
                     /\ pc[c] # "idle" => req[c] \in Requests

\* The engine does not touch the inventory before it commits or rolls back.
InventoryAsBefore == scanner # Free => status = before.status

\* Past its checks the engine works on an entry of the inventory.
DriverIsListed ==
  \A c \in Callers :
    pc[c] \in EnginePhases \ {"check"} => status[d(c)] # "Unlisted"

IInv ==
  /\ TypeOK
  /\ PendingHasRequest
  /\ TrackerMatchesEngine
  /\ InventoryAsBefore
  /\ DriverIsListed

\* What a request is made of, for the steps that read it.
LEMMA RequestFields ==
  ASSUME NEW r \in Requests
  PROVE  /\ r.driver \in Drivers
         /\ r.kind \in {"install", "remove", "update"}
         /\ done_status(r.kind) \in Statuses
BY RequestsAssumption DEF RequestSpace, done_status, Statuses

\* A scan and a start of the daemon give every entry a status.
LEMMA ScanIsInventory ==
  ASSUME NEW mods
  PROVE  /\ populate_builtin_drivers(mods) \in [Drivers -> Statuses]
         /\ StartInventory(mods) \in [Drivers -> Statuses \cup {"Unlisted"}]
BY DEF populate_builtin_drivers, StartInventory, Statuses

\* With the mutex free no state is saved.
LEMMA FreeMeansNothingSaved ==
  ASSUME TypeOK, TrackerMatchesEngine, scanner = Free
  PROVE  /\ tracker = {}
         /\ \A c \in Callers : pc[c] \notin EnginePhases
BY FreeAssumption DEF TypeOK, TrackerMatchesEngine, SavedStates

LEMMA InitIInv == Init => IInv
<1> SUFFICES ASSUME Init PROVE IInv
  OBVIOUS
<1>1. TypeOK
  BY ScanIsInventory DEF Init, TypeOK, NothingBefore
<1>2. PendingHasRequest
  BY DEF Init, PendingHasRequest
<1>3. TrackerMatchesEngine
  BY FreeAssumption DEF Init, TrackerMatchesEngine, EnginePhases, SavedPhases
<1>4. InventoryAsBefore
  BY DEF Init, InventoryAsBefore
<1>5. DriverIsListed
  BY DEF Init, DriverIsListed, EnginePhases
<1>6. QED
  BY <1>1, <1>2, <1>3, <1>4, <1>5 DEF IInv

\* Steps of the environment change neither handlers nor inventory.
LEMMA OutsideStep ==
  ASSUME IInv, UNCHANGED <<status, tracker, handlerVars>>,
         loaded' \subseteq Modules, busy' \subseteq Modules,
         staged' \in [Drivers -> Packages \cup {NoPackage}],
         sigfile' \in [Drivers -> Packages \cup {NoPackage}]
  PROVE  IInv'
<1>1. TypeOK'
  BY DEF IInv, TypeOK, handlerVars
<1>2. PendingHasRequest'
  BY DEF IInv, PendingHasRequest, handlerVars
<1>3. TrackerMatchesEngine'
  BY DEF IInv, TrackerMatchesEngine, handlerVars, saved_by, d
<1>4. InventoryAsBefore'
  BY DEF IInv, InventoryAsBefore, handlerVars
<1>5. DriverIsListed'
  BY DEF IInv, DriverIsListed, handlerVars, d
<1>6. QED
  BY <1>1, <1>2, <1>3, <1>4, <1>5 DEF IInv

-----------------------------------------------------------------------------
(***************************************************************************)
(* Steps of the engine.  All of them either go on to another phase or      *)
(* return, and the two lemmas below say what each kind preserves.          *)
(***************************************************************************)

\* The caller in the engine is alone there, and what is saved is its own.
LEMMA EngineFacts ==
  ASSUME IInv, NEW c \in Callers, pc[c] \in EnginePhases
  PROVE  /\ scanner = c
         /\ c # Free
         /\ req[c] \in Requests
         /\ d(c) \in Drivers
         /\ \A e \in Callers \ {c} : pc[e] \notin EnginePhases
         /\ pc[c] \notin SavedPhases => tracker = {}
         /\ pc[c] \in SavedPhases =>
              \E s \in SavedStates : /\ tracker = {s}
                                     /\ saved_by(c) = tracker
                                     /\ s.caller = c
                                     /\ s.driver = d(c)
                                     /\ s.status = status[d(c)]
<1>1. scanner = c /\ c # Free
  BY FreeAssumption DEF IInv, TrackerMatchesEngine
<1>2. req[c] \in Requests
  BY DEF IInv, PendingHasRequest, EnginePhases
<1>3. d(c) \in Drivers
  BY <1>2, RequestFields DEF d
<1>4. \A e \in Callers \ {c} : pc[e] \notin EnginePhases
  BY <1>1 DEF IInv, TrackerMatchesEngine
<1>5. \A s \in tracker : /\ s \in SavedStates
                         /\ s.caller = c
                         /\ pc[c] \in SavedPhases
                         /\ s.driver = d(c)
                         /\ s.status = status[d(c)]
  BY <1>1 DEF IInv, TypeOK, TrackerMatchesEngine
<1>6. saved_by(c) = tracker
  BY <1>5 DEF saved_by
<1>7. ASSUME pc[c] \in SavedPhases
      PROVE  \E s \in tracker : tracker = {s}
  BY <1>6, <1>7 DEF IInv, TrackerMatchesEngine
<1>8. QED
  BY <1>1, <1>2, <1>3, <1>4, <1>5, <1>6, <1>7

\* Going on to another phase, with the state saved before and after or at
\* neither time, keeps the invariant whatever happens to the kernel.
LEMMA ContinueStep ==
  ASSUME IInv, NEW c \in Callers, pc[c] \in EnginePhases,
         NEW ph \in EnginePhases, Continue(c, ph),
         pc[c] \in SavedPhases <=> ph \in SavedPhases,
         pc[c] = "check" => status[d(c)] # "Unlisted",
         UNCHANGED <<status, storeVars, tracker>>,
         loaded' \subseteq Modules, busy' \subseteq Modules
  PROVE  IInv'
<1>1. pc' = [pc EXCEPT ![c] = ph] /\ UNCHANGED <<req, scanner, answer, before>>
  BY DEF Continue
<1>2. pc \in [Callers -> {"idle", "queued"} \cup EnginePhases]
  BY DEF IInv, TypeOK
<1>3. TypeOK'
  BY <1>1 DEF IInv, TypeOK, storeVars
<1>4. PendingHasRequest'
  BY <1>1, <1>2 DEF IInv, PendingHasRequest, EnginePhases
<1>5. TrackerMatchesEngine'
  <2>1. \A e \in Callers : pc'[e] \in EnginePhases <=> scanner' = e
    BY <1>1, <1>2 DEF IInv, TrackerMatchesEngine
  <2>2. \A e \in Callers : pc'[e] \in SavedPhases <=> pc[e] \in SavedPhases
    BY <1>1, <1>2
  <2>3. \A s \in tracker : s.caller \in Callers
    BY DEF IInv, TypeOK, SavedStates
  <2>4. QED
    BY <1>1, <2>1, <2>2, <2>3 DEF IInv, TrackerMatchesEngine, saved_by, d
<1>6. InventoryAsBefore'
  BY <1>1 DEF IInv, InventoryAsBefore
<1>7. DriverIsListed'
  BY <1>1, <1>2 DEF IInv, DriverIsListed, d
<1>8. QED
  BY <1>3, <1>4, <1>5, <1>6, <1>7 DEF IInv

\* Returning keeps it if nothing is left saved.
LEMMA ReturnStep ==
  ASSUME IInv, NEW c \in Callers, pc[c] \in EnginePhases,
         NEW a \in {"Completed", "Failed"}, Return(c, a), tracker' = {},
         status' \in [Drivers -> Statuses \cup {"Unlisted"}],
         UNCHANGED storeVars,
         loaded' \subseteq Modules, busy' \subseteq Modules
  PROVE  IInv'
<1>1. /\ pc' = [pc EXCEPT ![c] = "idle"]
      /\ req' = [req EXCEPT ![c] = NoRequest]
      /\ scanner' = Free
      /\ answer' = [answer EXCEPT ![c] = a]
      /\ before' = NothingBefore
  BY DEF Return
<1>2. /\ pc \in [Callers -> {"idle", "queued"} \cup EnginePhases]
      /\ req \in [Callers -> Requests \cup {NoRequest}]
  BY DEF IInv, TypeOK
<1>3. TypeOK'
  BY <1>1 DEF IInv, TypeOK, storeVars, NothingBefore
<1>4. PendingHasRequest'
  BY <1>1, <1>2 DEF IInv, PendingHasRequest
<1>5. \A e \in Callers : pc'[e] \notin EnginePhases
  BY <1>1, <1>2, EngineFacts DEF EnginePhases
<1>6. TrackerMatchesEngine'
  BY <1>1, <1>5, FreeAssumption DEF TrackerMatchesEngine, EnginePhases, SavedPhases
<1>7. InventoryAsBefore'
  BY <1>1 DEF InventoryAsBefore
<1>8. DriverIsListed'
  BY <1>5 DEF DriverIsListed
<1>9. QED
  BY <1>3, <1>4, <1>6, <1>7, <1>8 DEF IInv

-----------------------------------------------------------------------------
(***************************************************************************)
(* The steps outside the engine that change the handlers or the inventory. *)
(***************************************************************************)

LEMMA HandlerStep ==
  ASSUME IInv, NEW c \in Callers, Submit(c) \/ Refuse(c) \/ Acquire(c)
  PROVE  IInv'
<1>0. /\ pc \in [Callers -> {"idle", "queued"} \cup EnginePhases]
      /\ req \in [Callers -> Requests \cup {NoRequest}]
  BY DEF IInv, TypeOK
<1>a. ASSUME NEW s \in tracker PROVE s.caller \in Callers
  BY DEF IInv, TypeOK, SavedStates
<1>1. CASE Submit(c)
  <2>1. TypeOK'
    BY <1>1 DEF IInv, TypeOK, Submit, kernelVars, storeVars
  <2>2. PendingHasRequest'
    BY <1>0, <1>1 DEF IInv, PendingHasRequest, Submit
  <2>3. \A e \in Callers : /\ pc'[e] \in EnginePhases <=> pc[e] \in EnginePhases
                           /\ pc'[e] \in SavedPhases <=> pc[e] \in SavedPhases
                           /\ pc'[e] \in EnginePhases => req'[e] = req[e]
    BY <1>0, <1>1 DEF Submit, EnginePhases, SavedPhases
  <2>4. \A e \in Callers : pc[e] \in SavedPhases => pc[e] \in EnginePhases
    BY DEF EnginePhases, SavedPhases
  <2>5. TrackerMatchesEngine'
    BY <1>1, <1>a, <2>3, <2>4 DEF IInv, TrackerMatchesEngine, Submit, saved_by, d
  <2>6. InventoryAsBefore'
    BY <1>1 DEF IInv, InventoryAsBefore, Submit
  <2>7. DriverIsListed'
    BY <1>0, <1>1, <2>3 DEF IInv, DriverIsListed, Submit, EnginePhases, d
  <2>8. QED
    BY <2>1, <2>2, <2>5, <2>6, <2>7 DEF IInv
<1>2. CASE Refuse(c)
  <2>1. TypeOK'
    BY <1>2 DEF IInv, TypeOK, Refuse, kernelVars, storeVars
  <2>2. PendingHasRequest' /\ TrackerMatchesEngine' /\ InventoryAsBefore'
    BY <1>2 DEF IInv, PendingHasRequest, TrackerMatchesEngine,
                InventoryAsBefore, Refuse, saved_by, d
  <2>3. DriverIsListed'
    BY <1>2 DEF IInv, DriverIsListed, Refuse, d
  <2>4. QED
    BY <2>1, <2>2, <2>3 DEF IInv
<1>3. CASE Acquire(c)
  <2>1. tracker = {} /\ \A e \in Callers : pc[e] \notin EnginePhases
    BY <1>3, FreeMeansNothingSaved DEF IInv, Acquire
  <2>2. TypeOK'
    BY <1>3 DEF IInv, TypeOK, Acquire, kernelVars, storeVars, EnginePhases
  <2>3. PendingHasRequest'
    BY <1>0, <1>3 DEF IInv, PendingHasRequest, Acquire
  <2>4. \A e \in Callers : pc'[e] \in EnginePhases <=> e = c
    BY <1>0, <1>3, <2>1 DEF Acquire, EnginePhases
  <2>5. \A e \in Callers : pc'[e] \notin SavedPhases
    BY <1>0, <1>3, <2>1 DEF Acquire, EnginePhases, SavedPhases
  <2>6. TrackerMatchesEngine'
    BY <1>3, <2>1, <2>4, <2>5 DEF TrackerMatchesEngine, Acquire
  <2>7. InventoryAsBefore'
    BY <1>3 DEF InventoryAsBefore, Acquire
  <2>8. DriverIsListed'
    BY <1>0, <1>3, <2>4 DEF DriverIsListed, Acquire
  <2>9. QED
    BY <2>2, <2>3, <2>6, <2>7, <2>8 DEF IInv
<1>4. QED
  BY <1>1, <1>2, <1>3

\* A rescan meets no saved state, since it holds the mutex.
LEMMA RescanStep == IInv /\ Rescan => IInv'
<1> SUFFICES ASSUME IInv, Rescan PROVE IInv'
  OBVIOUS
<1>1. tracker = {} /\ \A e \in Callers : pc[e] \notin EnginePhases
  BY FreeMeansNothingSaved DEF IInv, Rescan
<1>2. status' \in [Drivers -> Statuses \cup {"Unlisted"}]
  BY ScanIsInventory DEF Rescan
<1>3. TypeOK'
  BY <1>2 DEF IInv, TypeOK, Rescan, kernelVars, storeVars, handlerVars
<1>4. PendingHasRequest' /\ InventoryAsBefore'
  BY DEF IInv, PendingHasRequest, InventoryAsBefore, Rescan, handlerVars
<1>5. \A e \in Callers : pc[e] \notin SavedPhases
  BY <1>1 DEF EnginePhases, SavedPhases
<1>6. TrackerMatchesEngine'
  BY <1>1, <1>5 DEF IInv, TrackerMatchesEngine, Rescan, handlerVars
<1>7. DriverIsListed'
  BY <1>1 DEF DriverIsListed, Rescan, handlerVars
<1>8. QED
  BY <1>3, <1>4, <1>6, <1>7 DEF IInv

LEMMA CrashStep == IInv /\ Crash => IInv'
<1> SUFFICES ASSUME IInv, Crash PROVE IInv'
  OBVIOUS
<1>1. TypeOK'
  BY ScanIsInventory DEF IInv, TypeOK, Crash, kernelVars, storeVars, NothingBefore
<1>2. PendingHasRequest' /\ InventoryAsBefore'
  BY DEF PendingHasRequest, InventoryAsBefore, Crash
<1>3. TrackerMatchesEngine'
  BY FreeAssumption DEF TrackerMatchesEngine, Crash, EnginePhases, SavedPhases
<1>4. DriverIsListed'
  BY DEF DriverIsListed, Crash, EnginePhases
<1>5. QED
  BY <1>1, <1>2, <1>3, <1>4 DEF IInv

-----------------------------------------------------------------------------
(***************************************************************************)
(* Each step of the engine.                                                *)
(***************************************************************************)

LEMMA EngineStepKeeps ==
  ASSUME IInv, NEW c \in Callers, EngineStep(c)
  PROVE  IInv'
<1>0. TypeOK
  BY DEF IInv
<1>k. loaded \subseteq Modules /\ busy \subseteq Modules
  BY DEF IInv, TypeOK
<1>1. CASE Check(c)
  <2>1. status[d(c)] # "Unlisted"
    BY <1>1 DEF Check, Blocked, d
  <2>2. QED
    BY <1>1, <1>k, <2>1, ContinueStep DEF Check, kernelVars, EnginePhases, SavedPhases
<1>2. CASE Reject(c)
  <2>1. pc[c] \in EnginePhases /\ pc[c] \notin SavedPhases
    BY <1>2 DEF Reject, EnginePhases, SavedPhases
  <2>2. tracker' = {}
    BY <1>2, <2>1, EngineFacts DEF Reject
  <2>3. QED
    BY <1>0, <1>2, <1>k, <2>1, <2>2, ReturnStep DEF Reject, kernelVars, TypeOK
<1>3. CASE Verify(c)
  <2>1. pc[c] \in EnginePhases /\ pc[c] \notin SavedPhases
    BY <1>3 DEF Verify, EnginePhases, SavedPhases
  <2>2. CASE Continue(c, "save")
    BY <1>3, <1>k, <2>1, <2>2, ContinueStep
       DEF Verify, kernelVars, EnginePhases, SavedPhases
  <2>3. CASE Return(c, "Failed")
    <3>1. tracker' = {}
      BY <1>3, <2>1, EngineFacts DEF Verify
    <3>2. QED
      BY <1>0, <1>3, <1>k, <2>1, <2>3, <3>1, ReturnStep DEF Verify, kernelVars, TypeOK
  <2>4. QED
    BY <1>3, <2>2, <2>3 DEF Verify
<1>4. CASE Save(c)
  <2> DEFINE new == [caller |-> c, driver |-> d(c), status |-> status[d(c)],
                     wasLoaded |-> d(c) \in loaded]
             ph == IF req[c].kind = "install" THEN "place" ELSE "probe"
  <2>1. pc[c] \in EnginePhases /\ pc[c] \notin SavedPhases
    BY <1>4 DEF Save, EnginePhases, SavedPhases
  <2>2. tracker' = {new}
    BY <1>4, <2>1, EngineFacts DEF Save
  <2>3. d(c) \in Drivers
    BY <2>1, EngineFacts
  <2>4. status[d(c)] \in Statuses
    BY <1>0, <1>4, <2>1, <2>3 DEF IInv, TypeOK, DriverIsListed, Save, EnginePhases
  <2>5. new \in SavedStates
    BY <2>3, <2>4 DEF SavedStates
  <2>6. /\ ph \in EnginePhases /\ ph \in SavedPhases
        /\ pc' = [pc EXCEPT ![c] = ph]
        /\ UNCHANGED <<status, kernelVars, storeVars, req, scanner, answer, before>>
    BY <1>4 DEF Save, Continue, EnginePhases, SavedPhases
  <2>7. /\ pc \in [Callers -> {"idle", "queued"} \cup EnginePhases]
        /\ \A e \in Callers : pc[e] \in EnginePhases <=> e = c
    BY <1>0, <2>1, EngineFacts DEF TypeOK
  <2>8. TypeOK'
    BY <1>0, <2>2, <2>5, <2>6 DEF TypeOK, kernelVars, storeVars
  <2>9. PendingHasRequest' /\ InventoryAsBefore'
    BY <2>1, <2>6, <2>7
       DEF IInv, PendingHasRequest, InventoryAsBefore, EnginePhases
  <2>10. \A e \in Callers : /\ pc'[e] \in EnginePhases <=> e = c
                            /\ pc'[e] \in SavedPhases => e = c
    BY <2>6, <2>7 DEF EnginePhases, SavedPhases
  <2>11. scanner' = c /\ pc'[c] = ph /\ saved_by(c)' = {new}
    BY <2>1, <2>2, <2>6, <2>7, EngineFacts DEF saved_by
  <2>12. TrackerMatchesEngine'
    BY <2>2, <2>6, <2>10, <2>11 DEF TrackerMatchesEngine, d
  <2>13. DriverIsListed'
    BY <2>4, <2>6, <2>10 DEF DriverIsListed, d, Statuses
  <2>14. QED
    BY <2>8, <2>9, <2>12, <2>13 DEF IInv
<1>5. CASE Probe(c)
  BY <1>5, <1>k, ContinueStep DEF Probe, kernelVars, EnginePhases, SavedPhases
<1>6. CASE Unload(c)
  <2>1. loaded' \subseteq Modules /\ busy' \subseteq Modules
    BY <1>6, <1>k DEF Unload, kernelVars
  <2>2. QED
    BY <1>6, <2>1, ContinueStep DEF Unload, EnginePhases, SavedPhases
<1>7. CASE Place(c)
  BY <1>7, <1>k, ContinueStep DEF Place, kernelVars, EnginePhases, SavedPhases
<1>8. CASE Load(c)
  <2>1. d(c) \in Modules
    BY <1>8, EngineFacts DEF Load, EnginePhases, Modules
  <2>2. loaded' \subseteq Modules /\ busy' \subseteq Modules
    BY <1>8, <1>k, <2>1 DEF Load
  <2>3. QED
    BY <1>8, <2>2, ContinueStep DEF Load, EnginePhases, SavedPhases
<1>9. CASE Commit(c)
  <2>1. pc[c] \in EnginePhases /\ pc[c] \in SavedPhases
    BY <1>9 DEF Commit, EnginePhases, SavedPhases
  <2>2. tracker' = {}
    BY <1>9, <2>1, EngineFacts DEF Commit
  <2>3. done_status(req[c].kind) \in Statuses
    BY <2>1, EngineFacts, RequestFields
  <2>4. status' \in [Drivers -> Statuses \cup {"Unlisted"}]
    BY <1>0, <1>9, <2>3 DEF Commit, TypeOK
  <2>5. QED
    BY <1>9, <1>k, <2>1, <2>2, <2>4, ReturnStep DEF Commit, kernelVars
<1>10. CASE Rollback(c)
  <2>1. pc[c] \in EnginePhases /\ pc[c] \in SavedPhases
    BY <1>10 DEF Rollback, EnginePhases, SavedPhases
  <2>2. d(c) \in Drivers /\ d(c) \in Modules
    BY <2>1, EngineFacts DEF Modules
  <2>3. tracker' = {}
    BY <1>10, <2>1, EngineFacts DEF Rollback
  <2>4. status' = status
    BY <1>0, <1>10, <2>1, <2>2, EngineFacts DEF Rollback, TypeOK
  <2>5. loaded' \subseteq Modules /\ busy' \subseteq Modules
    BY <1>10, <1>k, <2>1, <2>2, EngineFacts DEF Rollback
  <2>6. QED
    BY <1>0, <1>10, <2>1, <2>3, <2>4, <2>5, ReturnStep DEF Rollback, TypeOK
<1>11. QED
  BY <1>1, <1>2, <1>3, <1>4, <1>5, <1>6, <1>7, <1>8, <1>9, <1>10 DEF EngineStep

-----------------------------------------------------------------------------
(***************************************************************************)
(* The invariant, and what follows from it.                                *)
(***************************************************************************)

LEMMA NextKeepsIInv == IInv /\ [Next]_vars => IInv'
<1> SUFFICES ASSUME IInv, [Next]_vars PROVE IInv'
  OBVIOUS
<1>0. /\ loaded \subseteq Modules /\ busy \subseteq Modules
      /\ staged \in [Drivers -> Packages \cup {NoPackage}]
      /\ sigfile \in [Drivers -> Packages \cup {NoPackage}]
  BY DEF IInv, TypeOK
<1>1. ASSUME NEW c \in Callers, Submit(c) \/ Refuse(c) \/ Acquire(c)
      PROVE  IInv'
  BY <1>1, HandlerStep
<1>2. ASSUME NEW c \in Callers, EngineStep(c) PROVE IInv'
  BY <1>2, EngineStepKeeps
<1>3. CASE Rescan
  BY <1>3, RescanStep
<1>4. ASSUME NEW x \in Drivers, NEW p \in Packages \cup {NoPackage},
             Unstage(x) \/ OtherSigns(x, p) \/ (p \in Packages /\ Stage(x, p))
      PROVE  IInv'
  BY <1>0, <1>4, OutsideStep
     DEF Unstage, Stage, OtherSigns, kernelVars
<1>5. ASSUME NEW m \in Modules, OtherLoads(m) \/ OtherUnloads(m) \/ OtherUses(m)
      PROVE  IInv'
  <2>1. loaded' \subseteq Modules /\ busy' \subseteq Modules
    BY <1>0, <1>5 DEF OtherLoads, OtherUnloads, OtherUses
  <2>2. QED
    BY <1>0, <1>5, <2>1, OutsideStep
       DEF OtherLoads, OtherUnloads, OtherUses, storeVars
<1>6. CASE Crash
  BY <1>6, CrashStep
<1>7. CASE UNCHANGED vars
  BY <1>0, <1>7, OutsideStep DEF vars, kernelVars, storeVars
<1>8. QED
  BY <1>1, <1>2, <1>3, <1>4, <1>5, <1>6, <1>7 DEF Next

\* The invariant holds, in its five parts.
THEOREM Invariance == Spec => []IInv
<1>1. Init => IInv
  BY InitIInv
<1>2. IInv /\ [Next]_vars => IInv'
  BY NextKeepsIInv
<1>3. QED
  BY <1>1, <1>2, PTL DEF Spec

\* Types hold for any inventory, package store and set of callers.
THEOREM TypeCorrect == Spec => []TypeOK
<1>1. IInv => TypeOK
  BY DEF IInv
<1>2. QED
  BY <1>1, Invariance, PTL

\* Whatever the callers, the kernel and the package store do, and wherever the
\* daemon restarts, OperationTracker holds exactly the state of the operation
\* in the engine, and that state is the entry as the inventory has it.
THEOREM TrackerCorrect == Spec => []TrackerMatchesEngine
<1>1. IInv => TrackerMatchesEngine
  BY DEF IInv
<1>2. QED
  BY <1>1, Invariance, PTL

\* A rollback puts back the entry as the inventory has it: no change.
LEMMA RollbackKeepsInventory ==
  ASSUME IInv, NEW c \in Callers, Rollback(c)
  PROVE  status' = status
<1>1. pc[c] \in EnginePhases /\ pc[c] \in SavedPhases
  BY DEF Rollback, EnginePhases, SavedPhases
<1>2. \E s \in SavedStates : /\ saved_by(c) = {s}
                             /\ s.driver = d(c)
                             /\ s.status = status[d(c)]
  BY <1>1, EngineFacts
<1>3. d(c) \in Drivers
  BY <1>1, EngineFacts
<1>4. QED
  BY <1>2, <1>3 DEF Rollback, IInv, TypeOK

\* What the inventory sees of a step of the engine: nothing, a failure that
\* changes nothing, or the completion of the request.
LEMMA EngineStepEffect ==
  ASSUME IInv, NEW c \in Callers, EngineStep(c)
  PROVE  \/ UNCHANGED <<status, req, answer, scanner>>
         \/ Return(c, "Failed") /\ UNCHANGED status
         \/ /\ Return(c, "Completed")
            /\ status[d(c)] # "Unlisted"
            /\ status' = [status EXCEPT ![d(c)] = done_status(req[c].kind)]
<1>1. CASE Check(c) \/ Save(c) \/ Probe(c) \/ Unload(c) \/ Place(c) \/ Load(c)
  BY <1>1 DEF Check, Save, Probe, Unload, Place, Load, Continue
<1>2. CASE Reject(c) \/ Verify(c)
  BY <1>2 DEF Reject, Verify, Continue
<1>3. CASE Commit(c)
  <2>1. status[d(c)] # "Unlisted"
    BY <1>3 DEF IInv, DriverIsListed, Commit, EnginePhases
  <2>2. QED
    BY <1>3, <2>1 DEF Commit
<1>4. CASE Rollback(c)
  BY <1>4, RollbackKeepsInventory DEF Rollback
<1>5. QED
  BY <1>1, <1>2, <1>3, <1>4 DEF EngineStep

LEMMA EngineStepInEngine ==
  ASSUME IInv, NEW c \in Callers, EngineStep(c)
  PROVE  scanner = c /\ c # Free
<1>1. pc[c] \in EnginePhases
  BY DEF EngineStep, Check, Reject, Verify, Save, Probe, Unload, Place, Load,
         Commit, Rollback, EnginePhases
<1>2. QED
  BY <1>1, EngineFacts

\* The step property of FailedLeavesInventory.
FailureIsInvisible ==
  \A c \in Callers :
    scanner = c /\ scanner' = Free /\ answer'[c] = "Failed"
      => status' = before.status

LEMMA StepFailureIsInvisible == IInv /\ [Next]_vars => FailureIsInvisible
<1> SUFFICES ASSUME IInv, [Next]_vars, NEW c \in Callers,
                    scanner = c, scanner' = Free, answer'[c] = "Failed"
             PROVE  status' = before.status
  BY DEF FailureIsInvisible
<1>0. c # Free /\ status = before.status
  BY FreeAssumption DEF IInv, InventoryAsBefore
<1>1. answer \in [Callers -> {"none", "Completed", "Failed", "Denied"}]
  BY DEF IInv, TypeOK
<1>2. CASE \E e \in Callers : EngineStep(e)
  <2>1. PICK e \in Callers : EngineStep(e)
    BY <1>2
  <2>2. e = c
    BY <2>1, EngineStepInEngine
  <2>3. ~Return(c, "Completed")
    BY <1>1 DEF Return
  <2>4. status' = status
    BY <1>0, <2>1, <2>2, <2>3, EngineStepEffect
  <2>5. QED
    BY <1>0, <2>4
<1>3. CASE Crash
  BY <1>3 DEF Crash
<1>4. QED
  <2>1. scanner' # scanner
    BY <1>0
  <2>2. \/ \E e \in Callers : Acquire(e) \/ EngineStep(e)
        \/ Crash
    BY <2>1 DEF Next, Submit, Refuse, Rescan, Unstage, Stage, OtherSigns, OtherLoads,
           OtherUnloads, OtherUses, handlerVars, vars
  <2>3. ~ \E e \in Callers : Acquire(e)
    BY FreeAssumption DEF Acquire
  <2>4. QED
    BY <1>2, <1>3, <2>2, <2>3

\* Whatever fails, at whichever step and in whichever interleaving: a request
\* that is answered Failed has left the whole inventory as it found it.
THEOREM FailuresAreInvisible == Spec => FailedLeavesInventory
<1>1. IInv /\ [Next]_vars => [FailureIsInvisible]_vars
  BY StepFailureIsInvisible
<1>2. QED
  BY <1>1, Invariance, PTL DEF Spec, FailedLeavesInventory, FailureIsInvisible

-----------------------------------------------------------------------------
(***************************************************************************)
(* DriverExecution implements DriverLifecycle.                             *)
(***************************************************************************)

LEMMA ScanIsScanned ==
  ASSUME NEW mods
  PROVE  /\ populate_builtin_drivers(mods) \in Lifecycle!Scanned
         /\ StartInventory(mods) \in Lifecycle!Scanned \cup {Lifecycle!Unlisted}
BY DEF populate_builtin_drivers, StartInventory, Lifecycle!Scanned, Lifecycle!Unlisted

LEMMA LifecycleInit == Init => Lifecycle!Init
BY ScanIsScanned DEF Init, Lifecycle!Init

LEMMA LifecycleStep == IInv /\ [Next]_vars => [Lifecycle!Next]_(Lifecycle!lifecycleVars)
<1> SUFFICES ASSUME IInv, [Next]_vars
             PROVE  Lifecycle!Next \/ UNCHANGED <<status, req, answer>>
  BY DEF Lifecycle!lifecycleVars
<1>1. ASSUME NEW c \in Callers, Submit(c) PROVE Lifecycle!Ask(c)
  BY <1>1 DEF IInv, PendingHasRequest, Submit, Lifecycle!Ask
<1>2. ASSUME NEW c \in Callers, Refuse(c) PROVE Lifecycle!Deny(c)
  BY <1>2 DEF IInv, PendingHasRequest, Refuse, Lifecycle!Deny
<1>3. ASSUME NEW c \in Callers, EngineStep(c)
      PROVE  \/ UNCHANGED <<status, req, answer>>
             \/ Lifecycle!Fail(c)
             \/ Lifecycle!Complete(c)
  <2>1. req[c] \in Requests /\ NoRequest \notin Requests
    BY <1>3, EngineStepInEngine, RequestsAssumption
       DEF IInv, PendingHasRequest, TrackerMatchesEngine, EnginePhases
  <2>2. done_status(req[c].kind) = Lifecycle!Promised(req[c].kind)
    BY DEF done_status, Lifecycle!Promised
  <2>3. QED
    BY <1>3, <2>1, <2>2, EngineStepEffect
       DEF Return, d, Lifecycle!Fail, Lifecycle!Complete
<1>4. CASE Rescan
  BY <1>4, ScanIsScanned DEF Rescan, handlerVars, Lifecycle!Next, Lifecycle!Scan
<1>5. CASE Crash
  BY <1>5, ScanIsScanned DEF Crash, Lifecycle!Next, Lifecycle!Restart
<1>6. QED
  BY <1>1, <1>2, <1>3, <1>4, <1>5
     DEF Next, Acquire, Unstage, Stage, OtherSigns, OtherLoads, OtherUnloads, OtherUses,
         handlerVars, vars, Lifecycle!Next

\* Every behaviour of the engine is one in which each request takes effect on
\* the inventory at one instant, or not at all.
THEOREM ImplementsLifecycle == Spec => LifecycleSpec
<1>1. Init => Lifecycle!Init
  BY LifecycleInit
<1>2. IInv /\ [Next]_vars => [Lifecycle!Next]_(Lifecycle!lifecycleVars)
  BY LifecycleStep
<1>3. QED
  BY <1>1, <1>2, Invariance, PTL DEF Spec, LifecycleSpec, Lifecycle!Spec

-----------------------------------------------------------------------------
(***************************************************************************)
(* The inventory and the kernel, when nobody else loads modules.  The      *)
(* saved state of an operation relates the two while it is in flight: what *)
(* was loaded then, and what the entry said of it.                         *)
(***************************************************************************)

NobodyElseLoads == Autoload = {}

\* A removal without force of a driver whose status a scan derives.
UnforcedTracked(c) == req[c].kind = "remove" /\ ~req[c].force /\ d(c) \in Tracked

\* What is saved is consistent, and a module that is loaded before the commit
\* was loaded then.
SavedIsSound(s) ==
  /\ s.status = "Removed" => ~s.wasLoaded
  /\ s.driver \in Tracked /\ s.wasLoaded => s.status \in Operational
  /\ pc[s.caller] # "commit" /\ s.driver \in loaded => s.wasLoaded
  /\ req[s.caller].kind # "update" => (s.wasLoaded <=> s.driver \in before.loaded)

\* The phases that a request of a kind goes through.
PhaseFits(kind, ph) ==
  /\ ph = "verify" => kind = "install"
  /\ ph \in {"probe", "unload"} => kind # "install"
  /\ ph \in {"place", "load"} => kind # "remove"

\* What the operation of caller c knows of its module.
OperationFacts(c) ==
  /\ PhaseFits(req[c].kind, pc[c])
  /\ \A s \in tracker : s.caller = c => SavedIsSound(s)
  /\ pc[c] \in EnginePhases \ {"commit"} /\ req[c].kind # "update" =>
       (d(c) \in loaded <=> d(c) \in before.loaded)
  /\ pc[c] = "commit" /\ req[c].kind = "remove" => d(c) \notin loaded
  /\ pc[c] \in {"save", "probe"} /\ UnforcedTracked(c) => d(c) \notin loaded
  /\ pc[c] = "unload" => ~UnforcedTracked(c)

Related ==
  /\ \A c \in Callers : OperationFacts(c)
  /\ RemovedIsUnloaded
  /\ TrackedLoadedIsOperational

\* A caller that is not in the engine has no operation.
LEMMA NoOperation ==
  ASSUME IInv', NEW e \in Callers, pc'[e] \notin EnginePhases
  PROVE  OperationFacts(e)'
<1>1. \A s \in tracker' : s.caller # e
  BY DEF IInv, TrackerMatchesEngine, EnginePhases, SavedPhases
<1>2. QED
  BY <1>1 DEF OperationFacts, PhaseFits, EnginePhases

LEMMA RelatedInitially == Init => Related
<1> SUFFICES ASSUME Init PROVE Related
  OBVIOUS
<1>1. \A c \in Callers : pc[c] = "idle"
  BY DEF Init
<1>2. \A c \in Callers : OperationFacts(c)
  BY <1>1 DEF Init, OperationFacts, PhaseFits, EnginePhases
<1>3. \A x \in Drivers : /\ status[x] # "Removed"
                         /\ x \in Tracked \cap loaded => status[x] \in {"Active", "Unlisted"}
  BY DEF Init, StartInventory, populate_builtin_drivers
<1>4. QED
  BY <1>2, <1>3, ModulesAssumption
     DEF Related, RemovedIsUnloaded, TrackedLoadedIsOperational, Operational

\* With the mutex free, nothing is in flight.
LEMMA NothingInFlight ==
  ASSUME IInv, scanner = Free, NEW x
  PROVE  ~InFlight(x)
BY FreeMeansNothingSaved DEF IInv, InFlight, EnginePhases, SavedPhases

\* A step of c's operation that does not end it.
LEMMA RelatedContinues ==
  ASSUME IInv, IInv', Related, NEW c \in Callers, pc[c] \in EnginePhases,
         NEW ph \in EnginePhases, Continue(c, ph), UNCHANGED status,
         pc[c] \in SavedPhases => ph \in SavedPhases,
         \A y \in Drivers \ {d(c)} : y \in loaded' <=> y \in loaded,
         ph \notin SavedPhases => UNCHANGED loaded,
         OperationFacts(c)'
  PROVE  Related'
<1>1. /\ pc' = [pc EXCEPT ![c] = ph] /\ UNCHANGED <<req, scanner, answer, before>>
      /\ pc \in [Callers -> {"idle", "queued"} \cup EnginePhases]
  BY DEF Continue, IInv, TypeOK
<1>2. \A e \in Callers \ {c} : pc'[e] = pc[e] /\ pc[e] \notin EnginePhases
  BY <1>1, EngineFacts
<1>3. \A e \in Callers : OperationFacts(e)'
  BY <1>2, NoOperation
<1>4. \A x \in Drivers : InFlight(x)' <=> ph \in SavedPhases /\ d(c) = x
  BY <1>1, <1>2 DEF InFlight, d, EnginePhases, SavedPhases
<1>5. \A x \in Drivers : InFlight(x) <=> pc[c] \in SavedPhases /\ d(c) = x
  BY <1>1, <1>2 DEF InFlight, d, EnginePhases, SavedPhases
<1>6. ASSUME NEW x \in Drivers, ~InFlight(x)'
      PROVE  ~InFlight(x) /\ (x \in loaded' <=> x \in loaded) /\ status'[x] = status[x]
  BY <1>4, <1>5, <1>6
<1>7. RemovedIsUnloaded' /\ TrackedLoadedIsOperational'
  BY <1>6, ModulesAssumption DEF Related, RemovedIsUnloaded, TrackedLoadedIsOperational
<1>8. QED
  BY <1>3, <1>7 DEF Related

\* The end of c's operation on x: the rest is as it was.
LEMMA RelatedReturns ==
  ASSUME IInv, IInv', Related, NEW c \in Callers, pc[c] \in EnginePhases,
         NEW a, Return(c, a),
         \A y \in Drivers \ {d(c)} : status'[y] = status[y] /\ (y \in loaded' <=> y \in loaded),
         status'[d(c)] = "Removed" => d(c) \notin loaded',
         d(c) \in Tracked /\ d(c) \in loaded' /\ status'[d(c)] # "Unlisted" =>
           status'[d(c)] \in Operational
  PROVE  Related'
<1>1. scanner' = Free
  BY DEF Return
<1>2. \A e \in Callers : pc'[e] \notin EnginePhases
  BY <1>1, FreeAssumption DEF IInv, TrackerMatchesEngine
<1>3. \A e \in Callers : OperationFacts(e)'
  BY <1>2, NoOperation
<1>4. \A e \in Callers \ {c} : pc[e] \notin SavedPhases
  BY EngineFacts DEF EnginePhases, SavedPhases
<1>5. \A y \in Drivers \ {d(c)} : ~InFlight(y)
  BY <1>4 DEF InFlight
<1>6. RemovedIsUnloaded' /\ TrackedLoadedIsOperational'
  BY <1>5, ModulesAssumption DEF Related, RemovedIsUnloaded, TrackedLoadedIsOperational
<1>7. QED
  BY <1>3, <1>6 DEF Related

\* A step that only goes on to another phase.
LEMMA FactsContinue ==
  ASSUME IInv, Related, NEW c \in Callers,
         pc[c] \in EnginePhases \ {"commit"},
         NEW ph \in EnginePhases, Continue(c, ph), UNCHANGED <<loaded, tracker>>,
         PhaseFits(req[c].kind, ph),
         ph = "commit" /\ req[c].kind = "remove" => d(c) \notin loaded,
         ph \in {"save", "probe"} /\ UnforcedTracked(c) => d(c) \notin loaded,
         ph = "unload" => ~UnforcedTracked(c)
  PROVE  OperationFacts(c)'
<1>1. /\ pc'[c] = ph /\ UNCHANGED <<req, scanner, answer, before>>
  BY DEF Continue, IInv, TypeOK
<1>2. OperationFacts(c)
  BY DEF Related
<1>3. (d(c))' = d(c) /\ (UnforcedTracked(c)' <=> UnforcedTracked(c))
  BY <1>1 DEF d, UnforcedTracked
<1>4. ASSUME NEW s \in tracker', s.caller = c PROVE SavedIsSound(s)'
  BY <1>1, <1>2, <1>4 DEF OperationFacts, SavedIsSound
<1>5. QED
  BY <1>1, <1>2, <1>3, <1>4 DEF OperationFacts

\* Before an operation saves its state, the entry of its driver tells whether
\* the module is loaded.
LEMMA EntryTellsLoaded ==
  ASSUME IInv, Related, NEW c \in Callers, pc[c] \in EnginePhases \ SavedPhases
  PROVE  /\ status[d(c)] = "Removed" => d(c) \notin loaded
         /\ (d(c) \in Tracked /\ d(c) \in loaded /\ status[d(c)] # "Unlisted") =>
              status[d(c)] \in Operational
<1>1. \A e \in Callers : pc[e] \notin SavedPhases
  BY EngineFacts DEF EnginePhases, SavedPhases
<1>2. d(c) \in Drivers /\ ~InFlight(d(c))
  BY <1>1, EngineFacts DEF InFlight
<1>3. QED
  BY <1>2 DEF Related, RemovedIsUnloaded, TrackedLoadedIsOperational

LEMMA RelatedChecked ==
  ASSUME IInv, IInv', Related, NEW c \in Callers, Check(c) \/ Reject(c) \/ Verify(c)
  PROVE  Related'
<1>1. /\ pc[c] \in EnginePhases \ SavedPhases /\ pc[c] \in EnginePhases \ {"commit"}
      /\ UNCHANGED <<status, loaded, tracker>>
  BY DEF Check, Reject, Verify, EnginePhases, SavedPhases, kernelVars
<1>2. CASE Return(c, "Failed")
  BY <1>1, <1>2, EntryTellsLoaded, RelatedReturns
<1>3. CASE Check(c)
  <2> DEFINE ph == IF req[c].kind = "install" THEN "verify" ELSE "save"
  <2>1. Continue(c, ph) /\ ph \in EnginePhases /\ ph \in {"verify", "save"}
    BY <1>3 DEF Check, EnginePhases
  <2>2. UnforcedTracked(c) => d(c) \notin loaded
    BY <1>1, <1>3, EntryTellsLoaded
       DEF Check, Blocked, check_remove, check_module_in_use, UnforcedTracked, d
  <2>3. OperationFacts(c)'
    BY <1>1, <2>1, <2>2, FactsContinue DEF PhaseFits
  <2>4. QED
    BY <1>1, <2>1, <2>3, RelatedContinues
<1>4. CASE Verify(c) /\ Continue(c, "save")
  <2>1. req[c].kind = "install"
    BY <1>4 DEF Verify, Related, OperationFacts, PhaseFits
  <2>2. ~UnforcedTracked(c) /\ PhaseFits(req[c].kind, "save")
    BY <2>1 DEF UnforcedTracked, PhaseFits
  <2>3. OperationFacts(c)'
    BY <1>1, <1>4, <2>2, FactsContinue DEF EnginePhases
  <2>4. QED
    BY <1>1, <1>4, <2>3, RelatedContinues DEF EnginePhases
<1>5. QED
  BY <1>2, <1>3, <1>4 DEF Check, Reject, Verify


\* What is saved tells what the entry and the kernel said then.
LEMMA RelatedSaved ==
  ASSUME IInv, IInv', Related, NEW c \in Callers, Save(c)
  PROVE  Related'
<1> DEFINE new == [caller |-> c, driver |-> d(c), status |-> status[d(c)],
                   wasLoaded |-> d(c) \in loaded]
           ph == IF req[c].kind = "install" THEN "place" ELSE "probe"
<1>1. /\ pc[c] = "save" /\ pc[c] \in EnginePhases \ SavedPhases
      /\ UNCHANGED <<status, loaded>>
      /\ ph \in EnginePhases /\ ph \in SavedPhases /\ ph # "commit" /\ ph # "unload"
  BY DEF Save, EnginePhases, SavedPhases, kernelVars
<1>2. /\ Continue(c, ph) /\ pc'[c] = ph
      /\ UNCHANGED <<req, scanner, answer, before>>
  BY DEF Save, Continue, IInv, TypeOK
<1>3. tracker' = {new}
  BY <1>1, EngineFacts DEF Save
<1>4. (d(c))' = d(c) /\ (UnforcedTracked(c)' <=> UnforcedTracked(c))
  BY <1>2 DEF d, UnforcedTracked
<1>5. /\ OperationFacts(c)
      /\ status[d(c)] # "Unlisted"
  BY <1>1 DEF Related, IInv, DriverIsListed, EnginePhases
<1>6. req[c].kind # "update" => (d(c) \in loaded <=> d(c) \in before.loaded)
  BY <1>1, <1>5 DEF OperationFacts
<1>7. ASSUME NEW s \in tracker' PROVE SavedIsSound(s)'
  <2>a. s = new
    BY <1>3
  <2>b. s.wasLoaded = (d(c) \in loaded)
    BY <2>a, Zenon
  <2>c. s.caller = c /\ s.driver = d(c) /\ s.status = status[d(c)]
    BY <2>a
  <2>1. /\ s.caller = c /\ s.driver = d(c) /\ s.status = status[d(c)]
        /\ s.wasLoaded <=> d(c) \in loaded
    BY <2>b, <2>c
  <2>2. QED
    BY <1>1, <1>2, <1>5, <1>6, <2>1, EntryTellsLoaded DEF SavedIsSound
<1>8. PhaseFits(req[c].kind, ph)
  BY DEF PhaseFits
<1>9. OperationFacts(c)'
  BY <1>1, <1>2, <1>3, <1>4, <1>5, <1>6, <1>7, <1>8 DEF OperationFacts
<1>10. QED
  BY <1>1, <1>2, <1>9, RelatedContinues

\* Only a module that is not loaded is left alone by remove and update, and
\* only one that is loaded is unloaded.
LEMMA RelatedProbed ==
  ASSUME IInv, IInv', Related, NEW c \in Callers, Probe(c) \/ Place(c)
  PROVE  Related'
<1>1. /\ pc[c] \in SavedPhases /\ pc[c] \in EnginePhases \ {"commit"}
      /\ UNCHANGED <<status, loaded, tracker>>
  BY DEF Probe, Place, EnginePhases, SavedPhases, kernelVars
<1>2. OperationFacts(c)
  BY DEF Related
<1>3. CASE Probe(c)
  <2> DEFINE ph == IF d(c) \in loaded THEN "unload"
                   ELSE IF req[c].kind = "remove" THEN "commit" ELSE "place"
  <2>1. Continue(c, ph) /\ ph \in EnginePhases /\ ph \in SavedPhases
    BY <1>3 DEF Probe, EnginePhases, SavedPhases
  <2>2. PhaseFits(req[c].kind, ph)
    BY <1>2, <1>3 DEF Probe, OperationFacts, PhaseFits
  <2>3. ph = "unload" => ~UnforcedTracked(c)
    BY <1>2, <1>3 DEF Probe, OperationFacts
  <2>4. OperationFacts(c)'
    BY <1>1, <2>1, <2>2, <2>3, FactsContinue
  <2>5. QED
    BY <1>1, <2>1, <2>4, RelatedContinues
<1>4. CASE Place(c)
  <2> DEFINE ph == IF staged[d(c)] # NoPackage THEN "load"
                   ELSE IF d(c) \in InTree THEN "commit" ELSE "rollback"
  <2>1. Continue(c, ph) /\ ph \in EnginePhases /\ ph \in SavedPhases
    BY <1>4 DEF Place, EnginePhases, SavedPhases
  <2>2. req[c].kind # "remove" /\ PhaseFits(req[c].kind, ph)
    BY <1>2, <1>4 DEF Place, OperationFacts, PhaseFits
  <2>3. OperationFacts(c)'
    BY <1>1, <2>1, <2>2, FactsContinue
  <2>4. QED
    BY <1>1, <2>1, <2>3, RelatedContinues
<1>5. QED
  BY <1>3, <1>4

\* A removal that has unloaded the module commits; an update goes on without.
LEMMA RelatedUnloaded ==
  ASSUME IInv, IInv', Related, NEW c \in Callers, Unload(c)
  PROVE  Related'
<1>1. /\ pc[c] = "unload" /\ pc[c] \in SavedPhases
      /\ pc[c] \in EnginePhases /\ pc[c] \in EnginePhases \ {"commit"}
      /\ UNCHANGED <<status, tracker>>
  BY DEF Unload, EnginePhases, SavedPhases
<1>2. /\ OperationFacts(c) /\ req[c].kind # "install"
      /\ req[c].kind \in {"install", "remove", "update"}
  BY <1>1, EngineFacts, RequestFields DEF Related, OperationFacts, PhaseFits
<1>3. CASE Continue(c, "rollback") /\ UNCHANGED loaded
  <2>1. OperationFacts(c)'
    BY <1>1, <1>3, FactsContinue DEF EnginePhases, PhaseFits
  <2>2. QED
    BY <1>1, <1>3, <2>1, RelatedContinues DEF EnginePhases, SavedPhases
<1> DEFINE ph == IF req[c].kind = "remove" THEN "commit" ELSE "place"
<1>4. CASE loaded' = loaded \ {d(c)} /\ Continue(c, ph)
  <2>1. Continue(c, ph) /\ ph \in EnginePhases /\ ph \in SavedPhases
    BY <1>4 DEF EnginePhases, SavedPhases
  <2>2. pc'[c] = ph /\ UNCHANGED <<req, scanner, answer, before>>
    BY <2>1 DEF Continue, IInv, TypeOK
  <2>3. (d(c))' = d(c) /\ (UnforcedTracked(c)' <=> UnforcedTracked(c))
    BY <2>2 DEF d, UnforcedTracked
  <2>4. \A s \in tracker : s.driver = d(c)
    BY <1>1, EngineFacts
  <2>5. ASSUME NEW s \in tracker', s.caller = c PROVE SavedIsSound(s)'
    BY <1>1, <1>2, <1>4, <2>2, <2>4, <2>5 DEF OperationFacts, SavedIsSound
  <2>6. OperationFacts(c)'
    BY <1>2, <1>4, <2>2, <2>3, <2>5 DEF OperationFacts, PhaseFits
  <2>7. QED
    BY <1>1, <1>4, <2>1, <2>6, RelatedContinues
<1>5. QED
  BY <1>3, <1>4 DEF Unload, kernelVars

LEMMA RelatedLoaded ==
  ASSUME IInv, IInv', Related, NEW c \in Callers, Load(c)
  PROVE  Related'
<1>1. /\ pc[c] = "load" /\ pc[c] \in SavedPhases
      /\ pc[c] \in EnginePhases /\ pc[c] \in EnginePhases \ {"commit"}
      /\ UNCHANGED <<status, tracker>>
  BY DEF Load, EnginePhases, SavedPhases
<1>2. OperationFacts(c) /\ req[c].kind # "remove"
  BY <1>1 DEF Related, OperationFacts, PhaseFits
<1>3. CASE Continue(c, "rollback") /\ UNCHANGED loaded
  <2>1. OperationFacts(c)'
    BY <1>1, <1>3, FactsContinue DEF EnginePhases, PhaseFits
  <2>2. QED
    BY <1>1, <1>3, <2>1, RelatedContinues DEF EnginePhases, SavedPhases
<1>4. CASE Continue(c, "commit") /\ loaded' = loaded \cup {d(c)}
  <2>1. pc'[c] = "commit" /\ UNCHANGED <<req, scanner, answer, before>>
    BY <1>4 DEF Continue, IInv, TypeOK
  <2>2. (d(c))' = d(c)
    BY <2>1 DEF d
  <2>3. ASSUME NEW s \in tracker', s.caller = c PROVE SavedIsSound(s)'
    BY <1>1, <1>2, <2>1, <2>3 DEF OperationFacts, SavedIsSound
  <2>4. OperationFacts(c)'
    BY <1>2, <2>1, <2>2, <2>3 DEF OperationFacts, PhaseFits
  <2>5. QED
    BY <1>1, <1>4, <2>4, RelatedContinues DEF EnginePhases, SavedPhases
<1>5. QED
  BY <1>3, <1>4 DEF Load


\* A completed operation leaves the entry and the module in agreement.
LEMMA RelatedCommitted ==
  ASSUME IInv, IInv', Related, NEW c \in Callers, Commit(c)
  PROVE  Related'
<1>1. /\ pc[c] = "commit" /\ pc[c] \in EnginePhases
      /\ UNCHANGED loaded
      /\ status' = [status EXCEPT ![d(c)] = done_status(req[c].kind)]
      /\ Return(c, "Completed")
  BY DEF Commit, EnginePhases, kernelVars
<1>2. /\ d(c) \in Drivers
      /\ req[c].kind \in {"install", "remove", "update"}
      /\ req[c].kind = "remove" => d(c) \notin loaded
  BY <1>1, EngineFacts, RequestFields DEF Related, OperationFacts
<1>3. /\ status'[d(c)] = done_status(req[c].kind)
      /\ \A y \in Drivers \ {d(c)} : status'[y] = status[y]
  BY <1>1, <1>2 DEF IInv, TypeOK
<1>4. QED
  BY <1>1, <1>2, <1>3, RelatedReturns DEF done_status, Operational

\* A rollback loads a module only if it was loaded, and then the entry, which
\* it restores, said so.
LEMMA RollbackFacts ==
  ASSUME IInv, Related, NEW c \in Callers, Rollback(c)
  PROVE  /\ \A y \in Drivers \ {d(c)} : y \in loaded' <=> y \in loaded
         /\ d(c) \in loaded' =>
              /\ status[d(c)] # "Removed"
              /\ d(c) \in Tracked => status[d(c)] \in Operational
         /\ req[c].kind # "update" => (d(c) \in loaded' <=> d(c) \in before.loaded)
<1>1. pc[c] = "rollback" /\ pc[c] \in EnginePhases /\ pc[c] \in SavedPhases
  BY DEF Rollback, EnginePhases, SavedPhases
<1>2. PICK s \in SavedStates : /\ tracker = {s}
                               /\ saved_by(c) = tracker
                               /\ s.caller = c
                               /\ s.driver = d(c)
                               /\ s.status = status[d(c)]
  BY <1>1, EngineFacts
<1>3. SavedIsSound(s) /\ OperationFacts(c)
  BY <1>2 DEF Related, OperationFacts
<1>4. \/ s.wasLoaded /\ d(c) \notin loaded /\ loaded' = loaded \cup {d(c)}
      \/ UNCHANGED loaded
  BY <1>2 DEF Rollback, init_module_ok
<1>5. d(c) \in loaded' => s.wasLoaded
  BY <1>1, <1>2, <1>3, <1>4 DEF SavedIsSound
<1>6. req[c].kind # "update" =>
        /\ d(c) \in loaded <=> d(c) \in before.loaded
        /\ s.wasLoaded <=> d(c) \in before.loaded
  BY <1>1, <1>2, <1>3 DEF SavedIsSound, OperationFacts
<1>7. QED
  BY <1>2, <1>3, <1>4, <1>5, <1>6 DEF SavedIsSound

LEMMA RelatedRolledBack ==
  ASSUME IInv, IInv', Related, NEW c \in Callers, Rollback(c)
  PROVE  Related'
<1>1. pc[c] \in EnginePhases /\ Return(c, "Failed")
  BY DEF Rollback, EnginePhases
<1>2. status' = status
  BY RollbackKeepsInventory
<1>3. QED
  BY <1>1, <1>2, RollbackFacts, RelatedReturns

LEMMA RelatedEngineStep ==
  ASSUME IInv, IInv', Related, NEW c \in Callers, EngineStep(c)
  PROVE  Related'
BY RelatedChecked, RelatedSaved, RelatedProbed, RelatedUnloaded, RelatedLoaded,
   RelatedCommitted, RelatedRolledBack DEF EngineStep

\* A handler outside the engine changes nothing of an operation; one that gets
\* the mutex starts with what is loaded now.
LEMMA RelatedHandled ==
  ASSUME IInv, IInv', Related, NEW c \in Callers, Submit(c) \/ Refuse(c) \/ Acquire(c)
  PROVE  Related'
<1>0. /\ pc \in [Callers -> {"idle", "queued"} \cup EnginePhases]
      /\ req \in [Callers -> Requests \cup {NoRequest}]
      /\ UNCHANGED <<status, loaded, tracker>>
  BY DEF IInv, TypeOK, Submit, Refuse, Acquire, kernelVars
<1>1. pc[c] \notin SavedPhases /\ pc'[c] \notin SavedPhases
  BY <1>0 DEF Submit, Refuse, Acquire, SavedPhases
<1>2. \A e \in Callers \ {c} : pc'[e] = pc[e] /\ req'[e] = req[e]
  BY <1>0 DEF Submit, Refuse, Acquire
<1>3. \A x : InFlight(x)' <=> InFlight(x)
  BY <1>1, <1>2 DEF InFlight, d
<1>4. RemovedIsUnloaded' /\ TrackedLoadedIsOperational'
  BY <1>0, <1>3 DEF Related, RemovedIsUnloaded, TrackedLoadedIsOperational
<1>5. ASSUME NEW e \in Callers \ {c} PROVE OperationFacts(e)'
  <2>1. CASE pc[e] \in EnginePhases
    <3>1. UNCHANGED before
      BY <2>1, FreeMeansNothingSaved DEF IInv, Submit, Refuse, Acquire
    <3>2. OperationFacts(e)
      BY DEF Related
    <3>3. QED
      BY <1>0, <1>2, <1>5, <3>1, <3>2
         DEF OperationFacts, PhaseFits, SavedIsSound, UnforcedTracked, d
  <2>2. CASE pc[e] \notin EnginePhases
    BY <1>2, <2>2, NoOperation
  <2>3. QED
    BY <2>1, <2>2
<1>6. OperationFacts(c)'
  <2>1. CASE Submit(c) \/ Refuse(c)
    <3>1. pc'[c] \notin EnginePhases
      BY <1>0, <2>1 DEF Submit, Refuse, EnginePhases
    <3>2. QED
      BY <3>1, NoOperation
  <2>2. CASE Acquire(c)
    <3>1. tracker = {} /\ pc'[c] = "check" /\ before'.loaded = loaded
      BY <1>0, <2>2, FreeMeansNothingSaved DEF IInv, Acquire
    <3>2. QED
      BY <1>0, <3>1 DEF OperationFacts, PhaseFits, d
  <2>3. QED
    BY <2>1, <2>2
<1>7. QED
  BY <1>4, <1>5, <1>6 DEF Related


\* A scan and a restart rebuild the inventory from what is loaded.
LEMMA RelatedScanned ==
  ASSUME IInv, IInv', Related, Rescan \/ Crash
  PROVE  Related'
<1>1. /\ scanner' = Free /\ UNCHANGED loaded
      /\ \A x \in Drivers : /\ status'[x] # "Removed"
                            /\ (x \in Tracked \cap loaded) =>
                                 status'[x] \in {"Active", "Unlisted"}
  BY DEF Rescan, Crash, handlerVars, kernelVars, StartInventory, populate_builtin_drivers
<1>2. \A e \in Callers : pc'[e] \notin EnginePhases
  BY <1>1, FreeAssumption DEF IInv, TrackerMatchesEngine
<1>3. \A e \in Callers : OperationFacts(e)'
  BY <1>2, NoOperation
<1>4. RemovedIsUnloaded' /\ TrackedLoadedIsOperational'
  BY <1>1, ModulesAssumption DEF RemovedIsUnloaded, TrackedLoadedIsOperational, Operational
<1>5. QED
  BY <1>3, <1>4 DEF Related

LEMMA RelatedOutside ==
  ASSUME Related, UNCHANGED <<status, loaded, tracker, handlerVars>>
  PROVE  Related'
<1>1. UNCHANGED <<status, loaded, tracker, pc, req, scanner, answer, before>>
  BY DEF handlerVars
<1>2. \A e \in Callers : OperationFacts(e)'
  BY <1>1 DEF Related, OperationFacts, SavedIsSound, UnforcedTracked, d
<1>3. RemovedIsUnloaded' /\ TrackedLoadedIsOperational'
  BY <1>1 DEF Related, RemovedIsUnloaded, TrackedLoadedIsOperational, InFlight, d
<1>4. QED
  BY <1>2, <1>3 DEF Related

LEMMA NextKeepsRelated ==
  ASSUME NobodyElseLoads
  PROVE  IInv /\ Related /\ [Next]_vars => IInv' /\ Related'
<1> SUFFICES ASSUME IInv, Related, [Next]_vars PROVE IInv' /\ Related'
  OBVIOUS
<1>1. IInv'
  BY NextKeepsIInv
<1>2. ASSUME NEW c \in Callers, Submit(c) \/ Refuse(c) \/ Acquire(c) PROVE Related'
  BY <1>1, <1>2, RelatedHandled
<1>3. ASSUME NEW c \in Callers, EngineStep(c) PROVE Related'
  BY <1>1, <1>3, RelatedEngineStep
<1>4. CASE Rescan \/ Crash
  BY <1>1, <1>4, RelatedScanned
<1>5. ASSUME NEW x \in Drivers, NEW p \in Packages \cup {NoPackage},
             Unstage(x) \/ Stage(x, p) \/ OtherSigns(x, p)
      PROVE  Related'
  BY <1>5, RelatedOutside DEF Unstage, Stage, OtherSigns, kernelVars
<1>6. ASSUME NEW m \in Modules, OtherLoads(m) \/ OtherUnloads(m) \/ OtherUses(m)
      PROVE  Related'
  BY <1>6, RelatedOutside DEF OtherLoads, OtherUnloads, OtherUses, NobodyElseLoads
<1>7. CASE UNCHANGED vars
  BY <1>1, <1>7, RelatedOutside DEF vars, kernelVars
<1>8. QED
  BY <1>1, <1>2, <1>3, <1>4, <1>5, <1>6, <1>7 DEF Next

\* If nobody else loads modules, what an operation saved and what the
\* inventory lists agree with the kernel in every reachable state.
THEOREM StaysRelated == ASSUME NobodyElseLoads PROVE Spec => [](IInv /\ Related)
<1>1. Init => IInv /\ Related
  BY InitIInv, RelatedInitially
<1>2. IInv /\ Related /\ [Next]_vars => (IInv /\ Related)'
  BY NextKeepsRelated
<1>3. QED
  BY <1>1, <1>2, PTL DEF Spec

\* If nobody else loads modules, no driver is listed as Removed while its
\* module is loaded: execute_remove answers Completed only for a module that
\* is unloaded, and neither an update nor a rollback brings it back.
THEOREM RemovedStaysUnloaded ==
  ASSUME NobodyElseLoads PROVE Spec => []RemovedIsUnloaded
<1>1. IInv /\ Related => RemovedIsUnloaded
  BY DEF Related
<1>2. QED
  BY <1>1, StaysRelated, PTL

\* If nobody else loads modules, the inventory lists every loaded module of a
\* tracked driver as operational, as check_remove takes for granted.
THEOREM LoadedStaysOperational ==
  ASSUME NobodyElseLoads PROVE Spec => []TrackedLoadedIsOperational
<1>1. IInv /\ Related => TrackedLoadedIsOperational
  BY DEF Related
<1>2. QED
  BY <1>1, StaysRelated, PTL

\* If nobody else loads modules, a removal without force stops at the check of
\* module_in_use and never reaches the call of unload_module.
THEOREM UnforcedNeverUnloads ==
  ASSUME NobodyElseLoads PROVE Spec => []UnforcedRemovalKeepsTracked
<1>1. IInv /\ Related => UnforcedRemovalKeepsTracked
  <2> SUFFICES ASSUME IInv, Related, NEW c \in Callers, pc[c] = "unload",
                      req[c].kind = "remove", d(c) \in Tracked
               PROVE  req[c].force
    BY DEF UnforcedRemovalKeepsTracked
  <2>1. ~UnforcedTracked(c)
    BY DEF Related, OperationFacts
  <2>2. QED
    BY <2>1 DEF UnforcedTracked
<1>2. QED
  BY <1>1, StaysRelated, PTL

\* The step property of FailedLeavesModule.
ModuleAsFound ==
  \A c \in Callers :
    (/\ scanner = c /\ scanner' = Free /\ answer'[c] = "Failed"
     /\ req[c].kind # "update")
      => (d(c) \in loaded' <=> d(c) \in before.loaded)

LEMMA StepLeavesModule == IInv /\ Related /\ [Next]_vars => ModuleAsFound
<1> SUFFICES ASSUME IInv, Related, [Next]_vars, NEW c \in Callers,
                    scanner = c, scanner' = Free, answer'[c] = "Failed",
                    req[c].kind # "update"
             PROVE  d(c) \in loaded' <=> d(c) \in before.loaded
  BY DEF ModuleAsFound
<1>0. c # Free /\ OperationFacts(c)
  BY FreeAssumption DEF Related
<1>1. answer \in [Callers -> {"none", "Completed", "Failed", "Denied"}]
  BY DEF IInv, TypeOK
<1>2. ~Crash
  BY DEF Crash
<1>3. PICK e \in Callers : EngineStep(e)
  <2>1. \E e \in Callers : Acquire(e) \/ EngineStep(e)
    BY <1>0, <1>2 DEF Next, Submit, Refuse, Rescan, Unstage, Stage, OtherSigns,
           OtherLoads, OtherUnloads, OtherUses, handlerVars, vars
  <2>2. QED
    BY <1>0, <2>1 DEF Acquire
<1>4. e = c
  BY <1>3, EngineStepInEngine
<1>5. CASE Reject(c) \/ Verify(c)
  BY <1>0, <1>5
     DEF OperationFacts, Reject, Verify, kernelVars, EnginePhases
<1>6. CASE Rollback(c)
  BY <1>6, RollbackFacts
<1>7. ~Commit(c)
  BY <1>1 DEF Commit, Return
<1>8. ~(Check(c) \/ Save(c) \/ Probe(c) \/ Unload(c) \/ Place(c) \/ Load(c))
  BY <1>0 DEF Check, Save, Probe, Unload, Place, Load, Continue
<1>9. QED
  BY <1>3, <1>4, <1>5, <1>6, <1>7, <1>8 DEF EngineStep

\* If nobody else loads modules, an install or a removal that is answered
\* Failed has left the module as it found it, at whichever step it failed.
THEOREM FailuresLeaveModule ==
  ASSUME NobodyElseLoads PROVE Spec => FailedLeavesModule
<1>1. IInv /\ Related /\ [Next]_vars => [ModuleAsFound]_vars
  BY StepLeavesModule
<1>2. QED
  BY <1>1, StaysRelated, PTL DEF Spec, FailedLeavesModule, ModuleAsFound


-----------------------------------------------------------------------------
(***************************************************************************)
(* Modules in use, whatever others load and unload.                        *)
(***************************************************************************)

\* Only a loaded module is held.
BusyIsLoaded == busy \subseteq loaded

\* No flags that the engine passes truncate, so a module that is unloaded is
\* one that nothing holds.
LEMMA UnloadedIsIdle ==
  ASSUME NEW m, NEW force, delete_module_ok(m, unload_flags(force))
  PROVE  m \notin busy
BY DEF delete_module_ok, unload_flags

LEMMA NextKeepsBusyLoaded ==
  BusyIsLoaded /\ [Next]_vars => BusyIsLoaded' /\ (\A m \in busy : m \in loaded')
<1> SUFFICES ASSUME BusyIsLoaded, [Next]_vars
             PROVE  BusyIsLoaded' /\ (\A m \in busy : m \in loaded')
  OBVIOUS
<1>1. ASSUME NEW c \in Callers, EngineStep(c)
      PROVE  BusyIsLoaded' /\ (\A m \in busy : m \in loaded')
  <2>1. CASE Unload(c)
    BY <2>1, UnloadedIsIdle DEF Unload, BusyIsLoaded, kernelVars
  <2>2. CASE Load(c) \/ Rollback(c)
    BY <2>2 DEF Load, Rollback, BusyIsLoaded
  <2>3. CASE Check(c) \/ Reject(c) \/ Verify(c) \/ Save(c) \/ Probe(c)
             \/ Place(c) \/ Commit(c)
    BY <2>3 DEF Check, Reject, Verify, Save, Probe, Place, Commit, kernelVars, BusyIsLoaded
  <2>4. QED
    BY <1>1, <2>1, <2>2, <2>3 DEF EngineStep
<1>2. CASE Rescan \/ Crash \/ UNCHANGED vars \/ \E c \in Callers : Submit(c) \/ Refuse(c) \/ Acquire(c)
  BY <1>2 DEF Rescan, Crash, Submit, Refuse, Acquire, vars, kernelVars, BusyIsLoaded
<1>3. ASSUME NEW x \in Drivers, NEW p \in Packages \cup {NoPackage},
             Unstage(x) \/ Stage(x, p) \/ OtherSigns(x, p)
      PROVE  BusyIsLoaded' /\ (\A m \in busy : m \in loaded')
  BY <1>3 DEF Unstage, Stage, OtherSigns, kernelVars, BusyIsLoaded
<1>4. ASSUME NEW m \in Modules, OtherLoads(m) \/ OtherUnloads(m) \/ OtherUses(m)
      PROVE  BusyIsLoaded' /\ (\A y \in busy : y \in loaded')
  BY <1>4 DEF OtherLoads, OtherUnloads, OtherUses, BusyIsLoaded
<1>5. QED
  BY <1>1, <1>2, <1>3, <1>4 DEF Next

\* Whatever is requested, with or without force, and whatever goes wrong: no
\* module that something holds a reference to is taken away (kmod.rs:404).
THEOREM BusyModulesSurvive == Spec => BusyModuleSurvives
<1>1. Init => BusyIsLoaded
  BY DEF Init, BusyIsLoaded
<1>2. BusyIsLoaded /\ [Next]_vars => BusyIsLoaded' /\ [\A m \in busy : m \in loaded']_vars
  BY NextKeepsBusyLoaded
<1>3. QED
  BY <1>1, <1>2, PTL DEF Spec, BusyModuleSurvives

=============================================================================
