----------------------------- MODULE ServiceBus -----------------------------
(***************************************************************************)
(* What clients of mission-driverd and mission-securityd see of a call:    *)
(* whether it was authorized, what it put on the audit trail, which        *)
(* signals it sent and in which order it did so.                           *)
(*                                                                         *)
(* A method is a script, the steps of its handler in the order of the      *)
(* code.  Handlers and the services' own tasks run concurrently; a step    *)
(* that works under the scanner mutex is one action, every other await is  *)
(* a place where the others may come in.  Taking a signal's sequence       *)
(* number and sending it are two steps.                                    *)
(*                                                                         *)
(* Of the inventory only its version is kept, of a request whether it is   *)
(* well formed.  A client lists the drivers whenever it hears of a change. *)
(* Bounds: each of Calls makes one call, the health task sends two signals *)
(* and the poll task finds an event once.                                  *)
(***************************************************************************)
EXTENDS Integers, Sequences

CONSTANTS
  Calls,   \* calls that clients make
  Health,  \* main's HealthChanged, and later the health task's
  Poll     \* the hardware poll task

Handlers == Calls \cup {Health, Poll}

ASSUME HandlersAssumption ==
  /\ Health \notin Calls /\ Poll \notin Calls /\ Health # Poll

-----------------------------------------------------------------------------
(***************************************************************************)
(* The methods.  Steps: check parses and validates the request, authorize  *)
(* asks the authorizer, audit records an event and event sends it, engine, *)
(* scan, read and find work on the inventory, clear on the package cache,  *)
(* changed sends InventoryChanged, health HealthChanged.  After done the   *)
(* steps are for a completed operation only.                               *)
(***************************************************************************)

get_version         == <<"none">>
get_status          == <<"ViewStatus", "authorize", "read", "audit", "event">>
scan_hardware       == <<"ScanHardware", "authorize", "scan", "audit", "event", "changed">>
list_drivers        == <<"ListDrivers", "authorize", "read">>
list_devices        == <<"ListDrivers", "authorize", "read">>
query_driver        == <<"QueryDriver", "authorize", "find">>
check_compatibility == <<"CheckCompatibility", "authorize", "find">>

\* A handler that announces before it has worked.
MutRemoveEarly == <<"RemoveDriver", "check", "authorize", "audit", "event", "changed", "engine">>

install_driver == <<"InstallDriver", "check", "authorize", "audit", "event", "engine", "changed",
                    "done", "audit", "event">>
remove_driver  == <<"RemoveDriver", "check", "authorize", "audit", "event", "engine", "changed">>
update_driver  == <<"UpdateDriver", "check", "authorize", "audit", "event", "engine", "changed">>

\* A handler that clears first.
MutClearCache == <<"ConfigureSources", "clear", "authorize", "audit">>

list_sources     == <<"ListDrivers", "authorize">>
refresh_metadata == <<"ConfigureSources", "authorize", "audit">>
get_cache_status == <<"ViewStatus", "authorize">>
clear_cache      == <<"ConfigureSources", "authorize", "clear", "audit">>

health_task == <<"none", "health">>
poll_task   == <<"none", "scan", "changed">>

DriverMethods ==
  {get_version, get_status, scan_hardware, list_drivers, list_devices,
   query_driver, check_compatibility, install_driver, remove_driver,
   update_driver, list_sources, refresh_metadata, get_cache_status, clear_cache}

\* mission-securityd: nothing is applied to the firewall yet.
security_status      == <<"none", "audit", "event">>
get_firewall_status  == <<"ViewFirewallStatus", "authorize">>
set_firewall_profile == <<"ConfigureFirewall", "check", "authorize", "audit", "event">>
add_firewall_rule    == <<"ConfigureFirewall", "check", "authorize", "audit", "event">>
export_audit_log     == <<"ExportAuditLog", "authorize", "audit", "event">>

SecurityMethods ==
  {get_version, security_status, get_firewall_status, set_firewall_profile,
   add_firewall_rule, export_audit_log}

-----------------------------------------------------------------------------
VARIABLES
  service,    \* which of the two services this is
  allow,      \* MISSION_ALLOW_UNAUTHORIZED is set
  method,     \* of each handler: the method, << >> before it starts
  at,         \* the step it has come to
  answer,     \* what it answered
  completed,  \* whether the engine said Completed
  number,     \* the number it took and has not sent yet, or -1
  log,        \* the audit records it made: the step, and the severity
  told,       \* whether it sent one of its events as a signal
  acted,      \* whether it worked on what the action protects
  seq,        \* SIGNAL_SEQUENCE
  top,        \* history: the largest number on the bus, or -1
  inventory,  \* version of the inventory
  known,      \* the version the client has listed
  news,       \* the client has an InventoryChanged it has not looked at
  listing,    \* the client is listing the drivers
  closed      \* the connection to the bus is gone

rigid   == <<service, allow>>
call    == <<method, at, answer, completed>>
trail   == <<log, told, acted>>
signals == <<number, seq, top, closed>>
client  == <<known, listing>>
vars    == <<rigid, call, trail, signals, inventory, client, news>>

Severities == {"Info", "Warning", "Error"}
Steps      == 1..10
None       == -1

TypeOK ==
  /\ service \in {"driverd", "securityd"} /\ allow \in BOOLEAN
  /\ method \in [Handlers -> DriverMethods \cup SecurityMethods
                               \cup {health_task, poll_task, << >>}]
  /\ at \in [Handlers -> Steps]
  /\ answer \in [Handlers -> {"none", "ok", "invalid", "denied", "failed"}]
  /\ completed \in [Handlers -> BOOLEAN]
  /\ number \in [Handlers -> Nat \cup {None}]
  /\ log \in [Handlers -> SUBSET (Steps \X Severities)]
  /\ told \in [Handlers -> BOOLEAN] /\ acted \in [Handlers -> BOOLEAN]
  /\ seq \in Nat /\ top \in Nat \cup {None}
  /\ inventory \in Nat /\ known \in Nat
  /\ news \in BOOLEAN /\ listing \in BOOLEAN /\ closed \in BOOLEAN

\* Where the handlers start; main makes the services' state and registers
\* the interfaces, and then acquires the name.
Init ==
  /\ service \in {"driverd", "securityd"}
  /\ allow \in BOOLEAN
  /\ method = [h \in Handlers |-> << >>]
  /\ at = [h \in Handlers |-> 1]
  /\ answer = [h \in Handlers |-> "none"]
  /\ completed = [h \in Handlers |-> FALSE]
  /\ number = [h \in Handlers |-> None]
  /\ log = [h \in Handlers |-> {}]
  /\ told = [h \in Handlers |-> FALSE] /\ acted = [h \in Handlers |-> FALSE]
  /\ seq = 0 /\ top = None
  /\ inventory = 0 /\ known = 0
  /\ news = FALSE /\ listing = FALSE /\ closed = FALSE

-----------------------------------------------------------------------------
Action(h) == method[h][1]
Runs(h)   == answer[h] = "none" /\ method[h] # << >>
AtStep(h, step) == Runs(h) /\ at[h] <= Len(method[h]) /\ method[h][at[h]] = step

MutAdvance(h) ==
  /\ at' = [at EXCEPT ![h] = @ + 1]
  /\ UNCHANGED <<method, answer>>

\* The handler goes on to the next step, or answers.
Advance(h) ==
  /\ IF at[h] = Len(method[h])
     THEN answer' = [answer EXCEPT ![h] = "ok"] /\ UNCHANGED at
     ELSE at' = [at EXCEPT ![h] = @ + 1] /\ UNCHANGED answer
  /\ UNCHANGED method

Reply(h, a) ==
  /\ answer' = [answer EXCEPT ![h] = a]
  /\ UNCHANGED <<method, at>>

\* A call arrives; get_version answers at once.
Begin(h, m) ==
  /\ method[h] = << >>
  /\ method' = [method EXCEPT ![h] = m]
  /\ at' = [at EXCEPT ![h] = IF Len(m) = 1 THEN 1 ELSE 2]
  /\ answer' = [answer EXCEPT ![h] = IF Len(m) = 1 THEN "ok" ELSE "none"]
  /\ UNCHANGED <<completed, rigid, trail, signals, inventory, client, news>>

Call(h) ==
  /\ h \in Calls /\ ~closed
  /\ \E m \in IF service = "driverd" THEN DriverMethods ELSE SecurityMethods : Begin(h, m)

\* main sends the first HealthChanged; the health task sends the others.
HealthStarts == Begin(Health, health_task)

\* The poll task is spawned next, and its monitor has events.
PollStarts ==
  /\ service = "driverd"
  /\ answer[Health] = "ok"
  /\ Begin(Poll, poll_task)

\* serde_json::from_str, and validate of the request.
Check(h) ==
  /\ AtStep(h, "check")
  /\ Advance(h) \/ Reply(h, "invalid")
  /\ UNCHANGED <<completed, rigid, trail, signals, inventory, client, news>>

-----------------------------------------------------------------------------
(***************************************************************************)
(* Authorizer::authorize of the two services.                              *)
(***************************************************************************)

DriverReadOnly   == {"ViewStatus", "ListDrivers", "QueryDriver", "CheckCompatibility"}
SecurityReadOnly == {"ViewFirewallStatus", "ViewAuditLog", "ViewSecureBootStatus",
                     "ViewSandboxStatus"}
ReadOnly == DriverReadOnly \cup SecurityReadOnly

\* PolKit's reply.
call_polkit_check == {"yes", "no", "error"}

\* An error, and a connection or a runtime that is not there, is a no.
check_authorization_sync ==
  {IF reply = "yes" THEN "Authorized" ELSE "Denied" : reply \in call_polkit_check}

driver_authorize(action) ==
  IF action \in DriverReadOnly \/ allow THEN {"Authorized"} ELSE check_authorization_sync

\* mission-securityd does not ask PolKit.
security_authorize(action) ==
  IF action \in SecurityReadOnly \/ allow THEN {"Authorized"} ELSE {"Denied"}

Decisions(action) ==
  IF service = "driverd" THEN driver_authorize(action) ELSE security_authorize(action)

audit_authorization(decision) ==
  IF decision = "Authorized" THEN "Info"
  ELSE IF decision = "Denied" THEN "Warning"
  ELSE "Error"

Authorize(h) ==
  /\ AtStep(h, "authorize")
  /\ \E decision \in Decisions(Action(h)) :
       /\ log' = [log EXCEPT ![h] = @ \cup {<<at[h], audit_authorization(decision)>>}]
       /\ IF decision = "Authorized" THEN Advance(h) ELSE Reply(h, "denied")
  /\ UNCHANGED <<completed, rigid, told, acted, signals, inventory, client, news>>

\* AppState::audit makes the event and records it.
Audit(h) ==
  /\ AtStep(h, "audit")
  /\ log' = [log EXCEPT ![h] = @ \cup {<<at[h], "Info">>}]
  /\ Advance(h)
  /\ UNCHANGED <<completed, rigid, told, acted, signals, inventory, client, news>>

-----------------------------------------------------------------------------
(***************************************************************************)
(* The work                                                                *)
(***************************************************************************)

Acts(h) == acted' = [acted EXCEPT ![h] = TRUE]

\* install_driver, remove_driver and update_driver of the engine: whatever
\* they answer, they may have changed the inventory.
Engine(h) ==
  /\ AtStep(h, "engine")
  /\ \E c \in BOOLEAN : completed' = [completed EXCEPT ![h] = c]
  /\ inventory' \in {inventory, inventory + 1}
  /\ Acts(h) /\ Advance(h)
  /\ UNCHANGED <<rigid, log, told, signals, client, news>>

\* scan_system never fails: what it cannot enumerate it clears.
Scan(h) ==
  /\ AtStep(h, "scan")
  /\ inventory' \in {inventory, inventory + 1}
  /\ Acts(h) /\ Advance(h)
  /\ UNCHANGED <<completed, rigid, log, told, signals, client, news>>

\* clear, which may fail with the directory.
Clear(h) ==
  /\ AtStep(h, "clear")
  /\ Acts(h)
  /\ Advance(h) \/ Reply(h, "failed")
  /\ UNCHANGED <<completed, rigid, log, told, signals, inventory, client, news>>

\* A listing, or the lookup of a driver that may not be there.
Read(h) ==
  /\ \/ AtStep(h, "read") /\ Advance(h)
     \/ AtStep(h, "find") /\ (Advance(h) \/ Reply(h, "failed"))
  /\ UNCHANGED <<completed, rigid, trail, signals, inventory, client, news>>

\* Only a completed installation goes on.
Done(h) ==
  /\ AtStep(h, "done")
  /\ IF completed[h] THEN Advance(h) ELSE Reply(h, "ok")
  /\ UNCHANGED <<completed, rigid, trail, signals, inventory, client, news>>

-----------------------------------------------------------------------------
(***************************************************************************)
(* The signals                                                             *)
(***************************************************************************)

Emits(h) == AtStep(h, "event") \/ AtStep(h, "changed") \/ AtStep(h, "health")

\* A counter that is loaded and stored.
Mutnext_sequence(h) ==
  /\ Emits(h) /\ number[h] = None
  /\ number' = [number EXCEPT ![h] = seq]
  /\ \E stored \in BOOLEAN : seq' = IF stored THEN seq + 1 ELSE seq
  /\ UNCHANGED <<call, rigid, trail, top, closed, inventory, client, news>>

\* next_sequence: fetch_add.
next_sequence(h) ==
  /\ Emits(h) /\ number[h] = None
  /\ number' = [number EXCEPT ![h] = seq]
  /\ seq' = seq + 1
  /\ UNCHANGED <<call, rigid, trail, top, closed, inventory, client, news>>

\* emit_signal: the bus takes it; an error is ignored.
emit_signal(h) ==
  /\ number[h] # None
  /\ number' = [number EXCEPT ![h] = None]
  /\ top' = IF ~closed /\ number[h] > top THEN number[h] ELSE top
  /\ told' = IF ~closed /\ AtStep(h, "event") THEN [told EXCEPT ![h] = TRUE] ELSE told
  /\ news' = (news \/ (~closed /\ AtStep(h, "changed")))
  /\ Advance(h)
  /\ UNCHANGED <<completed, rigid, log, acted, seq, closed, inventory, client>>

-----------------------------------------------------------------------------
\* The bus goes away; the service does not connect again.
Close ==
  /\ ~closed /\ closed' = TRUE
  /\ UNCHANGED <<call, rigid, trail, number, seq, top, inventory, client, news>>

\* A client that lists the drivers when it hears of a change ...
Hear ==
  /\ news /\ ~listing /\ ~closed
  /\ news' = FALSE /\ listing' = TRUE
  /\ UNCHANGED <<call, rigid, trail, signals, inventory, known>>

\* ... and has the answer.
Listed ==
  /\ listing /\ ~closed
  /\ known' = inventory /\ listing' = FALSE
  /\ UNCHANGED <<call, rigid, trail, signals, inventory, news>>

Goes(h) ==
  \/ Check(h) \/ Authorize(h) \/ Audit(h)
  \/ Engine(h) \/ Scan(h) \/ Clear(h) \/ Read(h) \/ Done(h)
  \/ next_sequence(h) \/ emit_signal(h)

Next ==
  \/ \E h \in Handlers : Call(h) \/ Goes(h)
  \/ HealthStarts \/ PollStarts
  \/ Close \/ Hear \/ Listed

Spec == Init /\ [][Next]_vars

-----------------------------------------------------------------------------
(***************************************************************************)
(* Whatever ran in which order, the client's list is the inventory, or it  *)
(* is about to list it, or a handler that worked on the inventory has the  *)
(* InventoryChanged still to send, or the bus is gone.  An                 *)
(* announcement that could overtake its change would leave the client      *)
(* with an old list for good (dbus.rs:515, main.rs:286).                   *)
(***************************************************************************)
Announces(h) == Runs(h) /\ acted[h] /\ \E i \in at[h]..Len(method[h]) : method[h][i] = "changed"

ChangesAreAnnounced ==
  known = inventory \/ news \/ listing \/ closed \/ \E h \in Handlers : Announces(h)

(***************************************************************************)
(* "Signals must include a sequence number for ordering"                   *)
(* (IPC_ARCHITECTURE.md:83): two handlers may send in the order opposite   *)
(* to that of their numbers, but a number that is taken is larger than all *)
(* that were sent, and nobody else holds it, so that a listener can put    *)
(* signals into the order of their causes (signals.rs:20).                 *)
(***************************************************************************)
NumbersOrder ==
  [][\A h \in Handlers : number[h] = None /\ number'[h] # None =>
       /\ number'[h] > top
       /\ \A g \in Handlers \ {h} : number[g] # number'[h]]_vars

(***************************************************************************)
(* A call that worked on something, told somebody or was answered well has *)
(* on the trail that its caller was allowed to, before the first of these; *)
(* with mission-securityd a privileged one never gets there without the    *)
(* development bypass.  A refusal is a warning on the trail (authz.rs:158, *)
(* dbus.rs:487).                                                           *)
(***************************************************************************)
Went(h)    == acted[h] \/ told[h] \/ answer[h] = "ok"
Granted(h) == \E i \in Steps : <<i, "Info">> \in log[h] /\ method[h][i] = "authorize"

GrantIsOnRecord ==
  \A h \in Calls :
    /\ Went(h) => \/ Action(h) = "none"
                  \/ Granted(h) /\ (Action(h) \in ReadOnly \/ allow \/ service = "driverd")
    /\ answer[h] = "denied" =>
         ~Went(h) /\ \E i \in Steps : <<i, "Warning">> \in log[h]
=============================================================================
