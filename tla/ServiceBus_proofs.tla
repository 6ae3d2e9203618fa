--------------------------- MODULE ServiceBus_proofs ---------------------------
(***************************************************************************)
(* What ServiceBus states of signals and of the audit trail, for any       *)
(* number of calls.  What carries the proofs: a handler that holds a       *)
(* number is at the step that sends it, each method has one place where    *)
(* it asks for authorization, before all of its work, and announces what   *)
(* it did to the inventory after that work.                                *)
(***************************************************************************)
EXTENDS ServiceBus, TLAPS

CallMethods == DriverMethods \cup SecurityMethods
Methods     == CallMethods \cup {health_task, poll_task}

\* What a handler does only after it was authorized.
Work == {"engine", "scan", "clear", "event", "done"}

-----------------------------------------------------------------------------
(***************************************************************************)
(* The methods                                                             *)
(***************************************************************************)

\* One authorization, and the work after it; or none at all.
Guarded(m) ==
  /\ m[1] = "none" => \A i \in 1..Len(m) : m[i] # "authorize"
  /\ m[1] # "none" =>
       \E a \in 2..Len(m) :
         /\ m[a] = "authorize"
         /\ \A i \in 1..Len(m) : (m[i] = "authorize" => i = a) /\ (m[i] \in Work => a < i)

LEMMA MethodLengths == \A m \in Methods : Len(m) \in 1..10 /\ m # << >>
<1>1. /\ Len(get_version) \in 1..10 /\ get_version # << >>
      /\ Len(get_status) \in 1..10 /\ get_status # << >>
      /\ Len(scan_hardware) \in 1..10 /\ scan_hardware # << >>
      /\ Len(list_drivers) \in 1..10 /\ list_drivers # << >>
      /\ Len(list_devices) \in 1..10 /\ list_devices # << >>
  BY DEF get_version, get_status, scan_hardware, list_drivers, list_devices
<1>2. /\ Len(query_driver) \in 1..10 /\ query_driver # << >>
      /\ Len(check_compatibility) \in 1..10 /\ check_compatibility # << >>
      /\ Len(install_driver) \in 1..10 /\ install_driver # << >>
      /\ Len(remove_driver) \in 1..10 /\ remove_driver # << >>
      /\ Len(update_driver) \in 1..10 /\ update_driver # << >>
  BY DEF query_driver, check_compatibility, install_driver, remove_driver, update_driver
<1>3. /\ Len(list_sources) \in 1..10 /\ list_sources # << >>
      /\ Len(refresh_metadata) \in 1..10 /\ refresh_metadata # << >>
      /\ Len(get_cache_status) \in 1..10 /\ get_cache_status # << >>
      /\ Len(clear_cache) \in 1..10 /\ clear_cache # << >>
      /\ Len(security_status) \in 1..10 /\ security_status # << >>
  BY DEF list_sources, refresh_metadata, get_cache_status, clear_cache, security_status
<1>4. /\ Len(get_firewall_status) \in 1..10 /\ get_firewall_status # << >>
      /\ Len(set_firewall_profile) \in 1..10 /\ set_firewall_profile # << >>
      /\ Len(add_firewall_rule) \in 1..10 /\ add_firewall_rule # << >>
      /\ Len(export_audit_log) \in 1..10 /\ export_audit_log # << >>
      /\ Len(health_task) \in 1..10 /\ health_task # << >>
  BY DEF get_firewall_status, set_firewall_profile, add_firewall_rule, export_audit_log, health_task
<1>5. /\ Len(poll_task) \in 1..10 /\ poll_task # << >>
  BY DEF poll_task
<1>6. QED
  BY <1>1, <1>2, <1>3, <1>4, <1>5
     DEF Methods, CallMethods, DriverMethods, SecurityMethods

LEMMA GuardedAt ==
  ASSUME NEW m, m[1] # "none", NEW a \in 2..Len(m), m[a] = "authorize",
         \A i \in 1..Len(m) : (m[i] = "authorize" => i = a) /\ (m[i] \in Work => a < i)
  PROVE  Guarded(m)
BY DEF Guarded

\* Each method of the two interfaces is guarded: the handlers of dbus.rs.
LEMMA MethodsAreGuarded == \A m \in CallMethods : Guarded(m)
<1>1. Guarded(get_version) /\ Guarded(security_status)
  BY DEF Guarded, get_version, security_status
<1>2. Guarded(get_status)
  BY GuardedAt, 2 \in 2..Len(get_status) DEF get_status, Work
<1>3. Guarded(scan_hardware)
  BY GuardedAt, 2 \in 2..Len(scan_hardware) DEF scan_hardware, Work
<1>4. Guarded(list_drivers)
  BY GuardedAt, 2 \in 2..Len(list_drivers) DEF list_drivers, Work
<1>5. Guarded(list_devices)
  BY GuardedAt, 2 \in 2..Len(list_devices) DEF list_devices, Work
<1>6. Guarded(query_driver)
  BY GuardedAt, 2 \in 2..Len(query_driver) DEF query_driver, Work
<1>7. Guarded(check_compatibility)
  BY GuardedAt, 2 \in 2..Len(check_compatibility) DEF check_compatibility, Work
<1>8. Guarded(install_driver)
  <2> DEFINE m == install_driver
  <2>1. /\ Len(m) = 10 /\ m[3] = "authorize" /\ m[1] # "none"
        /\ m[1] \notin Work \cup {"authorize"} /\ m[2] \notin Work \cup {"authorize"}
    BY DEF install_driver, Work
  <2>2. /\ m[4] # "authorize" /\ m[5] # "authorize" /\ m[6] # "authorize" /\ m[7] # "authorize"
        /\ m[8] # "authorize" /\ m[9] # "authorize" /\ m[10] # "authorize"
    BY DEF install_driver
  <2>3. m[3] \notin Work
    BY <2>1 DEF Work
  <2>4. \A i \in 1..10 : i \in {1, 2, 3, 4, 5, 6, 7, 8, 9, 10}
    OBVIOUS
  <2>5. \A i \in 1..10 : (m[i] = "authorize" => i = 3) /\ (m[i] \in Work => 3 < i)
    <3> HIDE DEF m
    <3> QED BY <2>1, <2>2, <2>3, <2>4
  <2>6. 3 \in 2..Len(m)
    BY <2>1
  <2>7. QED
    <3> HIDE DEF m
    <3>1. Guarded(m)
      BY <2>1, <2>5, <2>6, GuardedAt
    <3>2. QED
      BY <3>1 DEF m
<1>9. Guarded(remove_driver)
  BY GuardedAt, 3 \in 2..Len(remove_driver) DEF remove_driver, Work
<1>10. Guarded(update_driver)
  BY GuardedAt, 3 \in 2..Len(update_driver) DEF update_driver, Work
<1>11. Guarded(list_sources)
  BY GuardedAt, 2 \in 2..Len(list_sources) DEF list_sources, Work
<1>12. Guarded(refresh_metadata)
  BY GuardedAt, 2 \in 2..Len(refresh_metadata) DEF refresh_metadata, Work
<1>13. Guarded(get_cache_status)
  BY GuardedAt, 2 \in 2..Len(get_cache_status) DEF get_cache_status, Work
<1>14. Guarded(clear_cache)
  BY GuardedAt, 2 \in 2..Len(clear_cache) DEF clear_cache, Work
<1>15. Guarded(get_firewall_status)
  BY GuardedAt, 2 \in 2..Len(get_firewall_status) DEF get_firewall_status, Work
<1>16. Guarded(set_firewall_profile)
  BY GuardedAt, 3 \in 2..Len(set_firewall_profile) DEF set_firewall_profile, Work
<1>17. Guarded(add_firewall_rule)
  BY GuardedAt, 3 \in 2..Len(add_firewall_rule) DEF add_firewall_rule, Work
<1>18. Guarded(export_audit_log)
  BY GuardedAt, 2 \in 2..Len(export_audit_log) DEF export_audit_log, Work
<1>19. QED
  BY <1>1, <1>2, <1>3, <1>4, <1>5, <1>6, <1>7, <1>8, <1>9, <1>10, <1>11, <1>12, <1>13, <1>14, <1>15, <1>16, <1>17, <1>18
     DEF CallMethods, DriverMethods, SecurityMethods

-----------------------------------------------------------------------------
(***************************************************************************)
(* The invariant                                                           *)
(***************************************************************************)

\* A handler that took a number is at the step that sends it; no number is
\* held twice or was given before.
NumbersHeld ==
  /\ top < seq
  /\ \A h \in Handlers : number[h] # None =>
       /\ Emits(h) /\ number[h] < seq
       /\ \A g \in Handlers \ {h} : number[g] # number[h]

\* Where a handler may be: within its method.
InMethod ==
  /\ \A h \in Handlers : method[h] = << >> =>
       answer[h] = "none" /\ ~acted[h] /\ ~told[h]
  /\ \A h \in Handlers : method[h] # << >> => at[h] \in 1..Len(method[h])
  /\ \A h \in Calls : method[h] \in CallMethods \cup {<< >>}

\* A call beyond its authorization has the grant on the trail.
Beyond(h, i) == i < at[h] \/ (i = at[h] /\ answer[h] = "ok")

Permitted(h) == Action(h) \in ReadOnly \/ allow \/ service = "driverd"

GrantsLogged ==
  \A h \in Calls : \A i \in 1..Len(method[h]) :
    method[h][i] = "authorize" /\ Beyond(h, i) => <<i, "Info">> \in log[h] /\ Permitted(h)

\* What it did comes of a step it has come to.
WorkDone ==
  \A h \in Calls :
    /\ acted[h] \/ told[h] =>
         \E i \in 1..Len(method[h]) : i <= at[h] /\ method[h][i] \in Work
    /\ answer[h] = "ok" => \/ at[h] = Len(method[h])
                           \/ method[h][at[h]] \in Work

RefusalsLogged ==
  \A h \in Calls : answer[h] = "denied" =>
    method[h] # << >> /\ method[h][at[h]] = "authorize" /\ <<at[h], "Warning">> \in log[h]

TrailInv == InMethod /\ GrantsLogged /\ WorkDone /\ RefusalsLogged

IInv == TypeOK /\ NumbersHeld /\ TrailInv

LEMMA InitEstablishes == Init => IInv
<1> SUFFICES ASSUME Init PROVE IInv
  OBVIOUS
<1>1. TypeOK
  <2>1. method \in [Handlers -> DriverMethods \cup SecurityMethods
                                \cup {health_task, poll_task, << >>}]
    BY DEF Init
  <2>2. at \in [Handlers -> Steps] /\ log \in [Handlers -> SUBSET (Steps \X Severities)]
    BY DEF Init, Steps
  <2>3. QED
    BY <2>1, <2>2 DEF Init, TypeOK, None
<1>2. NumbersHeld
  BY DEF Init, NumbersHeld, None
<1>3. TrailInv
  <2>1. \A h \in Calls : h \in Handlers
    BY DEF Handlers
  <2>2. \A h \in Handlers : /\ method[h] = << >> /\ answer[h] = "none"
                            /\ ~acted[h] /\ ~told[h]
    BY DEF Init
  <2>3. InMethod
    BY <2>1, <2>2 DEF InMethod
  <2>4. GrantsLogged
    <3>1. Len(<< >>) = 0
      OBVIOUS
    <3>2. \A h \in Calls : Len(method[h]) = 0
      BY <2>1, <2>2, <3>1
    <3>3. QED
      BY <3>2 DEF GrantsLogged
  <2>5. WorkDone /\ RefusalsLogged
    BY <2>1, <2>2 DEF WorkDone, RefusalsLogged
  <2>6. QED
    BY <2>3, <2>4, <2>5 DEF TrailInv
<1>4. QED
  BY <1>1, <1>2, <1>3 DEF IInv

-----------------------------------------------------------------------------
(***************************************************************************)
(* One step of a handler                                                   *)
(***************************************************************************)

\* The handler goes on, or answers, and does not touch the others' progress.
Moves(h) ==
  /\ UNCHANGED method
  /\ \/ at[h] # Len(method[h]) /\ at' = [at EXCEPT ![h] = @ + 1] /\ UNCHANGED answer
     \/ at[h] = Len(method[h]) /\ UNCHANGED at /\ answer' = [answer EXCEPT ![h] = "ok"]
     \/ UNCHANGED at /\ answer' = [answer EXCEPT ![h] = "invalid"]
     \/ UNCHANGED at /\ answer' = [answer EXCEPT ![h] = "denied"]
     \/ UNCHANGED at /\ answer' = [answer EXCEPT ![h] = "failed"]
     \/ method[h][at[h]] = "done" /\ UNCHANGED at /\ answer' = [answer EXCEPT ![h] = "ok"]

\* A running handler is within its method, and its step is one of Steps.
LEMMA RunningIsInMethod ==
  ASSUME TypeOK, InMethod, NEW h \in Handlers, Runs(h)
  PROVE  /\ at[h] \in 1..Len(method[h]) /\ Len(method[h]) \in 1..10
         /\ method[h] \in Methods
BY MethodLengths DEF TypeOK, InMethod, Runs, Methods, CallMethods

\* Moves keeps the types of what it changes.
LEMMA MovesTypes ==
  ASSUME TypeOK, InMethod, NEW h \in Handlers, Runs(h), Moves(h)
  PROVE  /\ method' \in [Handlers -> DriverMethods \cup SecurityMethods
                                       \cup {health_task, poll_task, << >>}]
         /\ at' \in [Handlers -> Steps]
         /\ answer' \in [Handlers -> {"none", "ok", "invalid", "denied", "failed"}]
<1>1. at[h] \in 1..Len(method[h]) /\ Len(method[h]) \in 1..10
  BY RunningIsInMethod
<1>2. at[h] # Len(method[h]) => at[h] + 1 \in Steps
  <2>1. \A i, n : n \in 1..10 /\ i \in 1..n /\ i # n => i + 1 \in 1..10
    OBVIOUS
  <2>2. QED
    BY <1>1, <2>1 DEF Steps
<1>3. at' \in [Handlers -> Steps]
  BY <1>2 DEF TypeOK, Moves
<1>4. answer' \in [Handlers -> {"none", "ok", "invalid", "denied", "failed"}]
  BY DEF TypeOK, Moves
<1>5. method' = method
  BY DEF Moves
<1>6. QED
  BY <1>3, <1>4, <1>5 DEF TypeOK

\* Nobody's number depends on the step of a handler that holds none.
LEMMA MovesNumbers ==
  ASSUME TypeOK, NumbersHeld, NEW h \in Handlers, Moves(h), number[h] = None,
         UNCHANGED <<number, seq, top>>
  PROVE  NumbersHeld'
<1>1. \A g \in Handlers \ {h} : at'[g] = at[g] /\ answer'[g] = answer[g] /\ method'[g] = method[g]
  BY DEF Moves, TypeOK
<1>2. \A g \in Handlers \ {h} : Emits(g) => Emits(g)'
  BY <1>1 DEF Emits, AtStep, Runs
<1>3. QED
  BY <1>2 DEF NumbersHeld

\* What a handler's step must be like for the trail to stay complete.
TrailStep(h) ==
  /\ UNCHANGED rigid
  /\ \A g \in Handlers \ {h} : log'[g] = log[g] /\ told'[g] = told[g] /\ acted'[g] = acted[g]
  /\ log[h] \subseteq log'[h]
  /\ acted'[h] \/ told'[h] => acted[h] \/ told[h] \/ method[h][at[h]] \in Work
  /\ method[h][at[h]] = "authorize" /\ (at'[h] # at[h] \/ answer'[h] = "ok") =>
       <<at[h], "Info">> \in log'[h] /\ Permitted(h)
  /\ answer'[h] = "denied" =>
       method[h][at[h]] = "authorize" /\ <<at[h], "Warning">> \in log'[h]

LEMMA TrailKept ==
  ASSUME TypeOK, TrailInv, NEW h \in Handlers, Runs(h), Moves(h), TrailStep(h)
  PROVE  TrailInv'
<1>1. \A g \in Handlers \ {h} :
        /\ at'[g] = at[g] /\ answer'[g] = answer[g] /\ method'[g] = method[g]
        /\ log'[g] = log[g] /\ told'[g] = told[g] /\ acted'[g] = acted[g]
  BY DEF Moves, TypeOK, TrailStep
<1>2. /\ at[h] \in 1..Len(method[h]) /\ Len(method[h]) \in 1..10
      /\ method[h] # << >> /\ answer[h] = "none"
  BY RunningIsInMethod DEF TrailInv, Runs
<1>3. method' = method /\ service' = service /\ allow' = allow
  BY DEF Moves, TrailStep, rigid
<1>4. /\ at'[h] \in 1..Len(method[h])
      /\ at'[h] = at[h] \/ (at'[h] = at[h] + 1 /\ answer'[h] = "none")
      /\ answer'[h] = "ok" => at[h] = Len(method[h]) \/ method[h][at[h]] = "done"
  BY <1>2 DEF Moves, TypeOK
<1>5. \A g \in Calls : g \in Handlers
  BY DEF Handlers
<1>6. InMethod'
  BY <1>1, <1>2, <1>3, <1>4 DEF TrailInv, InMethod
<1>7. GrantsLogged'
  <2>1. SUFFICES ASSUME NEW g \in Calls, NEW i \in 1..Len(method[g]),
                        method[g][i] = "authorize", Beyond(g, i)'
                 PROVE  <<i, "Info">> \in log'[g] /\ Permitted(g)'
    BY <1>3 DEF GrantsLogged
  <2>2. Permitted(g)' <=> Permitted(g)
    BY <1>3 DEF Permitted, Action
  <2>3. CASE g # h
    BY <1>1, <1>5, <2>1, <2>2, <2>3 DEF TrailInv, GrantsLogged, Beyond
  <2>4. CASE g = h /\ i < at[h]
    BY <2>1, <2>2, <2>4 DEF TrailInv, GrantsLogged, Beyond, TrailStep
  <2>5. CASE g = h /\ ~(i < at[h])
    <3>1. i = at[h] /\ (at'[h] # at[h] \/ answer'[h] = "ok")
      BY <1>2, <1>4, <2>1, <2>5 DEF Beyond
    <3>2. QED
      BY <2>1, <2>2, <2>5, <3>1 DEF TrailStep
  <2>6. QED
    BY <2>3, <2>4, <2>5
<1>8. WorkDone'
  <2>1. SUFFICES ASSUME NEW g \in Calls
                 PROVE  /\ acted'[g] \/ told'[g] =>
                             \E i \in 1..Len(method[g]) : i <= at'[g] /\ method[g][i] \in Work
                        /\ answer'[g] = "ok" => \/ at'[g] = Len(method[g])
                                                \/ method[g][at'[g]] \in Work
    BY <1>3 DEF WorkDone
  <2>2. CASE g # h
    BY <1>1, <1>5, <2>2 DEF TrailInv, WorkDone
  <2>3. CASE g = h
    <3>1. acted[h] \/ told[h] =>
            \E i \in 1..Len(method[h]) : i <= at[h] /\ method[h][i] \in Work
      BY <2>1, <2>3 DEF TrailInv, WorkDone
    <3>2. acted'[h] \/ told'[h] =>
            \E i \in 1..Len(method[h]) : i <= at[h] /\ method[h][i] \in Work
      BY <1>2, <3>1 DEF TrailStep
    <3>3. acted'[h] \/ told'[h] =>
            \E i \in 1..Len(method[h]) : i <= at'[h] /\ method[h][i] \in Work
      BY <1>2, <1>4, <3>2
    <3>4. answer'[h] = "ok" => at'[h] = at[h] /\ (at[h] = Len(method[h]) \/ method[h][at[h]] \in Work)
      BY <1>4 DEF Work
    <3>5. QED
      BY <2>3, <3>3, <3>4
  <2>4. QED
    BY <2>2, <2>3
<1>9. RefusalsLogged'
  <2>1. answer'[h] = "denied" => at'[h] = at[h]
    BY <1>4
  <2>2. QED
    BY <1>1, <1>2, <1>3, <1>5, <2>1 DEF TrailInv, RefusalsLogged, TrailStep
<1>10. QED
  BY <1>6, <1>7, <1>8, <1>9 DEF TrailInv

\* The rest of a step that holds no number: types, numbers and trail.
LEMMA StepKeeps ==
  ASSUME IInv, NEW h \in Handlers, Runs(h), Moves(h), TrailStep(h), number[h] = None,
         UNCHANGED <<number, seq, top, closed, news, listing, known>>,
         completed' \in [Handlers -> BOOLEAN], inventory' \in Nat,
         log' \in [Handlers -> SUBSET (Steps \X Severities)],
         told' \in [Handlers -> BOOLEAN], acted' \in [Handlers -> BOOLEAN]
  PROVE  IInv'
<1>1. TypeOK'
  BY MovesTypes DEF IInv, TrailInv, TypeOK, TrailStep, rigid
<1>2. QED
  BY <1>1, MovesNumbers, TrailKept DEF IInv

-----------------------------------------------------------------------------
(***************************************************************************)
(* The actions                                                             *)
(***************************************************************************)

LEMMA CallsAreHandlers == \A h \in Calls : h \in Handlers
BY DEF Handlers

\* A handler at a step that sends no signal runs and holds no number.
LEMMA QuietStep ==
  ASSUME IInv, NEW h \in Handlers, NEW step, AtStep(h, step),
         step \notin {"event", "changed", "health"}
  PROVE  Runs(h) /\ method[h][at[h]] = step /\ number[h] = None
BY DEF IInv, NumbersHeld, Emits, AtStep

LEMMA BeginKeeps ==
  ASSUME IInv, NEW h \in Handlers, NEW m, Begin(h, m), m \in Methods,
         h \in Calls => m \in CallMethods
  PROVE  IInv'
<1>1. /\ method[h] = << >> /\ answer[h] = "none" /\ ~acted[h] /\ ~told[h]
      /\ Len(m) \in 1..10 /\ m # << >>
  BY MethodLengths DEF Begin, IInv, TrailInv, InMethod
<1>2. /\ method' = [method EXCEPT ![h] = m]
      /\ at' = [at EXCEPT ![h] = IF Len(m) = 1 THEN 1 ELSE 2]
      /\ answer' = [answer EXCEPT ![h] = IF Len(m) = 1 THEN "ok" ELSE "none"]
      /\ UNCHANGED <<completed, service, allow, log, told, acted, number, seq, top, closed,
                     inventory, known, listing, news>>
  BY DEF Begin, rigid, trail, signals, client
<1>3. TypeOK'
  <2>1. method' \in [Handlers -> DriverMethods \cup SecurityMethods
                                 \cup {health_task, poll_task, << >>}]
    BY <1>2 DEF IInv, TypeOK, Methods, CallMethods
  <2>2. at' \in [Handlers -> Steps]
    BY <1>2 DEF IInv, TypeOK, Steps
  <2>3. answer' \in [Handlers -> {"none", "ok", "invalid", "denied", "failed"}]
    BY <1>2 DEF IInv, TypeOK
  <2>4. QED
    BY <1>2, <2>1, <2>2, <2>3 DEF IInv, TypeOK
<1>4. \A g \in Handlers \ {h} :
        at'[g] = at[g] /\ answer'[g] = answer[g] /\ method'[g] = method[g]
  BY <1>2 DEF IInv, TypeOK
<1>5. NumbersHeld'
  <2>1. number[h] = None
    BY <1>1 DEF IInv, NumbersHeld, Emits, AtStep, Runs
  <2>2. \A g \in Handlers \ {h} : Emits(g) => Emits(g)'
    BY <1>4 DEF Emits, AtStep, Runs
  <2>3. QED
    BY <1>2, <2>1, <2>2 DEF IInv, NumbersHeld
<1>6. /\ method'[h] = m /\ at'[h] \in 1..Len(m)
      /\ Len(m) = 1 => at'[h] = 1 /\ answer'[h] = "ok"
      /\ Len(m) # 1 => at'[h] = 2 /\ answer'[h] = "none"
  <2>1. /\ method'[h] = m
        /\ at'[h] = IF Len(m) = 1 THEN 1 ELSE 2
        /\ answer'[h] = IF Len(m) = 1 THEN "ok" ELSE "none"
    BY <1>2 DEF IInv, TypeOK
  <2>2. \A n \in 1..10 : (IF n = 1 THEN 1 ELSE 2) \in 1..n
    OBVIOUS
  <2>3. at'[h] \in 1..Len(m)
    BY <1>1, <2>1, <2>2
  <2>4. QED
    BY <2>1, <2>3
<1>7. TrailInv'
  <2>1. InMethod'
    BY <1>1, <1>2, <1>4, <1>6 DEF IInv, TrailInv, InMethod
  <2>2. h \in Calls => Guarded(m)
    BY MethodsAreGuarded
  <2>3. h \in Calls => \A i \in 1..Len(m) : m[i] = "authorize" => 2 <= i
    BY <1>1, <2>2 DEF Guarded
  <2>4. GrantsLogged'
    <3>1. SUFFICES ASSUME NEW g \in Calls, NEW i \in 1..Len(method'[g]),
                          method'[g][i] = "authorize", Beyond(g, i)'
                   PROVE  <<i, "Info">> \in log'[g] /\ Permitted(g)'
      BY DEF GrantsLogged
    <3>2. CASE g = h
      BY <1>1, <1>6, <2>3, <3>1, <3>2 DEF Beyond
    <3>3. CASE g # h
      BY <1>2, <1>4, <3>1, <3>3, CallsAreHandlers
         DEF IInv, TrailInv, GrantsLogged, Beyond, Permitted, Action
    <3>4. QED
      BY <3>2, <3>3
  <2>5. WorkDone'
    BY <1>1, <1>2, <1>4, <1>6, CallsAreHandlers DEF IInv, TrailInv, WorkDone
  <2>6. RefusalsLogged'
    BY <1>1, <1>2, <1>4, <1>6, CallsAreHandlers DEF IInv, TrailInv, RefusalsLogged
  <2>7. QED
    BY <2>1, <2>4, <2>5, <2>6 DEF TrailInv
<1>8. QED
  BY <1>3, <1>5, <1>7 DEF IInv

\* Steps that touch nothing but the progress of their handler.
LEMMA PlainKeeps ==
  ASSUME IInv, NEW h \in Handlers, NEW step, AtStep(h, step), Moves(h),
         step \in {"check", "read", "find", "done"}, answer'[h] # "denied",
         UNCHANGED <<completed, rigid, trail, signals, inventory, client, news>>
  PROVE  IInv'
<1>1. Runs(h) /\ method[h][at[h]] = step /\ number[h] = None
  BY QuietStep
<1>2. TrailStep(h)
  BY <1>1 DEF TrailStep, trail
<1>3. QED
  BY <1>1, <1>2, StepKeeps DEF IInv, TypeOK, trail, signals, client

LEMMA AdvanceMoves ==
  ASSUME NEW h, Advance(h) PROVE Moves(h)
BY DEF Advance, Moves

LEMMA AnswerIsNot ==
  ASSUME TypeOK, NEW h \in Handlers, Runs(h)
  PROVE  /\ Advance(h) => answer'[h] # "denied"
         /\ \A a : Reply(h, a) => answer'[h] = a
BY DEF Advance, Reply, TypeOK, Runs

\* Parsing, reading and the branch after an installation.
LEMMA QuietKeep ==
  ASSUME IInv, NEW h \in Handlers, Check(h) \/ Read(h) \/ Done(h)
  PROVE  IInv'
<1>1. TypeOK
  BY DEF IInv
<1>2. CASE Check(h)
  <2>1. AtStep(h, "check") /\ Moves(h) /\ answer'[h] # "denied"
    BY <1>1, <1>2, AdvanceMoves, AnswerIsNot DEF Check, Reply, Moves, AtStep
  <2>2. QED
    BY <1>2, <2>1, PlainKeeps DEF Check
<1>3. CASE Read(h)
  <2>1. PICK step \in {"read", "find"} : AtStep(h, step) /\ (Advance(h) \/ Reply(h, "failed"))
    BY <1>3 DEF Read
  <2>2. Moves(h) /\ answer'[h] # "denied"
    BY <1>1, <2>1, AdvanceMoves, AnswerIsNot DEF Reply, Moves, AtStep
  <2>3. QED
    BY <1>3, <2>1, <2>2, PlainKeeps DEF Read
<1>4. CASE Done(h)
  <2>1. AtStep(h, "done") /\ Moves(h) /\ answer'[h] # "denied"
    BY <1>1, <1>4, AdvanceMoves, AnswerIsNot DEF Done, Reply, Moves, AtStep
  <2>2. QED
    BY <1>4, <2>1, PlainKeeps DEF Done
<1>5. QED
  BY <1>2, <1>3, <1>4

\* Work on the inventory or the cache.
LEMMA WorkKeeps ==
  ASSUME IInv, NEW h \in Handlers, Engine(h) \/ Scan(h) \/ Clear(h)
  PROVE  IInv'
<1>1. TypeOK
  BY DEF IInv
<1>2. PICK step \in {"engine", "scan", "clear"} :
        AtStep(h, step) /\ (Advance(h) \/ Reply(h, "failed"))
  BY DEF Engine, Scan, Clear
<1>3. Runs(h) /\ method[h][at[h]] = step /\ number[h] = None
  BY <1>2, QuietStep
<1>4. Moves(h) /\ answer'[h] # "denied"
  BY <1>1, <1>2, <1>3, AdvanceMoves, AnswerIsNot DEF Reply, Moves
<1>5. /\ acted' = [acted EXCEPT ![h] = TRUE]
      /\ UNCHANGED <<rigid, log, told, signals, client, news>>
  BY DEF Engine, Scan, Clear, Acts
<1>6. completed' \in [Handlers -> BOOLEAN] /\ inventory' \in Nat
  BY <1>1 DEF Engine, Scan, Clear, TypeOK
<1>7. TrailStep(h)
  BY <1>1, <1>3, <1>4, <1>5 DEF TrailStep, TypeOK, Work
<1>8. acted' \in [Handlers -> BOOLEAN]
  BY <1>1, <1>5 DEF TypeOK
<1>9. QED
  BY <1>1, <1>3, <1>4, <1>5, <1>6, <1>7, <1>8, StepKeeps DEF TypeOK, signals, client

\* What is on the trail of a handler keeps its type and only grows.
LEMMA LogGrows ==
  ASSUME TypeOK, NEW h \in Handlers, at[h] \in Steps, NEW severity \in Severities,
         log' = [log EXCEPT ![h] = @ \cup {<<at[h], severity>>}]
  PROVE  /\ log' \in [Handlers -> SUBSET (Steps \X Severities)]
         /\ log[h] \subseteq log'[h] /\ <<at[h], severity>> \in log'[h]
         /\ \A g \in Handlers \ {h} : log'[g] = log[g]
<1>1. log \in [Handlers -> SUBSET (Steps \X Severities)]
  BY DEF TypeOK
<1>2. <<at[h], severity>> \in Steps \X Severities
  OBVIOUS
<1>3. log'[h] = log[h] \cup {<<at[h], severity>>}
  BY <1>1
<1>4. QED
  BY <1>1, <1>2, <1>3

\* An authorized caller may: by the action, the bypass, or PolKit's answer.
LEMMA DecisionsMean ==
  ASSUME TypeOK, NEW action, NEW decision \in Decisions(action)
  PROVE  /\ decision \in {"Authorized", "Denied"}
         /\ decision = "Authorized" => action \in ReadOnly \/ allow \/ service = "driverd"
BY DEF Decisions, driver_authorize, security_authorize, check_authorization_sync,
       call_polkit_check, ReadOnly, TypeOK

LEMMA AuthorizeKeeps ==
  ASSUME IInv, NEW h \in Handlers, Authorize(h)
  PROVE  IInv'
<1>1. TypeOK /\ at[h] \in Steps
  BY DEF IInv, TypeOK
<1>2. PICK decision \in Decisions(Action(h)) :
        /\ log' = [log EXCEPT ![h] = @ \cup {<<at[h], audit_authorization(decision)>>}]
        /\ IF decision = "Authorized" THEN Advance(h) ELSE Reply(h, "denied")
  BY DEF Authorize
<1>3. AtStep(h, "authorize") /\ Runs(h) /\ method[h][at[h]] = "authorize" /\ number[h] = None
  BY QuietStep DEF Authorize
<1>4. /\ decision \in {"Authorized", "Denied"}
      /\ decision = "Authorized" => Permitted(h)
  BY <1>1, DecisionsMean DEF Permitted
<1>5. /\ audit_authorization(decision) \in Severities
      /\ decision = "Authorized" => audit_authorization(decision) = "Info"
      /\ decision = "Denied" => audit_authorization(decision) = "Warning"
  BY <1>4 DEF audit_authorization, Severities
<1>6. UNCHANGED <<completed, rigid, told, acted, signals, inventory, client, news>>
  BY DEF Authorize
<1>7. Moves(h)
  BY <1>2, AdvanceMoves DEF Reply, Moves
<1>8. decision = "Denied" => at'[h] = at[h] /\ answer'[h] = "denied"
  BY <1>1, <1>2 DEF Reply, TypeOK
<1>9. decision = "Authorized" => answer'[h] # "denied"
  BY <1>1, <1>2, <1>3, AnswerIsNot
<1>10. /\ log' \in [Handlers -> SUBSET (Steps \X Severities)]
       /\ log[h] \subseteq log'[h] /\ <<at[h], audit_authorization(decision)>> \in log'[h]
       /\ \A g \in Handlers \ {h} : log'[g] = log[g]
  BY <1>1, <1>2, <1>5, LogGrows
<1>11. TrailStep(h)
  BY <1>3, <1>4, <1>5, <1>6, <1>8, <1>9, <1>10 DEF TrailStep
<1>12. QED
  BY <1>1, <1>3, <1>6, <1>7, <1>10, <1>11, StepKeeps DEF TypeOK, signals, client

LEMMA AuditKeeps ==
  ASSUME IInv, NEW h \in Handlers, Audit(h)
  PROVE  IInv'
<1>1. TypeOK /\ at[h] \in Steps /\ "Info" \in Severities
  BY DEF IInv, TypeOK, Severities
<1>2. /\ log' = [log EXCEPT ![h] = @ \cup {<<at[h], "Info">>}]
      /\ Advance(h)
      /\ UNCHANGED <<completed, rigid, told, acted, signals, inventory, client, news>>
  BY DEF Audit
<1>3. Runs(h) /\ method[h][at[h]] = "audit" /\ number[h] = None
  BY QuietStep DEF Audit
<1>4. /\ log' \in [Handlers -> SUBSET (Steps \X Severities)]
      /\ log[h] \subseteq log'[h]
      /\ \A g \in Handlers \ {h} : log'[g] = log[g]
  BY <1>1, <1>2, LogGrows
<1>5. Moves(h) /\ answer'[h] # "denied"
  BY <1>1, <1>2, <1>3, AdvanceMoves, AnswerIsNot
<1>6. TrailStep(h)
  BY <1>2, <1>3, <1>4, <1>5 DEF TrailStep
<1>7. QED
  BY <1>1, <1>2, <1>3, <1>4, <1>5, <1>6, StepKeeps DEF TypeOK, signals, client

\* fetch_add gives a number that nobody has had.
LEMMA NextSequenceKeeps ==
  ASSUME IInv, NEW h \in Handlers, next_sequence(h)
  PROVE  IInv'
<1>1. /\ Emits(h) /\ number[h] = None
      /\ number' = [number EXCEPT ![h] = seq] /\ seq' = seq + 1
      /\ UNCHANGED <<call, rigid, trail, top, closed, inventory, client, news>>
  BY DEF next_sequence
<1>2. TypeOK'
  BY <1>1 DEF IInv, TypeOK, call, rigid, trail, client
<1>3. NumbersHeld'
  <2>1. \A g \in Handlers : Emits(g)' <=> Emits(g)
    BY <1>1 DEF Emits, AtStep, Runs, call
  <2>2. seq \in Nat /\ top < seq /\ top' = top /\ seq' = seq + 1 /\ top \in Nat \cup {-1}
    BY <1>1 DEF IInv, NumbersHeld, TypeOK, None
  <2>3. number'[h] = seq /\ \A g \in Handlers \ {h} : number'[g] = number[g]
    BY <1>1 DEF IInv, TypeOK
  <2>4. \A g \in Handlers : number[g] # None => number[g] \in Nat /\ number[g] < seq
    BY DEF IInv, NumbersHeld, TypeOK
  <2>5. QED
    BY <1>1, <2>1, <2>2, <2>3, <2>4 DEF IInv, NumbersHeld
<1>4. TrailInv'
  BY <1>1 DEF IInv, TrailInv, InMethod, GrantsLogged, WorkDone, RefusalsLogged,
              Beyond, Permitted, Action, call, rigid, trail
<1>5. QED
  BY <1>2, <1>3, <1>4 DEF IInv

LEMMA EmitSignalKeeps ==
  ASSUME IInv, NEW h \in Handlers, emit_signal(h)
  PROVE  IInv'
<1>1. /\ number[h] # None /\ Advance(h)
      /\ number' = [number EXCEPT ![h] = None]
      /\ top' = IF ~closed /\ number[h] > top THEN number[h] ELSE top
      /\ told' = IF ~closed /\ AtStep(h, "event") THEN [told EXCEPT ![h] = TRUE] ELSE told
      /\ news' = (news \/ (~closed /\ AtStep(h, "changed")))
      /\ UNCHANGED <<completed, service, allow, log, acted, seq, closed, inventory,
                     known, listing>>
  BY DEF emit_signal, rigid, client
<1>2. TypeOK /\ NumbersHeld /\ TrailInv /\ InMethod
  BY DEF IInv, TrailInv
<1>3. Emits(h) /\ number[h] \in Nat /\ number[h] < seq
  BY <1>1, <1>2 DEF NumbersHeld, TypeOK
<1>4. Runs(h) /\ method[h][at[h]] \in {"event", "changed", "health"}
  BY <1>3 DEF Emits, AtStep
<1>5. Moves(h) /\ answer'[h] # "denied"
  BY <1>1, <1>2, <1>4, AdvanceMoves, AnswerIsNot
<1>6. /\ \A g \in Handlers \ {h} : told'[g] = told[g]
      /\ told' \in [Handlers -> BOOLEAN]
      /\ told'[h] => told[h] \/ AtStep(h, "event")
  BY <1>1, <1>2 DEF TypeOK
<1>7. TrailStep(h)
  BY <1>1, <1>4, <1>5, <1>6 DEF TrailStep, rigid, Work, AtStep
<1>8. TrailInv'
  BY <1>2, <1>4, <1>5, <1>7, TrailKept
<1>9. TypeOK'
  <2>1. top' \in Nat \cup {None} /\ number' \in [Handlers -> Nat \cup {None}]
    BY <1>1, <1>2, <1>3 DEF TypeOK
  <2>2. news' \in BOOLEAN
    BY <1>1, <1>2 DEF TypeOK
  <2>3. QED
    BY <1>1, <1>2, <1>4, <1>5, <1>6, <2>1, <2>2, MovesTypes DEF TypeOK
<1>10. NumbersHeld'
  <2>1. \A g \in Handlers \ {h} : at'[g] = at[g] /\ answer'[g] = answer[g] /\ method'[g] = method[g]
    BY <1>2, <1>5 DEF Moves, TypeOK
  <2>2. \A g \in Handlers \ {h} : Emits(g) => Emits(g)'
    BY <2>1 DEF Emits, AtStep, Runs
  <2>3. number'[h] = None /\ \A g \in Handlers \ {h} : number'[g] = number[g]
    BY <1>1, <1>2 DEF TypeOK
  <2>4. top' < seq'
    BY <1>1, <1>2, <1>3 DEF NumbersHeld
  <2>5. QED
    BY <1>1, <1>2, <2>2, <2>3, <2>4 DEF NumbersHeld
<1>11. QED
  BY <1>8, <1>9, <1>10 DEF IInv

\* What goes on outside of the handlers.
LEMMA OutsideKeeps ==
  ASSUME IInv, Close \/ Hear \/ Listed \/ UNCHANGED vars
  PROVE  IInv'
<1>1. UNCHANGED <<method, at, answer, completed, service, allow, log, told, acted,
                  number, seq, top, inventory>>
  BY DEF Close, Hear, Listed, vars, call, rigid, trail, signals, client
<1>2. /\ known' \in Nat
      /\ news' \in BOOLEAN /\ listing' \in BOOLEAN /\ closed' \in BOOLEAN
  BY DEF Close, Hear, Listed, vars, signals, client, IInv, TypeOK
<1>3. TypeOK'
  BY <1>1, <1>2 DEF IInv, TypeOK
<1>4. NumbersHeld'
  BY <1>1 DEF IInv, NumbersHeld, Emits, AtStep, Runs
<1>5. TrailInv'
  BY <1>1 DEF IInv, TrailInv, InMethod, GrantsLogged, WorkDone, RefusalsLogged,
              Beyond, Permitted, Action
<1>6. QED
  BY <1>3, <1>4, <1>5 DEF IInv

LEMMA NextKeeps == IInv /\ [Next]_vars => IInv'
<1>1. SUFFICES ASSUME IInv, [Next]_vars PROVE IInv'
  OBVIOUS
<1>2. ASSUME NEW h \in Handlers, Call(h) PROVE IInv'
  <2>1. PICK m \in CallMethods : h \in Calls /\ Begin(h, m)
    BY <1>2 DEF Call, CallMethods
  <2>2. QED
    BY <1>1, <2>1, BeginKeeps DEF Methods
<1>3. CASE HealthStarts
  BY <1>1, <1>3, BeginKeeps, HandlersAssumption DEF HealthStarts, Handlers, Methods
<1>4. CASE PollStarts
  BY <1>1, <1>4, BeginKeeps, HandlersAssumption DEF PollStarts, Handlers, Methods
<1>5. ASSUME NEW h \in Handlers, Goes(h) PROVE IInv'
  BY <1>1, <1>5, QuietKeep, AuthorizeKeeps, AuditKeeps, WorkKeeps,
     NextSequenceKeeps, EmitSignalKeeps DEF Goes
<1>6. CASE Close \/ Hear \/ Listed \/ UNCHANGED vars
  BY <1>1, <1>6, OutsideKeeps
<1>7. QED
  BY <1>1, <1>2, <1>3, <1>4, <1>5, <1>6 DEF Next

-----------------------------------------------------------------------------
\* The invariant holds: numbers, trail and types together.
THEOREM Invariance == Spec => []IInv
BY InitEstablishes, NextKeeps, PTL DEF Spec

\* Handlers, trail, signals and the client keep their types, for any calls.
THEOREM TypeCorrect == Spec => []TypeOK
<1>1. IInv => TypeOK
  BY DEF IInv
<1>2. QED
  BY <1>1, Invariance, PTL

\* A number that a handler takes is larger than all that were sent, and no
\* other handler holds it: next_sequence is one atomic step.
THEOREM NumbersAreOrdered == Spec => NumbersOrder
<1> DEFINE Step ==
      \A h \in Handlers : number[h] = None /\ number'[h] # None =>
        /\ number'[h] > top
        /\ \A g \in Handlers \ {h} : number[g] # number'[h]
<1>1. IInv /\ [Next]_vars => [Step]_vars
  <2>1. SUFFICES ASSUME IInv, Next, NEW h \in Handlers, number[h] = None, number'[h] # None
                 PROVE  /\ number'[h] > top
                        /\ \A g \in Handlers \ {h} : number[g] # number'[h]
    OBVIOUS
  <2>2. TypeOK /\ NumbersHeld
    BY <2>1 DEF IInv
  <2>3. next_sequence(h)
    <3>1. PICK k \in Handlers : next_sequence(k) \/ emit_signal(k)
      BY <2>1 DEF Next, Call, Begin, HealthStarts, PollStarts, Close, Hear, Listed, Goes,
                  Check, Authorize, Audit, Engine, Scan, Clear, Read, Done, signals
    <3>2. CASE emit_signal(k)
      BY <2>1, <2>2, <3>2 DEF emit_signal, TypeOK
    <3>3. CASE next_sequence(k)
      BY <2>1, <2>2, <3>3 DEF next_sequence, TypeOK
    <3>4. QED
      BY <3>1, <3>2, <3>3
  <2>4. number'[h] = seq
    BY <2>2, <2>3 DEF next_sequence, TypeOK
  <2>5. seq \in Nat /\ top < seq /\ top \in Nat \cup {-1}
    BY <2>2 DEF NumbersHeld, TypeOK, None
  <2>6. \A g \in Handlers : number[g] # seq
    BY <2>2, <2>5 DEF NumbersHeld, TypeOK, None
  <2>7. QED
    BY <2>4, <2>5, <2>6
<1>2. QED
  BY <1>1, Invariance, PTL DEF Spec, NumbersOrder

\* A call that worked, told somebody or was answered well was authorized first
\* and the trail says so; a refused one did nothing and is on it as a warning.
THEOREM GrantsAreOnRecord == Spec => []GrantIsOnRecord
<1>1. IInv => GrantIsOnRecord
  <2>1. SUFFICES ASSUME IInv, NEW h \in Calls
                 PROVE  /\ Went(h) =>
                             \/ Action(h) = "none"
                             \/ Granted(h) /\ (Action(h) \in ReadOnly \/ allow \/ service = "driverd")
                        /\ answer[h] = "denied" =>
                             ~Went(h) /\ \E i \in Steps : <<i, "Warning">> \in log[h]
    BY DEF GrantIsOnRecord
  <2>2. TypeOK /\ InMethod /\ GrantsLogged /\ WorkDone /\ RefusalsLogged /\ h \in Handlers
    BY <2>1, CallsAreHandlers DEF IInv, TrailInv
  <2>3. at[h] \in Steps
    BY <2>2 DEF TypeOK
  <2>4. CASE method[h] = << >>
    BY <2>2, <2>4 DEF InMethod, Went
  <2>5. CASE method[h] # << >> /\ Action(h) = "none"
    <3>1. Guarded(method[h]) /\ at[h] \in 1..Len(method[h])
      BY <2>2, <2>5, MethodsAreGuarded DEF InMethod
    <3>2. method[h][at[h]] # "authorize"
      BY <2>5, <3>1 DEF Guarded, Action
    <3>3. QED
      BY <2>2, <2>5, <3>2 DEF RefusalsLogged
  <2>6. CASE method[h] # << >> /\ Action(h) # "none"
    <3>1. Guarded(method[h]) /\ at[h] \in 1..Len(method[h]) /\ Len(method[h]) \in 1..10
      BY <2>2, <2>6, MethodsAreGuarded, MethodLengths DEF InMethod, Methods
    <3>2. PICK a \in 2..Len(method[h]) :
            /\ method[h][a] = "authorize"
            /\ \A i \in 1..Len(method[h]) :
                 (method[h][i] = "authorize" => i = a) /\ (method[h][i] \in Work => a < i)
      BY <2>6, <3>1 DEF Guarded, Action
    <3>3. a \in Steps /\ a \in 1..Len(method[h])
      <4>1. \A n : n \in 1..10 => \A k \in 2..n : k \in 1..10 /\ k \in 1..n
        OBVIOUS
      <4>2. QED
        BY <3>1, <4>1 DEF Steps
    <3>4. Went(h) => Beyond(h, a)
      BY <2>2, <3>1, <3>2, <3>3 DEF WorkDone, Went, Beyond
    <3>5. Went(h) => Granted(h) /\ Permitted(h)
      BY <2>2, <3>2, <3>3, <3>4 DEF GrantsLogged, Granted
    <3>6. ASSUME answer[h] = "denied"
          PROVE  ~Went(h) /\ <<at[h], "Warning">> \in log[h]
      <4>1. at[h] = a
        BY <2>2, <3>1, <3>2, <3>6 DEF RefusalsLogged
      <4>2. ~acted[h] /\ ~told[h]
        BY <2>2, <3>1, <3>2, <4>1 DEF WorkDone
      <4>3. QED
        BY <2>2, <3>6, <4>2 DEF Went, RefusalsLogged
    <3>7. QED
      BY <2>3, <3>5, <3>6 DEF Permitted
  <2>7. QED
    BY <2>4, <2>5, <2>6
<1>2. QED
  BY <1>1, Invariance, PTL

-----------------------------------------------------------------------------
(***************************************************************************)
(* Announcements                                                           *)
(***************************************************************************)

\* The steps that count as work, and the ones that may come between work and
\* its announcement.
Acting  == {"engine", "scan", "clear"}
Between == {"audit", "event", "changed"}

\* What works on the inventory announces it later, and nothing in between can
\* make the handler give up.
Announced(m) ==
  \A i \in 1..Len(m) : m[i] \in Acting =>
    /\ m[i] # "clear" => \E j \in 1..Len(m) : i < j /\ m[j] = "changed"
    /\ \A k, j \in 1..Len(m) : i < k /\ k <= j /\ m[j] = "changed" => m[k] \in Between

LEMMA AnnouncedAt ==
  ASSUME NEW m, NEW i \in 1..Len(m), NEW j \in 1..Len(m), i < j, m[j] = "changed",
         \A k \in 1..Len(m) : /\ m[k] \in Acting => k = i
                              /\ m[k] = "changed" => k = j
                              /\ i < k /\ k <= j => m[k] \in Between
  PROVE  Announced(m)
BY DEF Announced

LEMMA MethodsAnnounce == \A m \in Methods : Announced(m)
<1>1. Announced(scan_hardware)
  <2>1. /\ Len(scan_hardware) = 6 /\ scan_hardware[6] = "changed"
        /\ \A k \in 1..6 : scan_hardware[k] \in Acting => k = 3
    BY DEF scan_hardware, Acting
  <2>2. \A k \in 1..6 : /\ scan_hardware[k] = "changed" => k = 6
                       /\ 3 < k /\ k <= 6 => scan_hardware[k] \in Between
    BY DEF scan_hardware, Between
  <2>3. QED
    BY <2>1, <2>2 DEF Announced
<1>2. Announced(install_driver)
  <2>1. /\ Len(install_driver) = 10 /\ install_driver[7] = "changed"
        /\ \A k \in 1..10 : install_driver[k] \in Acting => k = 6
    BY DEF install_driver, Acting
  <2>2. \A k \in 1..10 : /\ install_driver[k] = "changed" => k = 7
                         /\ k = 7 => install_driver[k] \in Between
    BY DEF install_driver, Between
  <2>3. \A k \in 1..10 : 6 < k /\ k <= 7 => k = 7
    OBVIOUS
  <2>4. \A k, j \in 1..10 : 6 < k /\ k <= j /\ install_driver[j] = "changed" =>
          install_driver[k] \in Between
    BY <2>2, <2>3
  <2>5. 7 \in 1..10 /\ 6 < 7
    OBVIOUS
  <2>6. QED
    BY <2>1, <2>4, <2>5 DEF Announced
<1>3. Announced(remove_driver)
  <2>1. /\ Len(remove_driver) = 7 /\ remove_driver[7] = "changed"
        /\ \A k \in 1..7 : remove_driver[k] \in Acting => k = 6
    BY DEF remove_driver, Acting
  <2>2. \A k \in 1..7 : /\ remove_driver[k] = "changed" => k = 7
                       /\ 6 < k /\ k <= 7 => remove_driver[k] \in Between
    BY DEF remove_driver, Between
  <2>3. QED
    BY <2>1, <2>2 DEF Announced
<1>4. Announced(update_driver)
  <2>1. /\ Len(update_driver) = 7 /\ update_driver[7] = "changed"
        /\ \A k \in 1..7 : update_driver[k] \in Acting => k = 6
    BY DEF update_driver, Acting
  <2>2. \A k \in 1..7 : /\ update_driver[k] = "changed" => k = 7
                       /\ 6 < k /\ k <= 7 => update_driver[k] \in Between
    BY DEF update_driver, Between
  <2>3. QED
    BY <2>1, <2>2 DEF Announced
<1>5. Announced(poll_task)
  BY AnnouncedAt, 2 \in 1..Len(poll_task), 3 \in 1..Len(poll_task)
     DEF poll_task, Acting, Between
<1>6. Announced(clear_cache)
  BY DEF clear_cache, Announced, Acting
<1>7. \A m \in Methods \ {scan_hardware, install_driver, remove_driver, update_driver,
                          poll_task, clear_cache} :
        \A i \in 1..Len(m) : m[i] \notin Acting
  <2>1. \A m \in {get_version, get_status, list_drivers, list_devices, query_driver} :
          \A i \in 1..Len(m) : m[i] \notin Acting
    BY DEF get_version, get_status, list_drivers, list_devices, query_driver, Acting
  <2>2. \A m \in {check_compatibility, list_sources, refresh_metadata, get_cache_status,
                  security_status} :
          \A i \in 1..Len(m) : m[i] \notin Acting
    BY DEF check_compatibility, list_sources, refresh_metadata, get_cache_status,
           security_status, Acting
  <2>3. \A m \in {get_firewall_status, set_firewall_profile, add_firewall_rule,
                  export_audit_log, health_task} :
          \A i \in 1..Len(m) : m[i] \notin Acting
    BY DEF get_firewall_status, set_firewall_profile, add_firewall_rule,
           export_audit_log, health_task, Acting
  <2>4. QED
    BY <2>1, <2>2, <2>3 DEF Methods, CallMethods, DriverMethods, SecurityMethods
<1>8. QED
  BY <1>1, <1>2, <1>3, <1>4, <1>5, <1>6, <1>7 DEF Announced

\* A running handler that has worked has the step behind it.
WorkBehind ==
  \A h \in Handlers : acted[h] /\ Runs(h) =>
    \E i \in 1..Len(method[h]) : i < at[h] /\ method[h][i] \in Acting

\* A handler with an announcement to make is at a step that cannot fail.
LEMMA AnnouncesBetween ==
  ASSUME IInv, WorkBehind, NEW h \in Handlers, Announces(h)
  PROVE  /\ Runs(h) /\ method[h][at[h]] \in Between
         /\ at[h] \in 1..Len(method[h]) /\ Len(method[h]) \in 1..10
<1>1. Runs(h) /\ acted[h]
  BY DEF Announces
<1>2. /\ at[h] \in 1..Len(method[h]) /\ Len(method[h]) \in 1..10
      /\ method[h] \in Methods
  BY <1>1, RunningIsInMethod DEF IInv, TrailInv
<1>3. PICK i \in 1..Len(method[h]) : i < at[h] /\ method[h][i] \in Acting
  BY <1>1 DEF WorkBehind
<1>4. PICK j \in at[h]..Len(method[h]) : method[h][j] = "changed"
  BY DEF Announces
<1>5. \A n, a, b : n \in 1..10 /\ a \in 1..n /\ b \in a..n => b \in 1..n /\ a <= b
  OBVIOUS
<1>6. j \in 1..Len(method[h]) /\ at[h] <= j
  BY <1>2, <1>4, <1>5
<1>7. QED
  BY <1>1, <1>2, <1>3, <1>4, <1>6, MethodsAnnounce DEF Announced


\* A step of h that goes on keeps an announcement that is not that step.
LEMMA AdvanceAnnounces ==
  ASSUME IInv, WorkBehind, NEW h \in Handlers, Announces(h), Advance(h), acted'[h],
         method[h][at[h]] # "changed"
  PROVE  Announces(h)'
<1>1. /\ at[h] \in 1..Len(method[h]) /\ Len(method[h]) \in 1..10
      /\ Runs(h)
  BY AnnouncesBetween
<1>2. PICK j \in at[h]..Len(method[h]) : method[h][j] = "changed"
  BY DEF Announces
<1>3. \A n, a, b : n \in 1..10 /\ a \in 1..n /\ b \in a..n /\ a # b =>
        a # n /\ b \in (a + 1)..n
  OBVIOUS
<1>4. at[h] # Len(method[h]) /\ j \in (at[h] + 1)..Len(method[h])
  BY <1>1, <1>2, <1>3
<1>5. at'[h] = at[h] + 1 /\ UNCHANGED <<answer, method>>
  BY <1>4 DEF Advance, IInv, TypeOK
<1>6. QED
  BY <1>1, <1>2, <1>4, <1>5 DEF Announces, Runs

\* The steps of a handler leave the others' announcements alone.
LEMMA OthersAnnounce ==
  ASSUME IInv, NEW h \in Handlers, Goes(h)
  PROVE  /\ method' = method
         /\ \A g \in Handlers \ {h} :
              at'[g] = at[g] /\ answer'[g] = answer[g] /\ acted'[g] = acted[g]
<1>1. /\ at \in [Handlers -> Steps] /\ acted \in [Handlers -> BOOLEAN]
      /\ answer \in [Handlers -> {"none", "ok", "invalid", "denied", "failed"}]
  BY DEF IInv, TypeOK
<1>2. CASE Check(h) \/ Authorize(h) \/ Audit(h) \/ Read(h) \/ Done(h)
  BY <1>1, <1>2 DEF Check, Authorize, Audit, Read, Done, Advance, Reply, trail
<1>3. CASE Engine(h) \/ Scan(h) \/ Clear(h)
  BY <1>1, <1>3 DEF Engine, Scan, Clear, Acts, Advance, Reply
<1>4. CASE next_sequence(h) \/ emit_signal(h)
  BY <1>1, <1>4 DEF next_sequence, emit_signal, Advance, call, trail
<1>5. QED
  BY <1>2, <1>3, <1>4 DEF Goes

\* How a step of h leaves h, as far as its announcement is concerned.
LEMMA OwnStep ==
  ASSUME IInv, NEW h \in Handlers, Goes(h)
  PROVE  /\ Runs(h)
         /\ acted'[h] => (acted[h] \/ method[h][at[h]] \in Acting)
         /\ Runs(h)' => \/ at'[h] = at[h] /\ acted'[h] = acted[h]
                        \/ at'[h] = at[h] + 1
<1>1. /\ at \in [Handlers -> Steps] /\ acted \in [Handlers -> BOOLEAN]
      /\ answer \in [Handlers -> {"none", "ok", "invalid", "denied", "failed"}]
      /\ UNCHANGED method
  BY OthersAnnounce DEF IInv, TypeOK
<1>2. Runs(h)
  BY DEF Goes, Check, Authorize, Audit, Engine, Scan, Clear, Read, Done, next_sequence,
         emit_signal, Emits, AtStep, IInv, NumbersHeld
<1>3. Advance(h) => (Runs(h)' => at'[h] = at[h] + 1)
  BY <1>1 DEF Advance, Runs
<1>4. (\E a \in {"invalid", "denied", "failed", "ok"} : Reply(h, a)) => ~Runs(h)'
  BY <1>1 DEF Reply, Runs
<1>5. CASE Engine(h) \/ Scan(h) \/ Clear(h)
  <2>1. method[h][at[h]] \in Acting
    BY <1>5 DEF Engine, Scan, Clear, AtStep, Acting
  <2>2. Advance(h) \/ Reply(h, "failed")
    BY <1>5 DEF Engine, Scan, Clear
  <2>3. QED
    BY <1>2, <1>3, <1>4, <2>1, <2>2
<1>6. CASE Check(h) \/ Authorize(h) \/ Audit(h) \/ Read(h) \/ Done(h) \/ emit_signal(h)
  <2>1. acted'[h] = acted[h]
    BY <1>6 DEF Check, Authorize, Audit, Read, Done, emit_signal, trail
  <2>2. Advance(h) \/ \E a \in {"invalid", "denied", "failed", "ok"} : Reply(h, a)
    BY <1>6 DEF Check, Authorize, Audit, Read, Done, emit_signal
  <2>3. QED
    BY <1>2, <1>3, <1>4, <2>1, <2>2
<1>7. CASE next_sequence(h)
  BY <1>2, <1>7 DEF next_sequence, call, trail
<1>8. QED
  BY <1>5, <1>6, <1>7 DEF Goes

LEMMA WorkStaysBehind ==
  ASSUME IInv, WorkBehind, NEW h \in Handlers, Goes(h)
  PROVE  WorkBehind'
<1>1. SUFFICES ASSUME NEW g \in Handlers, acted'[g], Runs(g)'
               PROVE  \E i \in 1..Len(method[g]) : i < at'[g] /\ method[g][i] \in Acting
  BY OthersAnnounce DEF WorkBehind
<1>2. CASE g # h
  BY <1>1, <1>2, OthersAnnounce DEF WorkBehind, Runs
<1>3. CASE g = h
  <2>1. /\ Runs(h)
        /\ acted[h] \/ method[h][at[h]] \in Acting
        /\ \/ at'[h] = at[h] /\ acted'[h] = acted[h]
           \/ at'[h] = at[h] + 1
    BY <1>1, <1>3, OwnStep
  <2>2. at[h] \in 1..Len(method[h]) /\ Len(method[h]) \in 1..10
    BY <2>1, RunningIsInMethod DEF IInv, TrailInv
  <2>3. \A n, a : n \in 1..10 /\ a \in 1..n =>
          a < a + 1 /\ \A i \in 1..n : i < a => i < a + 1
    OBVIOUS
  <2>4. CASE acted[h]
    <3>1. PICK i \in 1..Len(method[h]) : i < at[h] /\ method[h][i] \in Acting
      BY <2>1, <2>4 DEF WorkBehind
    <3>2. QED
      BY <1>3, <2>1, <2>2, <2>3, <3>1
  <2>5. CASE ~acted[h]
    <3>1. method[h][at[h]] \in Acting /\ at'[h] = at[h] + 1
      BY <1>1, <1>3, <2>1, <2>5
    <3>2. QED
      BY <1>3, <2>2, <2>3, <3>1
  <2>6. QED
    BY <2>4, <2>5
<1>4. QED
  BY <1>2, <1>3

\* What a handler has to announce after it worked on the inventory.
LEMMA WorkAnnounces ==
  ASSUME IInv, NEW h \in Handlers, Engine(h) \/ Scan(h)
  PROVE  Announces(h)'
<1>1. /\ AtStep(h, "engine") \/ AtStep(h, "scan")
      /\ Advance(h) /\ Acts(h)
  BY DEF Engine, Scan
<1>2. Runs(h)
  BY <1>1 DEF AtStep
<1>3. /\ at[h] \in 1..Len(method[h]) /\ Len(method[h]) \in 1..10
      /\ method[h] \in Methods
  BY <1>2, RunningIsInMethod DEF IInv, TrailInv
<1>4. PICK j \in 1..Len(method[h]) : at[h] < j /\ method[h][j] = "changed"
  BY <1>1, <1>3, MethodsAnnounce DEF Announced, AtStep, Acting
<1>5. \A n, a, b : n \in 1..10 /\ a \in 1..n /\ b \in 1..n /\ a < b =>
        a # n /\ b \in (a + 1)..n
  OBVIOUS
<1>6. at[h] # Len(method[h]) /\ j \in (at[h] + 1)..Len(method[h])
  BY <1>3, <1>4, <1>5
<1>7. at'[h] = at[h] + 1 /\ UNCHANGED <<answer, method>> /\ acted'[h]
  BY <1>1, <1>6 DEF Advance, Acts, IInv, TypeOK
<1>8. QED
  BY <1>2, <1>4, <1>6, <1>7 DEF Announces, Runs

\* A handler that has an announcement to make sends it, or has it still to make.
LEMMA AnnouncementKept ==
  ASSUME IInv, WorkBehind, NEW h \in Handlers, Goes(h), Announces(h)
  PROVE  news' \/ closed' \/ Announces(h)'
<1>1. /\ Runs(h) /\ method[h][at[h]] \in Between
      /\ at[h] \in 1..Len(method[h]) /\ acted[h]
  BY AnnouncesBetween DEF Announces
<1>2. CASE Audit(h)
  <2>1. Advance(h) /\ acted'[h] /\ method[h][at[h]] # "changed"
    BY <1>1, <1>2 DEF Audit, AtStep
  <2>2. QED
    BY <2>1, AdvanceAnnounces
<1>3. CASE next_sequence(h)
  BY <1>3 DEF next_sequence, call, trail, Announces, Runs
<1>4. CASE emit_signal(h)
  <2>1. Advance(h) /\ acted'[h] /\ UNCHANGED closed
        /\ news' = (news \/ (~closed /\ AtStep(h, "changed")))
    BY <1>1, <1>4 DEF emit_signal
  <2>2. CASE method[h][at[h]] = "changed"
    <3>1. AtStep(h, "changed")
      <4>1. \A n, a : n \in Nat /\ a \in 1..n => a <= n
        OBVIOUS
      <4>2. Len(method[h]) \in Nat
        BY AnnouncesBetween
      <4>3. QED
        BY <1>1, <2>2, <4>1, <4>2 DEF AtStep
    <3>2. QED
      BY <2>1, <3>1
  <2>3. CASE method[h][at[h]] # "changed"
    BY <2>1, <2>3, AdvanceAnnounces
  <2>4. QED
    BY <2>2, <2>3
<1>5. ~(Check(h) \/ Authorize(h) \/ Engine(h) \/ Scan(h) \/ Clear(h) \/ Read(h) \/ Done(h))
  BY <1>1 DEF Check, Authorize, Engine, Scan, Clear, Read, Done, AtStep, Between
<1>6. QED
  BY <1>2, <1>3, <1>4, <1>5 DEF Goes

LEMMA GoesKeepsAnnounced ==
  ASSUME IInv, WorkBehind, ChangesAreAnnounced, NEW h \in Handlers, Goes(h)
  PROVE  ChangesAreAnnounced'
<1>1. CASE Engine(h) \/ Scan(h)
  BY <1>1, WorkAnnounces DEF ChangesAreAnnounced
<1>2. CASE ~(Engine(h) \/ Scan(h))
  <2>1. UNCHANGED <<inventory, known, listing, closed>> /\ (news => news')
    <3>1. CASE emit_signal(h)
      <4>1. news' = (news \/ (~closed /\ AtStep(h, "changed")))
        BY <3>1 DEF emit_signal
      <4>2. news => news'
        BY <4>1, Zenon
      <4>3. QED
        BY <3>1, <4>2 DEF emit_signal, client
    <3>2. CASE next_sequence(h)
      BY <3>2 DEF next_sequence, client
    <3>3. CASE Check(h) \/ Authorize(h) \/ Audit(h) \/ Clear(h) \/ Read(h) \/ Done(h)
      BY <3>3 DEF Check, Authorize, Audit, Clear, Read, Done, client, signals
    <3>4. QED
      BY <1>2, <3>1, <3>2, <3>3 DEF Goes
  <2>2. CASE known = inventory \/ news \/ listing \/ closed
    BY <2>1, <2>2 DEF ChangesAreAnnounced
  <2>3. CASE \E g \in Handlers : Announces(g)
    <3>1. PICK g \in Handlers : Announces(g)
      BY <2>3
    <3>2. CASE g = h
      BY <3>1, <3>2, AnnouncementKept DEF ChangesAreAnnounced
    <3>3. CASE g # h
      <4>1. Announces(g)'
        BY <3>1, <3>3, OthersAnnounce DEF Announces, Runs
      <4>2. QED
        BY <4>1 DEF ChangesAreAnnounced
    <3>4. QED
      BY <3>2, <3>3
  <2>4. QED
    BY <2>2, <2>3 DEF ChangesAreAnnounced
<1>3. QED
  BY <1>1, <1>2

\* A call that arrives has not worked yet.
LEMMA BeginKeepsAnnounced ==
  ASSUME IInv, WorkBehind, ChangesAreAnnounced, NEW h \in Handlers, NEW m, Begin(h, m)
  PROVE  WorkBehind' /\ ChangesAreAnnounced'
<1>1. /\ method[h] = << >> /\ ~acted[h]
      /\ UNCHANGED <<acted, inventory, known, news, listing, closed>>
      /\ \A g \in Handlers \ {h} :
           at'[g] = at[g] /\ answer'[g] = answer[g] /\ method'[g] = method[g]
  BY DEF Begin, IInv, TypeOK, TrailInv, InMethod, trail, signals, client
<1>2. \A g \in Handlers : Announces(g) => Announces(g)'
  BY <1>1 DEF Announces, Runs
<1>3. ChangesAreAnnounced'
  BY <1>1, <1>2 DEF ChangesAreAnnounced
<1>4. WorkBehind'
  BY <1>1 DEF WorkBehind, Runs
<1>5. QED
  BY <1>3, <1>4

\* A change of the inventory reaches the client's list, or is still to be announced
\* to it, or the bus is gone: whatever ran in which order.
THEOREM ChangesStayAnnounced == Spec => []ChangesAreAnnounced
<1>1. Init => WorkBehind /\ ChangesAreAnnounced
  BY DEF Init, WorkBehind, ChangesAreAnnounced
<1>2. IInv /\ WorkBehind /\ ChangesAreAnnounced /\ [Next]_vars =>
        (WorkBehind /\ ChangesAreAnnounced)'
  <2>1. SUFFICES ASSUME IInv, WorkBehind, ChangesAreAnnounced, [Next]_vars
                 PROVE  (WorkBehind /\ ChangesAreAnnounced)'
    OBVIOUS
  <2>2. CASE \E h \in Handlers : Goes(h)
    BY <2>1, <2>2, WorkStaysBehind, GoesKeepsAnnounced
  <2>3. CASE \E h \in Handlers : Call(h)
    <3>1. PICK h \in Handlers : Call(h)
      BY <2>3
    <3>2. PICK m : Begin(h, m)
      BY <3>1 DEF Call
    <3>3. QED
      BY <2>1, <3>2, BeginKeepsAnnounced
  <2>4. CASE HealthStarts \/ PollStarts
    <3>1. PICK h \in Handlers, m \in {health_task, poll_task} : Begin(h, m)
      BY <2>4 DEF HealthStarts, PollStarts, Handlers
    <3>2. QED
      BY <2>1, <3>1, BeginKeepsAnnounced
  <2>5. CASE Close
    BY <2>1, <2>5 DEF Close, WorkBehind, ChangesAreAnnounced, Announces, Runs, call, trail
  <2>6. CASE Hear
    BY <2>1, <2>6 DEF Hear, WorkBehind, ChangesAreAnnounced, Runs, call, trail
  <2>7. CASE Listed
    BY <2>1, <2>7 DEF Listed, WorkBehind, ChangesAreAnnounced, Runs, call, trail
  <2>8. CASE UNCHANGED vars
    BY <2>1, <2>8 DEF vars, WorkBehind, ChangesAreAnnounced, Announces, Runs, call, trail,
                      signals, client
  <2>9. QED
    BY <2>1, <2>2, <2>3, <2>4, <2>5, <2>6, <2>7, <2>8 DEF Next
<1>3. QED
  BY <1>1, <1>2, Invariance, PTL DEF Spec
=============================================================================
