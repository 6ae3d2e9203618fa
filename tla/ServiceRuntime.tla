--------------------------- MODULE ServiceRuntime ---------------------------
(***************************************************************************)
(* How mission-driverd runs its D-Bus handlers: tasks on the worker        *)
(* threads of a tokio runtime, sharing a std::sync::Mutex, the scanner     *)
(* mutex.  A handler that waits for the mutex blocks its worker.  A        *)
(* handler that asks PolKit waits inside block_in_place, which gives its   *)
(* worker away, but the answer is delivered by the connection's reader     *)
(* task, which needs a worker as well.  The engine asks PolKit a second    *)
(* time while it holds the mutex.                                          *)
(*                                                                         *)
(* A call is made once (the bound of the model).  The development bypass,  *)
(* under which PolKit is never asked, is off.                              *)
(***************************************************************************)
EXTENDS Naturals, FiniteSets

CONSTANTS
  Managers,  \* InstallDriver, RemoveDriver and UpdateDriver calls
  Scanners,  \* ScanHardware calls
  Readers,   \* GetStatus, ListDrivers, QueryDriver and the like
  Pollers,   \* rounds of the hardware poll task that saw an event
  Workers,   \* worker threads of the runtime
  Free       \* nobody holds the scanner mutex

Calls    == Managers \cup Scanners \cup Readers
Handlers == Calls \cup Pollers

ASSUME HandlersAssumption ==
  /\ IsFiniteSet(Handlers)
  /\ Pollers \cap Calls = {}
  /\ Managers \cap (Scanners \cup Readers) = {}
  /\ Scanners \cap Readers = {}
  /\ Free \notin Handlers

ASSUME WorkersAssumption == Workers \in Nat \ {0}

VARIABLES
  phase,     \* where each handler is
  onWorker,  \* handlers that occupy a worker thread
  lock,      \* who holds the scanner mutex
  inbox,     \* messages in the socket: calls, and PolKit's replies
  atPolkit   \* handlers whose request PolKit has not answered

vars == <<phase, onWorker, lock, inbox, atPolkit>>

Phases == {"unsent", "sent", "ready", "asking", "allowed", "refused", "locking",
           "working", "askingInside", "decided", "answering", "answered"}

\* The phases in which a handler holds the scanner mutex.
LockedPhases == {"working", "askingInside", "decided"}

Messages == [what : {"call", "reply"}, of : Handlers]
Call(h)  == [what |-> "call", of |-> h]
Reply(h) == [what |-> "reply", of |-> h]

FreeWorker == Cardinality(onWorker) < Workers

Init ==
  /\ phase = [h \in Handlers |-> "unsent"]
  /\ onWorker = {}
  /\ lock = Free
  /\ inbox = {}
  /\ atPolkit = {}

Goto(h, p) == phase' = [phase EXCEPT ![h] = p]

\* call_polkit_check: CheckAuthorization is called, without a timeout.
Ask(h) == atPolkit' = atPolkit \cup {h}

\* A client calls a method.
Send(h) ==
  /\ h \in Calls
  /\ phase[h] = "unsent"
  /\ Goto(h, "sent")
  /\ inbox' = inbox \cup {Call(h)}
  /\ UNCHANGED <<onWorker, lock, atPolkit>>

\* The poll task's interval ends and the monitor has events.
Tick(h) ==
  /\ h \in Pollers
  /\ phase[h] = "unsent"
  /\ Goto(h, "ready")
  /\ UNCHANGED <<onWorker, lock, inbox, atPolkit>>

\* The reader task takes a call from the socket and spawns its handler.
ReadCall(h) ==
  /\ FreeWorker
  /\ Call(h) \in inbox
  /\ inbox' = inbox \ {Call(h)}
  /\ Goto(h, "ready")
  /\ UNCHANGED <<onWorker, lock, atPolkit>>

\* The reader task takes PolKit's reply from the socket and wakes the waiter.
ReadReply(h) ==
  /\ FreeWorker
  /\ Reply(h) \in inbox
  /\ inbox' = inbox \ {Reply(h)}
  /\ IF phase[h] = "askingInside"
     THEN Goto(h, "decided")
     ELSE Goto(h, "allowed") \/ Goto(h, "refused")
  /\ UNCHANGED <<onWorker, lock, atPolkit>>

\* polkitd answers, at once or after the user has.
PolkitAnswers(h) ==
  /\ h \in atPolkit
  /\ atPolkit' = atPolkit \ {h}
  /\ inbox' = inbox \cup {Reply(h)}
  /\ UNCHANGED <<phase, onWorker, lock>>

MutStart(h) ==
  /\ phase[h] = "ready"
  /\ FreeWorker
  /\ Goto(h, "asking")
  /\ Ask(h)
  /\ UNCHANGED <<onWorker, lock, inbox>>

\* A worker starts the handler: a read-only action is authorized at once and
\* its worker goes on to lock(); any other asks PolKit, in block_in_place.
Start(h) ==
  /\ phase[h] = "ready"
  /\ FreeWorker
  /\ IF h \in Managers \cup Scanners
     THEN /\ Goto(h, "asking")
          /\ Ask(h)
          /\ UNCHANGED onWorker
     ELSE /\ Goto(h, "locking")
          /\ onWorker' = onWorker \cup {h}
          /\ UNCHANGED atPolkit
  /\ UNCHANGED <<lock, inbox>>

\* Authorized, it goes on to lock(): on the thread block_in_place left it, or
\* on a worker if it lost that thread at an await.
Proceed(h) ==
  /\ phase[h] = "allowed"
  /\ Goto(h, "locking")
  /\ \/ UNCHANGED onWorker
     \/ FreeWorker /\ onWorker' = onWorker \cup {h}
  /\ UNCHANGED <<lock, inbox, atPolkit>>

\* Not authorized, it answers AccessDenied.
Refuse(h) ==
  /\ phase[h] = "refused"
  /\ Goto(h, "answering")
  /\ UNCHANGED <<onWorker, lock, inbox, atPolkit>>

MutLock(h) ==
  /\ phase[h] = "locking"
  /\ lock = Free
  /\ lock' = h
  /\ IF h \in Managers
     THEN /\ Goto(h, "askingInside")
          /\ Ask(h)
          /\ UNCHANGED onWorker
     ELSE /\ Goto(h, "working")
          /\ UNCHANGED <<onWorker, atPolkit>>
  /\ UNCHANGED inbox

\* lock() returns.  The engine asks PolKit again before it does anything.
Lock(h) ==
  /\ phase[h] = "locking"
  /\ lock = Free
  /\ lock' = h
  /\ IF h \in Managers
     THEN /\ Goto(h, "askingInside")
          /\ Ask(h)
          /\ onWorker' = onWorker \ {h}
     ELSE /\ Goto(h, "working")
          /\ UNCHANGED <<onWorker, atPolkit>>
  /\ UNCHANGED inbox

MutFinish(h) ==
  /\ phase[h] \in {"working", "decided"}
  /\ Goto(h, "answering")
  /\ lock' = IF phase[h] = "decided" THEN lock ELSE Free
  /\ onWorker' = onWorker \ {h}
  /\ UNCHANGED <<inbox, atPolkit>>

\* The work under the mutex ends, whatever PolKit said, and the guard drops.
Finish(h) ==
  /\ phase[h] \in {"working", "decided"}
  /\ Goto(h, "answering")
  /\ lock' = Free
  /\ onWorker' = onWorker \ {h}
  /\ UNCHANGED <<inbox, atPolkit>>

\* The handler emits its signals and returns the answer.
Answer(h) ==
  /\ phase[h] = "answering"
  /\ FreeWorker
  /\ Goto(h, "answered")
  /\ UNCHANGED <<onWorker, lock, inbox, atPolkit>>

HandlerStep(h) ==
  Start(h) \/ Proceed(h) \/ Refuse(h) \/ Lock(h) \/ Finish(h) \/ Answer(h)

Next ==
  \E h \in Handlers :
    \/ Send(h) \/ Tick(h) \/ ReadCall(h) \/ ReadReply(h) \/ PolkitAnswers(h)
    \/ HandlerStep(h)

Spec == Init /\ [][Next]_vars

\* The runtime runs every task it has a worker for, the operating system wakes
\* whoever can have the mutex, and PolKit answers in the end.
FairSpec ==
  /\ Spec
  /\ \A h \in Handlers : /\ WF_vars(ReadCall(h))
                         /\ WF_vars(ReadReply(h))
                         /\ WF_vars(PolkitAnswers(h))
                         /\ WF_vars(HandlerStep(h))

-----------------------------------------------------------------------------
\* Types; no more workers are occupied than the runtime has, and only
\* management calls and scans are before PolKit (authz.rs:193).
TypeOK ==
  /\ phase \in [Handlers -> Phases]
  /\ onWorker \subseteq Handlers
  /\ Cardinality(onWorker) <= Workers
  /\ lock \in Handlers \cup {Free}
  /\ inbox \subseteq Messages
  /\ atPolkit \subseteq Managers \cup Scanners

\* The handlers blocked in lock().
LockWaiters == {h \in Handlers : phase[h] = "locking"}

\* While the handler that holds the scanner mutex waits for PolKit's reply,
\* the reader task has a worker, unless as many handlers as there are workers
\* are blocked in lock() (execution.rs:183, dbus.rs:504): nothing else, and no
\* fewer of them, can keep the reply from the holder.
ReaderCanRun ==
  \A h \in Handlers :
    phase[h] = "askingInside" => FreeWorker \/ Cardinality(LockWaiters) >= Workers

\* IPC_ARCHITECTURE.md:77 "Methods must not block indefinitely": every call of
\* a method is answered.
EveryCallIsAnswered ==
  \A h \in Calls : phase[h] = "sent" ~> phase[h] = "answered"
=============================================================================
