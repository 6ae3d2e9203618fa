----------------------- MODULE ServiceRuntime_proofs -----------------------
(***************************************************************************)
(* Only handlers blocked in lock() can keep the reader task from a worker  *)
(* while the holder of the scanner mutex waits for PolKit: the holder      *)
(* itself waits off its worker, no second handler works under the mutex,   *)
(* and every other wait of a handler gives its worker away.                *)
(***************************************************************************)
EXTENDS ServiceRuntime, FiniteSetTheorems, TLAPS

Types ==
  /\ phase \in [Handlers -> Phases]
  /\ onWorker \subseteq Handlers
  /\ Cardinality(onWorker) <= Workers
  /\ lock \in Handlers \cup {Free}
  /\ inbox \subseteq Messages
  /\ atPolkit \subseteq Managers \cup Scanners

\* A handler occupies a worker only while it waits for the mutex or works
\* under it.
BusyPhases ==
  \A h \in onWorker : phase[h] \in {"locking", "working"}

\* The handler that works under the scanner mutex is the one that holds it.
HolderIsAlone ==
  \A h \in Handlers : phase[h] \in LockedPhases => lock = h

\* PolKit's reply goes to a handler that waits for one, and comes once.
RepliesAreAwaited ==
  \A h \in Handlers :
    /\ Reply(h) \in inbox => phase[h] \in {"asking", "askingInside"}
    /\ h \in atPolkit => /\ phase[h] \in {"asking", "askingInside"}
                        /\ Reply(h) \notin inbox

\* A call waits in the socket only until the reader task has taken it.
CallsAreSent ==
  \A h \in Handlers : Call(h) \in inbox => phase[h] = "sent"

IInv == Types /\ BusyPhases /\ HolderIsAlone /\ RepliesAreAwaited /\ CallsAreSent

-----------------------------------------------------------------------------
\* A worker is given to one more handler only when one is free.
LEMMA OneMoreFits ==
  ASSUME NEW S \in SUBSET Handlers, Cardinality(S) < Workers, NEW h \in Handlers
  PROVE  Cardinality(S \cup {h}) <= Workers
<1>1. IsFiniteSet(S)
  BY HandlersAssumption, FS_Subset
<1>2. Cardinality(S) \in Nat
  BY <1>1, FS_CardinalityType
<1>3. Cardinality(S \cup {h}) = IF h \in S THEN Cardinality(S) ELSE Cardinality(S) + 1
  BY <1>1, FS_AddElement
<1> QED
  BY <1>2, <1>3, WorkersAssumption

\* A handler that gives its worker away takes none of the others'.
LEMMA FewerFit ==
  ASSUME NEW S \in SUBSET Handlers, Cardinality(S) <= Workers, NEW h \in Handlers
  PROVE  Cardinality(S \ {h}) <= Workers
<1>1. IsFiniteSet(S)
  BY HandlersAssumption, FS_Subset
<1>2. IsFiniteSet(S \ {h}) /\ Cardinality(S \ {h}) <= Cardinality(S)
  BY <1>1, FS_Subset
<1>3. Cardinality(S) \in Nat /\ Cardinality(S \ {h}) \in Nat
  BY <1>1, <1>2, FS_CardinalityType
<1> QED
  BY <1>2, <1>3, WorkersAssumption

LEMMA Initially == Init => IInv
  BY HandlersAssumption, WorkersAssumption, FS_EmptySet
  DEF Init, IInv, Types, BusyPhases, HolderIsAlone, LockedPhases, RepliesAreAwaited,
      CallsAreSent, Phases, Call, Reply

LEMMA Inductive == IInv /\ [Next]_vars => IInv'
<1> SUFFICES ASSUME IInv, [Next]_vars
             PROVE  IInv'
  OBVIOUS
<1> USE DEF IInv, Types, BusyPhases, HolderIsAlone, LockedPhases, RepliesAreAwaited,
            CallsAreSent, FreeWorker,
            Messages, Call, Reply, Goto, Ask, Phases, Calls, Handlers
<1>1. CASE UNCHANGED vars
  BY <1>1 DEF vars
<1>2. CASE Next
  <2> PICK h \in Handlers :
        \/ Send(h) \/ Tick(h) \/ ReadCall(h) \/ ReadReply(h) \/ PolkitAnswers(h)
        \/ HandlerStep(h)
    BY <1>2 DEF Next
  <2>1. CASE Send(h)
    BY <2>1 DEF Send
  <2>2. CASE Tick(h)
    BY <2>2 DEF Tick
  <2>3. CASE ReadCall(h)
    BY <2>3 DEF ReadCall
  <2>4. CASE ReadReply(h)
    BY <2>4 DEF ReadReply
  <2>5. CASE PolkitAnswers(h)
    BY <2>5 DEF PolkitAnswers
  <2>6. CASE Start(h)
    BY <2>6, OneMoreFits DEF Start
  <2>7. CASE Proceed(h)
    BY <2>7, OneMoreFits DEF Proceed
  <2>8. CASE Refuse(h)
    BY <2>8 DEF Refuse
  <2>9. CASE Lock(h)
    BY <2>9, FewerFit, HandlersAssumption DEF Lock
  <2>10. CASE Finish(h)
    BY <2>10, FewerFit DEF Finish
  <2>11. CASE Answer(h)
    BY <2>11 DEF Answer
  <2> QED
    BY <2>1, <2>2, <2>3, <2>4, <2>5, <2>6, <2>7, <2>8, <2>9, <2>10, <2>11
    DEF HandlerStep
<1> QED
  BY <1>1, <1>2 DEF vars

\* In every reachable state a handler on a worker waits for the mutex or works
\* under it, one handler at most works under it, and the messages in flight are
\* those of handlers that wait.
THEOREM Invariance == Spec => []IInv
<1>1. Init => IInv
  BY Initially
<1>2. IInv /\ [Next]_vars => IInv'
  BY Inductive
<1> QED
  BY <1>1, <1>2, PTL DEF Spec

\* Types hold, and the handlers on workers never exceed the workers
\* (dbus.rs:504, polkit.rs:177), however many calls are made.
THEOREM TypeCorrect == Spec => []TypeOK
<1>1. IInv => TypeOK
  BY DEF IInv, Types, TypeOK
<1> QED
  BY <1>1, Invariance, PTL

\* For every number of workers and of calls, the task that reads PolKit's reply
\* is kept from a worker, while a management call waits for that reply under the
\* scanner mutex (execution.rs:183), only by as many handlers blocked in lock()
\* as there are workers.
THEOREM OnlyLockWaitersStarve == Spec => []ReaderCanRun
<1>1. IInv => ReaderCanRun
  <2> SUFFICES ASSUME IInv, NEW h \in Handlers, phase[h] = "askingInside", ~FreeWorker
               PROVE  Cardinality(LockWaiters) >= Workers
    BY DEF ReaderCanRun
  <2>1. \A g \in onWorker : phase[g] = "locking"
    BY DEF IInv, Types, BusyPhases, HolderIsAlone, LockedPhases
  <2>2. onWorker \subseteq LockWaiters
    BY <2>1 DEF IInv, Types, LockWaiters
  <2>3. IsFiniteSet(LockWaiters)
    BY HandlersAssumption, FS_Subset DEF LockWaiters
  <2>4. IsFiniteSet(onWorker) /\ Cardinality(onWorker) <= Cardinality(LockWaiters)
    BY <2>2, <2>3, FS_Subset
  <2>5. Cardinality(onWorker) \in Nat /\ Cardinality(LockWaiters) \in Nat
    BY <2>3, <2>4, FS_CardinalityType
  <2> QED
    BY <2>4, <2>5, WorkersAssumption DEF FreeWorker
<1> QED
  BY <1>1, Invariance, PTL
=============================================================================
