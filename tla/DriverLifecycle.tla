-------------------------- MODULE DriverLifecycle --------------------------
(***************************************************************************)
(* What the Management interface of mission-driverd promises its callers:  *)
(* a request is answered once; a completed one has changed the status of   *)
(* exactly the driver it named, at one instant between call and answer; a  *)
(* failed or denied one has changed nothing.  A rescan replaces the list.  *)
(***************************************************************************)
CONSTANTS
  Callers,   \* D-Bus clients
  Drivers,   \* drivers of the inventory
  Requests,  \* requests, records with a kind and a driver
  Tracked,   \* drivers a scan may list as Active
  Nothing    \* no request is pending

VARIABLES
  status,    \* what ListDrivers shows of each driver
  pending,   \* the request each caller waits for
  answer     \* the last answer each caller got

lifecycleVars == <<status, pending, answer>>

\* What the inventory shows after a request of each kind is completed.
Promised(kind) ==
  IF kind = "install" THEN "Installed"
  ELSE IF kind = "remove" THEN "Removed" ELSE "Active"

\* What a scan may leave in the inventory: no trace of earlier operations.
Scanned ==
  {f \in [Drivers -> {"Available", "Active"}] :
     \A x \in Drivers \ Tracked : f[x] = "Available"}

Unlisted == [x \in Drivers |-> "Unlisted"]

Init ==
  /\ status \in Scanned \cup {Unlisted}
  /\ pending = [c \in Callers |-> Nothing]
  /\ answer = [c \in Callers |-> "none"]

Ask(c) ==
  /\ pending[c] = Nothing
  /\ \E r \in Requests : pending' = [pending EXCEPT ![c] = r]
  /\ answer' = [answer EXCEPT ![c] = "none"]
  /\ UNCHANGED status

Complete(c) ==
  /\ pending[c] # Nothing
  /\ status[pending[c].driver] # "Unlisted"
  /\ status' = [status EXCEPT ![pending[c].driver] = Promised(pending[c].kind)]
  /\ pending' = [pending EXCEPT ![c] = Nothing]
  /\ answer' = [answer EXCEPT ![c] = "Completed"]

Fail(c) ==
  /\ pending[c] # Nothing
  /\ pending' = [pending EXCEPT ![c] = Nothing]
  /\ answer' = [answer EXCEPT ![c] = "Failed"]
  /\ UNCHANGED status

Deny(c) ==
  /\ pending[c] = Nothing
  /\ answer' = [answer EXCEPT ![c] = "Denied"]
  /\ UNCHANGED <<status, pending>>

Scan ==
  /\ status' \in Scanned
  /\ UNCHANGED <<pending, answer>>

Restart ==
  /\ status' \in Scanned \cup {Unlisted}
  /\ pending' = [c \in Callers |-> Nothing]
  /\ answer' = [c \in Callers |-> "none"]

Next ==
  \/ \E c \in Callers : Ask(c) \/ Complete(c) \/ Fail(c) \/ Deny(c)
  \/ Scan
  \/ Restart

Spec == Init /\ [][Next]_lifecycleVars
=============================================================================
