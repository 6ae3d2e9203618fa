----------------------------- MODULE ConfigStore -----------------------------
(***************************************************************************)
(* Config<T> of mission-core: a configuration in a file, saved by writing  *)
(* a temporary file that is then renamed, and loaded by programs and by    *)
(* the two services.  Any operation may fail, a program may die between    *)
(* any two steps of a save, and power may be lost: then data that was not  *)
(* synced may be gone, and so may a rename.                                *)
(*                                                                         *)
(* Names and contents are apart: the temporary name is the same for all    *)
(* savers, and a file opened under a name is not reached by it any more    *)
(* once it is renamed.  A content is a whole configuration, or Torn: bytes *)
(* that load reports as empty or malformed.                                *)
(***************************************************************************)
EXTENDS Naturals

CONSTANTS
  Savers,     \* programs that save
  Values,     \* configurations
  Default,    \* T::default()
  Length,     \* length of the text of each configuration
  Inodes,     \* files there can be at a time
  NoInode,
  Torn,
  Exclusive   \* the savers take turns

ASSUME ConfigAssumption ==
  /\ Default \in Values /\ Torn \notin Values \cup {NoInode}
  /\ NoInode \notin Inodes
  /\ Length \in [Values -> Nat]
  /\ Exclusive \in BOOLEAN

VARIABLES
  path,     \* the file under the configuration's name
  tmp,      \* the file under the temporary name
  onDisk,   \* the file the configuration's name has on disk
  data,     \* the content of each file
  dirty,    \* files whose content is not known to be on disk
  pc,       \* where each saver is
  inner,    \* the value it saves
  fd,       \* the file it has open
  promised, \* history: values the file may hold after the last durable save
  loaded    \* the last value a load returned

names == <<path, tmp, onDisk>>
vars  == <<names, data, dirty, pc, inner, fd, promised, loaded>>

Answers == [value : Values \cup {Torn}, of : {"program", "service", "nobody"}]

TypeOK ==
  /\ {path, tmp, onDisk} \subseteq Inodes \cup {NoInode}
  /\ data \in [Inodes -> Values \cup {Torn}]
  /\ dirty \subseteq Inodes
  /\ pc \in [Savers -> {"idle", "create", "write", "sync", "rename", "syncDir"}]
  /\ inner \in [Savers -> Values]
  /\ fd \in [Savers -> Inodes \cup {NoInode}]
  /\ \A s \in Savers : pc[s] \in {"write", "sync"} => fd[s] # NoInode
  /\ promised \subseteq Values \cup {NoInode}
  /\ loaded \in Answers

Init ==
  /\ path = NoInode /\ tmp = NoInode /\ onDisk = NoInode
  /\ data = [i \in Inodes |-> Torn]
  /\ dirty = {}
  /\ pc = [s \in Savers |-> "idle"]
  /\ inner = [s \in Savers |-> Default]
  /\ fd = [s \in Savers |-> NoInode]
  /\ promised = {NoInode}
  /\ loaded = [value |-> Default, of |-> "nobody"]

\* What the configuration's name leads to: a content, or NoInode.
Current == IF path = NoInode THEN NoInode ELSE data[path]

At(s, l)    == pc[s] = l
Goto(s, l)  == pc' = [pc EXCEPT ![s] = l]
Close(s, l) == Goto(s, l) /\ fd' = [fd EXCEPT ![s] = NoInode]

\* An operation of a save fails: the save returns an error.
Fail(s) ==
  /\ pc[s] \in {"create", "write", "sync", "rename"}
  /\ Close(s, "idle")
  /\ UNCHANGED <<names, data, dirty, inner, promised, loaded>>

\* save: a program sets a value, and serializes it.
Save(s, v) ==
  /\ At(s, "idle")
  /\ Exclusive => \A t \in Savers : At(t, "idle")
  /\ Goto(s, "create")
  /\ inner' = [inner EXCEPT ![s] = v]
  /\ promised' = promised \cup {v}
  /\ UNCHANGED <<names, data, dirty, fd, loaded>>

\* File::create of the temporary name: a file that has it is emptied.
Create(s) ==
  /\ At(s, "create")
  /\ \E i \in Inodes :
       /\ IF tmp # NoInode THEN i = tmp
          ELSE i \notin {fd[t] : t \in Savers} \cup {path, onDisk}
       /\ tmp' = i
       /\ fd' = [fd EXCEPT ![s] = i]
       /\ data' = [data EXCEPT ![i] = Torn]
       /\ dirty' = dirty \cup {i}
  /\ Goto(s, "write")
  /\ UNCHANGED <<path, onDisk, inner, promised, loaded>>

\* A save that drops the file before it syncs it.
MutWrite(s) ==
  /\ At(s, "write")
  /\ data' = [data EXCEPT ![fd[s]] = inner[s]]
  /\ dirty' = dirty \cup {fd[s]}
  /\ Close(s, "sync")
  /\ UNCHANGED <<names, inner, promised, loaded>>

\* write_all, from the start of the file: a longer text that is there already
\* shows behind a shorter one.
Write(s) ==
  /\ At(s, "write")
  /\ LET i == fd[s]  v == inner[s]
     IN data' = [data EXCEPT ![i] =
                   IF @ # Torn /\ Length[@] > Length[v] THEN Torn ELSE v]
  /\ dirty' = dirty \cup {fd[s]}
  /\ Goto(s, "sync")
  /\ UNCHANGED <<names, inner, fd, promised, loaded>>

\* A save that does not sync the temporary file.
MutSync(s) ==
  /\ At(s, "sync")
  /\ Close(s, "rename")
  /\ UNCHANGED <<names, data, dirty, inner, promised, loaded>>

Sync(s) ==
  /\ At(s, "sync")
  /\ dirty' = dirty \ {fd[s]}
  /\ Close(s, "rename")
  /\ UNCHANGED <<names, data, inner, promised, loaded>>

\* Fails if another saver has taken the temporary name away.
Rename(s) ==
  /\ At(s, "rename")
  /\ tmp # NoInode
  /\ path' = tmp
  /\ tmp' = NoInode
  /\ Goto(s, "syncDir")
  /\ UNCHANGED <<onDisk, data, dirty, inner, fd, promised, loaded>>

\* A save that takes the rename for durable.
MutSyncDir(s) ==
  /\ At(s, "syncDir")
  /\ promised' = {inner[s]}
  /\ Goto(s, "idle")
  /\ UNCHANGED <<names, data, dirty, inner, fd, loaded>>

\* The directory is synced if that can be done; save returns Ok in either case.
SyncDir(s) ==
  /\ At(s, "syncDir")
  /\ \/ /\ onDisk' = path
        /\ promised' = {inner[s]}
     \/ UNCHANGED <<onDisk, promised>>
  /\ Goto(s, "idle")
  /\ UNCHANGED <<path, tmp, data, dirty, inner, fd, loaded>>

-----------------------------------------------------------------------------
\* load_or_default: what a program makes of the file; Torn stands for an error,
\* and only a file that is not there makes the default.
Load ==
  /\ loaded' = [value |-> IF Current = NoInode THEN Default ELSE Current,
                of |-> "program"]
  /\ UNCHANGED <<names, data, dirty, pc, inner, fd, promised>>

\* A load_or_default that does so on any error.
MutLoadFails ==
  /\ loaded' = [value |-> Default, of |-> "program"]
  /\ UNCHANGED <<names, data, dirty, pc, inner, fd, promised>>

LoadFails ==
  /\ loaded' = [value |-> Torn, of |-> "program"]
  /\ UNCHANGED <<names, data, dirty, pc, inner, fd, promised>>

\* load_config of either service: whatever cannot be used makes the default.
ServiceLoad ==
  /\ loaded' = [value |-> IF Current \in Values THEN Current ELSE Default,
                of |-> "service"]
  /\ UNCHANGED <<names, data, dirty, pc, inner, fd, promised>>

-----------------------------------------------------------------------------
\* The file system writes back what it has not yet: contents and the rename.
WriteBack ==
  /\ dirty' = {} /\ onDisk' = path
  /\ UNCHANGED <<path, tmp, data, pc, inner, fd, promised, loaded>>

Die(s) ==
  /\ pc[s] # "idle"
  /\ Close(s, "idle")
  /\ UNCHANGED <<names, data, dirty, inner, promised, loaded>>

\* Data that is not on disk may be lost; the last rename too, unless the
\* directory was synced.
PowerLoss ==
  /\ path' \in {path, onDisk}
  /\ onDisk' = path'
  /\ tmp' \in {NoInode, IF path' = path THEN tmp ELSE path}
  /\ \E lost \in SUBSET dirty :
       data' = [i \in Inodes |-> IF i \in lost THEN Torn ELSE data[i]]
  /\ dirty' = {}
  /\ pc' = [s \in Savers |-> "idle"]
  /\ fd' = [s \in Savers |-> NoInode]
  /\ UNCHANGED <<inner, promised, loaded>>

Next ==
  \/ \E s \in Savers :
       \/ \E v \in Values : Save(s, v)
       \/ Create(s) \/ Write(s) \/ Sync(s) \/ Rename(s) \/ SyncDir(s)
       \/ Fail(s) \/ Die(s)
  \/ Load \/ LoadFails \/ ServiceLoad \/ WriteBack \/ PowerLoss

Spec == Init /\ [][Next]_vars

-----------------------------------------------------------------------------
(***************************************************************************)
(* "Atomic writes prevent partial file corruption" (config.rs:16): as long *)
(* as savers take turns, the configuration's name never leads to a file    *)
(* that is torn, whatever failed and whenever the power was lost.          *)
(***************************************************************************)
FileIsWhole == Exclusive => Current # Torn

(***************************************************************************)
(* "This prevents partial writes from power loss or disk-full conditions"  *)
(* (config.rs:155) and the directory is synced "to ensure the rename is    *)
(* durable" (config.rs:222): the file holds the value of the last durable  *)
(* save or of one begun since, through failed saves and losses of power.   *)
(***************************************************************************)
SaveIsDurable == Exclusive => Current \in promised

(***************************************************************************)
(* Once a save was durable, no program is given the default in place of    *)
(* what was saved, without an error: load_or_default falls back only if    *)
(* there is no file (config.rs:107).                                       *)
(***************************************************************************)
NoSilentDefault ==
  [][Exclusive /\ loaded'.of = "program" /\ loaded' # loaded =>
       loaded'.value \in promised \cup {Torn}
         \cup (IF NoInode \in promised THEN {Default} ELSE {})]_vars
=============================================================================
