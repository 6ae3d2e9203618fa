-------------------------- MODULE ConfigStore_proofs --------------------------
(***************************************************************************)
(* What ConfigStore states of the file, for every set of programs,         *)
(* configurations and lengths of their texts.  The invariant follows one   *)
(* save at a time: the file it writes has no other name until it is        *)
(* renamed, is whole when it is, and is on disk by then, so that a loss of *)
(* power spoils neither what the name leads to nor what it led to before.  *)
(***************************************************************************)
EXTENDS ConfigStore, TLAPS

\* The content of a file, NoInode if there is none.
Content(i) == IF i = NoInode THEN NoInode ELSE data[i]

OneSaves == \A s, t \in Savers : pc[s] # "idle" /\ pc[t] # "idle" => s = t

\* The temporary name is that of no file a load can come to.
Apart == tmp # NoInode => tmp # path /\ tmp # onDisk

\* What a name may lead to, now or after a loss of power, is whole and safe.
Kept(i) ==
  i # NoInode => data[i] \in Values /\ i \notin dirty

KeptAreGood == Kept(path) /\ Kept(onDisk) /\ {Content(path), Content(onDisk)} \subseteq promised

\* How far each save has come with its temporary file.
Progress ==
  \A s \in Savers :
    /\ pc[s] \in {"write", "sync"} => fd[s] = tmp /\ tmp # NoInode
    /\ pc[s] = "write" => data[tmp] = Torn
    /\ pc[s] = "sync" => data[tmp] = inner[s]
    /\ pc[s] = "rename" => tmp # NoInode /\ data[tmp] = inner[s] /\ tmp \notin dirty
    /\ pc[s] = "syncDir" => path # NoInode /\ data[path] = inner[s]
    /\ pc[s] # "idle" => inner[s] \in promised

Good == OneSaves /\ Apart /\ KeptAreGood /\ Progress

IInv == TypeOK /\ (Exclusive => Good)

LEMMA TypeKept == TypeOK /\ [Next]_vars => TypeOK'
<1> SUFFICES ASSUME TypeOK, [Next]_vars PROVE TypeOK'
  OBVIOUS
<1> USE ConfigAssumption DEF TypeOK, names, At, Goto, Close
<1>1. ASSUME NEW s \in Savers, NEW v \in Values, Save(s, v) PROVE TypeOK'
  BY <1>1 DEF Save
<1>2. ASSUME NEW s \in Savers, Create(s) PROVE TypeOK'
  <2>1. PICK i \in Inodes :
          /\ tmp' = i /\ fd' = [fd EXCEPT ![s] = i]
          /\ data' = [data EXCEPT ![i] = Torn] /\ dirty' = dirty \cup {i}
    BY <1>2 DEF Create
  <2>2. QED
    BY <1>2, <2>1 DEF Create
<1>3. ASSUME NEW s \in Savers, Write(s) PROVE TypeOK'
  <2>1. fd[s] \in Inodes /\ inner[s] \in Values
    BY <1>3 DEF Write
  <2>2. data' \in [Inodes -> Values \cup {Torn}]
    BY <1>3, <2>1 DEF Write
  <2>3. QED
    BY <1>3, <2>1, <2>2 DEF Write
<1>4. ASSUME NEW s \in Savers, Sync(s) PROVE TypeOK'
  BY <1>4 DEF Sync
<1>5. ASSUME NEW s \in Savers, Rename(s) PROVE TypeOK'
  BY <1>5 DEF Rename
<1>6. ASSUME NEW s \in Savers, SyncDir(s) PROVE TypeOK'
  BY <1>6 DEF SyncDir
<1>7. ASSUME NEW s \in Savers, Fail(s) \/ Die(s) PROVE TypeOK'
  BY <1>7 DEF Fail, Die
<1>8. CASE Load \/ LoadFails \/ ServiceLoad
  <2>1. Current \in Values \cup {Torn, NoInode}
    BY DEF Current
  <2>2. loaded' \in Answers
    BY <1>8, <2>1 DEF Load, LoadFails, ServiceLoad, Answers
  <2>3. QED
    BY <1>8, <2>2 DEF Load, LoadFails, ServiceLoad
<1>9. CASE WriteBack
  BY <1>9 DEF WriteBack
<1>10. CASE PowerLoss
  <2>1. data' \in [Inodes -> Values \cup {Torn}]
    BY <1>10 DEF PowerLoss
  <2>2. {path', tmp', onDisk'} \subseteq Inodes \cup {NoInode}
    BY <1>10 DEF PowerLoss
  <2>3. QED
    BY <1>10, <2>1, <2>2 DEF PowerLoss
<1>11. CASE UNCHANGED vars
  BY <1>11 DEF vars
<1>12. QED
  BY <1>1, <1>2, <1>3, <1>4, <1>5, <1>6, <1>7, <1>8, <1>9, <1>10, <1>11 DEF Next

\* One saver is at work: whoever else is idle.
LEMMA OthersIdle ==
  ASSUME OneSaves, NEW s \in Savers, pc[s] # "idle"
  PROVE  \A t \in Savers \ {s} : pc[t] = "idle"
BY DEF OneSaves

LEMMA GoodKept == Exclusive /\ TypeOK /\ Good /\ [Next]_vars => Good'
<1> SUFFICES ASSUME Exclusive, TypeOK, Good, [Next]_vars PROVE Good'
  OBVIOUS
<1> USE ConfigAssumption DEF TypeOK, names, At, Goto, Close, Good, Kept, Content, KeptAreGood
<1>1. ASSUME NEW s \in Savers, NEW v \in Values, Save(s, v) PROVE Good'
  <2>1. \A t \in Savers \ {s} : pc'[t] = "idle"
    BY <1>1 DEF Save
  <2>2. pc'[s] = "create" /\ inner'[s] = v /\ v \in promised' /\ promised \subseteq promised'
    BY <1>1 DEF Save
  <2>3. OneSaves' /\ Apart' /\ KeptAreGood'
    BY <1>1, <2>1, <2>2 DEF Save, OneSaves, Apart
  <2>4. Progress'
    BY <1>1, <2>1, <2>2 DEF Save, Progress
  <2>5. QED
    BY <2>3, <2>4
<1>2. ASSUME NEW s \in Savers, Create(s) PROVE Good'
  <2>1. \A t \in Savers \ {s} : pc'[t] = "idle"
    BY <1>2, OthersIdle DEF Create
  <2>2. PICK i \in Inodes :
          /\ i # path /\ i # onDisk /\ tmp' = i
          /\ fd' = [fd EXCEPT ![s] = i]
          /\ data' = [data EXCEPT ![i] = Torn] /\ dirty' = dirty \cup {i}
    BY <1>2 DEF Create, Apart
  <2>3. /\ pc'[s] = "write" /\ fd'[s] = tmp' /\ tmp' # NoInode /\ data'[tmp'] = Torn
        /\ inner'[s] \in promised'
    BY <1>2, <2>2 DEF Create, Progress
  <2>4. OneSaves' /\ Apart' /\ KeptAreGood'
    BY <1>2, <2>1, <2>2 DEF Create, OneSaves, Apart
  <2>5. Progress'
    BY <2>1, <2>3 DEF Progress
  <2>6. QED
    BY <2>4, <2>5
<1>3. ASSUME NEW s \in Savers, Write(s) PROVE Good'
  <2>1. \A t \in Savers \ {s} : pc'[t] = "idle"
    BY <1>3, OthersIdle DEF Write
  <2>2. /\ fd[s] = tmp /\ tmp \in Inodes /\ tmp # path /\ tmp # onDisk
        /\ data[tmp] = Torn /\ inner[s] \in Values /\ inner[s] \in promised
    BY <1>3 DEF Write, Progress, Apart
  <2>3. data' = [data EXCEPT ![tmp] = inner[s]] /\ dirty' = dirty \cup {tmp}
    BY <1>3, <2>2 DEF Write
  <2>4. pc'[s] = "sync" /\ UNCHANGED <<path, tmp, onDisk, inner, fd, promised>>
    BY <1>3 DEF Write
  <2>5. OneSaves' /\ Apart' /\ KeptAreGood'
    BY <2>1, <2>2, <2>3, <2>4 DEF OneSaves, Apart
  <2>6. Progress'
    BY <2>1, <2>2, <2>3, <2>4 DEF Progress
  <2>7. QED
    BY <2>5, <2>6
<1>4. ASSUME NEW s \in Savers, Sync(s) PROVE Good'
  <2>1. \A t \in Savers \ {s} : pc'[t] = "idle"
    BY <1>4, OthersIdle DEF Sync
  <2>2. /\ pc'[s] = "rename" /\ tmp # NoInode /\ data[tmp] = inner[s] /\ inner[s] \in promised
        /\ fd[s] = tmp
    BY <1>4 DEF Sync, Progress
  <2>3. dirty' = dirty \ {tmp} /\ UNCHANGED <<path, tmp, onDisk, data, inner, promised>>
    BY <1>4, <2>2 DEF Sync
  <2>4. OneSaves' /\ Apart' /\ KeptAreGood'
    BY <2>1, <2>3 DEF OneSaves, Apart
  <2>5. Progress'
    BY <2>1, <2>2, <2>3 DEF Progress
  <2>6. QED
    BY <2>4, <2>5
<1>5. ASSUME NEW s \in Savers, Rename(s) PROVE Good'
  <2>1. \A t \in Savers \ {s} : pc'[t] = "idle"
    BY <1>5, OthersIdle DEF Rename
  <2>2. /\ tmp # NoInode /\ data[tmp] = inner[s] /\ tmp \notin dirty
        /\ inner[s] \in promised /\ inner[s] \in Values
    BY <1>5 DEF Rename, Progress
  <2>3. /\ path' = tmp /\ tmp' = NoInode /\ pc'[s] = "syncDir"
        /\ UNCHANGED <<onDisk, data, dirty, inner, promised>>
    BY <1>5 DEF Rename
  <2>4. OneSaves' /\ Apart' /\ KeptAreGood'
    BY <2>1, <2>2, <2>3 DEF OneSaves, Apart
  <2>5. Progress'
    BY <2>1, <2>2, <2>3 DEF Progress
  <2>6. QED
    BY <2>4, <2>5
<1>6. ASSUME NEW s \in Savers, SyncDir(s) PROVE Good'
  <2>1. \A t \in Savers : pc'[t] = "idle"
    BY <1>6, OthersIdle DEF SyncDir
  <2>2. path # NoInode /\ data[path] = inner[s]
    BY <1>6 DEF SyncDir, Progress
  <2>3. UNCHANGED <<path, tmp, data, dirty>>
    BY <1>6 DEF SyncDir
  <2>4. \/ onDisk' = path /\ promised' = {inner[s]}
        \/ UNCHANGED <<onDisk, promised>>
    BY <1>6 DEF SyncDir
  <2>5. OneSaves' /\ Progress'
    BY <2>1 DEF OneSaves, Progress
  <2>6. Apart' /\ KeptAreGood'
    BY <2>2, <2>3, <2>4 DEF Apart
  <2>7. QED
    BY <2>5, <2>6
<1>7. ASSUME NEW s \in Savers, Fail(s) \/ Die(s) PROVE Good'
  <2>1. \A t \in Savers : pc'[t] = "idle"
    BY <1>7, OthersIdle DEF Fail, Die
  <2>2. UNCHANGED <<path, tmp, onDisk, data, dirty, promised>>
    BY <1>7 DEF Fail, Die
  <2>3. QED
    BY <2>1, <2>2 DEF OneSaves, Progress, Apart
<1>8. CASE Load \/ LoadFails \/ ServiceLoad \/ UNCHANGED vars
  <2>1. UNCHANGED <<path, tmp, onDisk, data, dirty, pc, inner, fd, promised>>
    BY <1>8 DEF Load, LoadFails, ServiceLoad, vars
  <2>2. QED
    BY <2>1 DEF OneSaves, Progress, Apart
<1>9. CASE WriteBack
  <2>1. dirty' = {} /\ onDisk' = path
        /\ UNCHANGED <<path, tmp, data, pc, inner, fd, promised>>
    BY <1>9 DEF WriteBack
  <2>2. OneSaves' /\ Apart' /\ KeptAreGood'
    BY <2>1 DEF OneSaves, Apart
  <2>3. Progress'
    BY <2>1 DEF Progress
  <2>4. QED
    BY <2>2, <2>3
<1>10. CASE PowerLoss
  <2>1. \A t \in Savers : pc'[t] = "idle"
    BY <1>10 DEF PowerLoss
  <2>2. \A i \in Inodes : i \notin dirty => data'[i] = data[i]
    BY <1>10 DEF PowerLoss
  <2>3. /\ path' \in {path, onDisk} /\ onDisk' = path' /\ dirty' = {} /\ promised' = promised
        /\ tmp' \in {NoInode, IF path' = path THEN tmp ELSE path}
    BY <1>10 DEF PowerLoss
  <2>4. KeptAreGood'
    BY <2>2, <2>3
  <2>5. OneSaves' /\ Progress'
    BY <2>1 DEF OneSaves, Progress
  <2>6. Apart'
    BY <2>3 DEF Apart
  <2>7. QED
    BY <2>4, <2>5, <2>6
<1>11. QED
  BY <1>1, <1>2, <1>3, <1>4, <1>5, <1>6, <1>7, <1>8, <1>9, <1>10 DEF Next

LEMMA InitEstablishes == Init => IInv
<1> SUFFICES ASSUME Init PROVE IInv
  OBVIOUS
<1>1. TypeOK
  BY ConfigAssumption DEF Init, TypeOK, Answers
<1>2. Good
  BY DEF Init, Good, OneSaves, Apart, KeptAreGood, Kept, Content, Progress
<1>3. QED
  BY <1>1, <1>2 DEF IInv

\* Types, and the progress of a save where savers take turns.
THEOREM Invariance == Spec => []IInv
<1>1. IInv /\ [Next]_vars => IInv'
  BY TypeKept, GoodKept DEF IInv
<1>2. QED
  BY <1>1, InitEstablishes, PTL DEF Spec

\* Names, contents and savers keep their types, taking turns or not.
THEOREM TypeCorrect == Spec => []TypeOK
<1>1. IInv => TypeOK
  BY DEF IInv
<1>2. QED
  BY <1>1, Invariance, PTL

\* The configuration's name never leads to a file that is torn, if savers take
\* turns: write_all and sync_all come before the rename.
THEOREM FileStaysWhole == Spec => []FileIsWhole
<1>1. IInv => FileIsWhole
  BY ConfigAssumption DEF IInv, Good, KeptAreGood, Kept, FileIsWhole, Current
<1>2. QED
  BY <1>1, Invariance, PTL

\* The name leads to the value of the last durable save or of a later one.
THEOREM SavesAreDurable == Spec => []SaveIsDurable
<1>1. IInv => SaveIsDurable
  BY DEF IInv, Good, KeptAreGood, Content, SaveIsDurable, Current
<1>2. QED
  BY <1>1, Invariance, PTL

\* After a durable save no program is given the default without an error.
THEOREM NoDefaultInsteadOfSaved == Spec => NoSilentDefault
<1> DEFINE Step ==
      Exclusive /\ loaded'.of = "program" /\ loaded' # loaded =>
        loaded'.value \in promised \cup {Torn}
          \cup (IF NoInode \in promised THEN {Default} ELSE {})
<1>1. IInv /\ [Next]_vars => [Step]_vars
  <2> SUFFICES ASSUME IInv, Next, Exclusive, loaded'.of = "program", loaded' # loaded
               PROVE  Step
    OBVIOUS
  <2>1. Current \in promised
    BY DEF IInv, Good, KeptAreGood, Content, Current
  <2>2. Load \/ LoadFails \/ ServiceLoad
    BY DEF Next, Save, Create, Write, Sync, Rename, SyncDir, Fail, Die, WriteBack, PowerLoss
  <2>3. CASE Load
    BY <2>1, <2>3 DEF Load
  <2>4. CASE LoadFails
    BY <2>4 DEF LoadFails
  <2>5. CASE ServiceLoad
    BY <2>5 DEF ServiceLoad
  <2>6. QED
    BY <2>2, <2>3, <2>4, <2>5
<1>2. QED
  BY <1>1, Invariance, PTL DEF Spec, NoSilentDefault
=============================================================================
