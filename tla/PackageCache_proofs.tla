-------------------------- MODULE PackageCache_proofs --------------------------
(***************************************************************************)
(* What PackageCache states of the packages, for any packages and any      *)
(* number of handlers that clear, whatever fails and wherever the daemon   *)
(* dies.  The last part is about the limits: enforce_limits subtracts from *)
(* a sum over a set, and what is believed of that sum is what is there.    *)
(***************************************************************************)
EXTENDS PackageCache, FiniteSetTheorems, TLAPS

FileTypes ==
  /\ entry \in [Items -> Contents] /\ part \in [Digest -> Contents]
  /\ meta \in SUBSET Digest

CallerTypes ==
  /\ pc \in [Callers -> PCs]
  /\ \A c \in Clearers : pc[c] \in {"idle", "clear"}
  /\ todo \in [Callers -> SUBSET ({"entry", "part", "meta"} \X Items)]
  /\ on \in Items
  /\ answer \in {"none", "ok", "hit", "miss", "error"} /\ disturbed \in BOOLEAN

At(l) == pc[User] = l

\* The user's call is about a package from its first step on.
Named ==
  pc[User] \in {"writing", "finalize", "rename", "describe", "hash", "discard",
                "discardMeta", "remove", "removeMeta"} => on \in Digest

\* Only a partial file is ever written in part, and only while it is written.
Whole ==
  /\ \A d \in Digest : entry[d] # "torn"
  /\ At("writing") => part[on] \in {"torn", "none"}
  /\ At("finalize") \/ At("rename") => part[on] # "torn"

\* What is discarded is what was found to be wrong.
Wrong == At("discard") => entry[on] # "right"

\* Between the two steps of finalize the package is there, or was removed.
Stored == At("describe") => Exists(entry[on]) \/ disturbed

Unanswered == pc[User] # "idle" => answer = "none"

IInv == FileTypes /\ CallerTypes /\ Named /\ Whole /\ Wrong /\ Stored /\ Unanswered

LEMMA UserIsCaller == User \in Callers /\ \A c \in Clearers : c \in Callers /\ c # User
BY NamesAssumption DEF Callers

LEMMA InitEstablishes == Init => IInv
<1> SUFFICES ASSUME Init PROVE IInv
  OBVIOUS
<1>1. FileTypes
  BY DEF Init, FileTypes, Contents
<1>2. CallerTypes
  BY UserIsCaller DEF Init, CallerTypes, PCs, Items
<1>3. pc[User] = "idle"
  BY UserIsCaller DEF Init
<1>4. \A d \in Digest : entry[d] = "none"
  BY NamesAssumption DEF Init, Items
<1>5. QED
  BY <1>1, <1>2, <1>3, <1>4 DEF IInv, Named, Whole, Wrong, Stored, Unanswered, At

-----------------------------------------------------------------------------
(***************************************************************************)
(* The ways a caller goes on                                               *)
(***************************************************************************)

\* A step of the user: the clearers stay where they are.
UserGoes(l) ==
  /\ pc' = [pc EXCEPT ![User] = l] /\ l \in PCs
  /\ pc'[User] = l /\ \A c \in Clearers : pc'[c] = pc[c]

LEMMA UserSteps ==
  ASSUME CallerTypes
  PROVE  /\ \A l \in PCs : Step(User, l) => UserGoes(l) /\ UNCHANGED <<on, answer, disturbed>>
         /\ \A l \in PCs : \A d : Begin(User, l, d) =>
              UserGoes(l) /\ pc[User] = "idle" /\ on' = d /\ answer' = "none" /\ disturbed' = FALSE
         /\ \A a : Answer(User, a) => UserGoes("idle") /\ on' = Subdir /\ answer' = a
         /\ \A l \in PCs : Goto(User, l) => UserGoes(l)
BY UserIsCaller DEF CallerTypes, Step, Begin, Answer, Goto, UserGoes, PCs

\* What is seen of some files are some of them.
LEMMA SeenAreThere == \A S : \A seen \in Readable(S) : seen \subseteq S
BY DEF Readable

LEMMA UserTypes ==
  ASSUME CallerTypes, NEW l \in PCs, UserGoes(l), on' \in Items,
         answer' \in {"none", "ok", "hit", "miss", "error"}, disturbed' \in BOOLEAN,
         todo' \in [Callers -> SUBSET ({"entry", "part", "meta"} \X Items)]
  PROVE  CallerTypes'
BY UserIsCaller DEF CallerTypes, UserGoes

\* The user's call ends, whatever became of the files of a package.
LEMMA AnswerKeeps ==
  ASSUME IInv, FileTypes', \A d \in Digest : entry'[d] # "torn", disturbed' \in BOOLEAN,
         todo' \in [Callers -> SUBSET ({"entry", "part", "meta"} \X Items)],
         NEW a \in {"none", "ok", "hit", "miss", "error"}, Answer(User, a)
  PROVE  IInv'
<1>1. UserGoes("idle") /\ on' = Subdir /\ answer' = a /\ "idle" \in PCs
  BY UserSteps DEF IInv, PCs
<1>2. CallerTypes'
  BY <1>1, UserTypes DEF IInv, Items
<1>3. QED
  BY <1>1, <1>2 DEF IInv, Named, Whole, Wrong, Stored, Unanswered, At, UserGoes

LEMMA ReturnKeeps ==
  ASSUME IInv, FileTypes', \A d \in Digest : entry'[d] # "torn",
         todo' \in [Callers -> SUBSET ({"entry", "part", "meta"} \X Items)],
         NEW a \in {"none", "ok", "hit", "miss", "error"}, Return(User, a)
  PROVE  IInv'
<1>1. disturbed' \in BOOLEAN /\ Answer(User, a)
  BY DEF Return, IInv, CallerTypes
<1>2. QED
  BY <1>1, AnswerKeeps

\* It goes on to a step at which nothing is known of the files.
Plain == {"discardMeta", "remove", "removeMeta", "measure", "count", "list", "evict",
          "evictMeta", "cleanup", "clear", "hash"}

LEMMA PlainKeeps ==
  ASSUME IInv, FileTypes', \A d \in Digest : entry'[d] # "torn",
         todo' \in [Callers -> SUBSET ({"entry", "part", "meta"} \X Items)],
         NEW l \in Plain, UserGoes(l), on' \in Items, answer' = "none", disturbed' \in BOOLEAN,
         l \in {"discardMeta", "remove", "removeMeta", "hash"} => on' \in Digest
  PROVE  IInv'
<1>1. l \in PCs
  BY DEF Plain, PCs
<1>2. CallerTypes'
  BY <1>1, UserTypes DEF IInv
<1>3. QED
  BY <1>2 DEF IInv, Named, Whole, Wrong, Stored, Unanswered, At, UserGoes, Plain

-----------------------------------------------------------------------------
(***************************************************************************)
(* The actions                                                             *)
(***************************************************************************)

LEMMA DigestsAreItems == \A d \in Digest : d \in Items /\ d # Subdir
BY NamesAssumption DEF Items

LEMMA StoringKeeps ==
  ASSUME IInv,
         (\E d \in Digest : Stage(d)) \/ Write \/ Finalize \/ Rename \/ Describe
  PROVE  IInv'
<1> USE DEF IInv
<1>1. ASSUME NEW d \in Digest, Stage(d) PROVE IInv'
  <2>1. /\ UserGoes("writing") /\ on' = d /\ answer' = "none" /\ disturbed' = FALSE
        /\ part' = [part EXCEPT ![d] = "torn"] /\ UNCHANGED <<entry, meta, todo>>
    BY <1>1, UserSteps DEF Stage, PCs
  <2>2. FileTypes' /\ part'[d] = "torn"
    BY <2>1 DEF FileTypes, Contents
  <2>3. CallerTypes'
    BY <2>1, UserTypes, DigestsAreItems DEF CallerTypes, PCs
  <2>4. QED
    BY <2>1, <2>2, <2>3 DEF Named, Whole, Wrong, Stored, Unanswered, At, UserGoes
<1>2. CASE Write
  <2>1. At("writing") /\ on \in Digest /\ UNCHANGED <<entry, meta, todo>>
    BY <1>2 DEF Write, At, Named
  <2>2. CASE Return(User, "error") /\ UNCHANGED part
    BY <2>1, <2>2, ReturnKeeps DEF FileTypes, CallerTypes, Whole
  <2>3. CASE /\ \E b \in {"wrong", "right"} :
                  part' = IF Exists(part[on]) THEN [part EXCEPT ![on] = b] ELSE part
             /\ Step(User, "finalize")
    <3>1. UserGoes("finalize") /\ UNCHANGED <<on, answer, disturbed>>
      BY <2>3, UserSteps DEF PCs
    <3>2. FileTypes' /\ part'[on] # "torn"
      BY <2>1, <2>3 DEF FileTypes, Contents, Exists
    <3>3. CallerTypes'
      BY <2>1, <3>1, UserTypes DEF CallerTypes, PCs
    <3>4. QED
      BY <2>1, <3>1, <3>2, <3>3 DEF Named, Whole, Wrong, Stored, Unanswered, At, UserGoes
  <2>4. QED
    BY <1>2, <2>2, <2>3 DEF Write
<1>3. CASE Finalize
  <2>1. At("finalize") /\ on \in Digest /\ UNCHANGED <<entry, part, meta, todo>>
    BY <1>3 DEF Finalize, At, Named, files
  <2>2. CASE Return(User, "error")
    BY <2>1, <2>2, ReturnKeeps DEF FileTypes, CallerTypes, Whole
  <2>3. CASE Step(User, "rename")
    <3>1. UserGoes("rename") /\ UNCHANGED <<on, answer, disturbed>>
      BY <2>3, UserSteps DEF PCs
    <3>2. FileTypes' /\ CallerTypes'
      BY <2>1, <3>1, UserTypes DEF FileTypes, CallerTypes, PCs
    <3>3. QED
      BY <2>1, <3>1, <3>2 DEF Named, Whole, Wrong, Stored, Unanswered, At, UserGoes
  <2>4. QED
    BY <1>3, <2>2, <2>3 DEF Finalize
<1>4. CASE Rename
  <2>1. At("rename") /\ on \in Digest /\ on \in Items /\ UNCHANGED <<meta, todo>>
    BY <1>4, DigestsAreItems DEF Rename, At, Named
  <2>2. CASE Return(User, "error") /\ UNCHANGED <<entry, part>>
    BY <2>1, <2>2, ReturnKeeps DEF FileTypes, CallerTypes, Whole
  <2>3. CASE /\ Exists(part[on])
             /\ entry' = [entry EXCEPT ![on] = part[on]]
             /\ part' = [part EXCEPT ![on] = "none"]
             /\ Step(User, "describe")
    <3>1. UserGoes("describe") /\ UNCHANGED <<on, answer, disturbed>>
      BY <2>3, UserSteps DEF PCs
    <3>2. part[on] \in Contents \ {"none", "torn"}
      BY <2>1, <2>3 DEF FileTypes, Whole, Exists
    <3>3. FileTypes' /\ Exists(entry'[on]) /\ \A d \in Digest : entry'[d] # "torn"
      BY <2>1, <2>3, <3>2, DigestsAreItems DEF FileTypes, Contents, Whole, Exists
    <3>4. CallerTypes'
      BY <2>1, <3>1, UserTypes DEF CallerTypes, PCs
    <3>5. QED
      BY <2>1, <3>1, <3>3, <3>4 DEF Named, Whole, Wrong, Stored, Unanswered, At, UserGoes
  <2>4. QED
    BY <1>4, <2>2, <2>3 DEF Rename
<1>5. CASE Describe
  <2>1. PICK a \in {"ok", "error"} : Return(User, a)
    BY <1>5 DEF Describe
  <2>2. FileTypes' /\ UNCHANGED <<entry, todo>>
    BY <1>5 DEF Describe, FileTypes, At, Named
  <2>3. QED
    BY <2>1, <2>2, ReturnKeeps DEF CallerTypes, Whole
<1>6. QED
  BY <1>1, <1>2, <1>3, <1>4, <1>5

LEMMA LookingUpKeeps ==
  ASSUME IInv,
         \/ \E d \in Digest : Verify(d) \/ RemoveEntry(d)
         \/ Hash \/ Discard \/ DiscardMeta \/ Remove \/ RemoveMeta
  PROVE  IInv'
<1> USE DEF IInv
<1>1. ASSUME NEW d \in Digest, Verify(d) \/ RemoveEntry(d) PROVE IInv'
  <2>1. UNCHANGED <<entry, part, meta, todo>>
    BY <1>1 DEF Verify, RemoveEntry, files
  <2>2. CASE Return(User, "miss")
    BY <2>1, <2>2, ReturnKeeps DEF FileTypes, CallerTypes, Whole
  <2>3. ASSUME NEW l \in {"hash", "remove"}, Begin(User, l, d) PROVE IInv'
    <3>1. l \in PCs /\ l \in Plain
      BY DEF PCs, Plain
    <3>2. UserGoes(l) /\ on' = d /\ answer' = "none" /\ disturbed' = FALSE
      BY <2>3, <3>1, UserSteps
    <3>3. QED
      BY <2>1, <3>1, <3>2, DigestsAreItems, PlainKeeps DEF FileTypes, CallerTypes, Whole
  <2>4. QED
    BY <1>1, <2>2, <2>3 DEF Verify, RemoveEntry
<1>2. CASE Hash
  <2>1. At("hash") /\ on \in Digest /\ UNCHANGED <<entry, part, meta, todo>>
    BY <1>2 DEF Hash, At, Named, files
  <2>2. ASSUME NEW a \in {"error", "hit"}, Return(User, a) PROVE IInv'
    BY <2>1, <2>2, ReturnKeeps DEF FileTypes, CallerTypes, Whole
  <2>3. CASE entry[on] \in {"torn", "wrong"} /\ Step(User, "discard")
    <3>1. UserGoes("discard") /\ UNCHANGED <<on, answer, disturbed>>
      BY <2>3, UserSteps DEF PCs
    <3>2. FileTypes' /\ CallerTypes'
      BY <2>1, <3>1, UserTypes DEF FileTypes, CallerTypes, PCs
    <3>3. QED
      BY <2>1, <2>3, <3>1, <3>2 DEF Named, Whole, Wrong, Stored, Unanswered, At, UserGoes
  <2>4. QED
    BY <1>2, <2>2, <2>3 DEF Hash
<1>3. CASE Discard
  <2>1. At("discard") /\ on \in Digest /\ on \in Items /\ UNCHANGED <<part, meta, todo>>
    BY <1>3, DigestsAreItems DEF Discard, At, Named
  <2>2. entry' = entry \/ entry' = [entry EXCEPT ![on] = "none"]
    BY <1>3 DEF Discard
  <2>3. FileTypes' /\ \A d \in Digest : entry'[d] # "torn"
    BY <2>1, <2>2, DigestsAreItems DEF FileTypes, Contents, Whole
  <2>4. "discardMeta" \in PCs /\ "discardMeta" \in Plain
    BY DEF PCs, Plain
  <2>5. UserGoes("discardMeta") /\ UNCHANGED <<on, answer, disturbed>>
    BY <1>3, <2>4, UserSteps DEF Discard
  <2>6. answer = "none"
    BY <2>1 DEF At, Unanswered
  <2>7. QED
    BY <2>1, <2>3, <2>4, <2>5, <2>6, PlainKeeps DEF CallerTypes
<1>4. CASE DiscardMeta \/ RemoveMeta
  <2>1. PICK a \in {"ok", "miss"} : Return(User, a)
    BY <1>4 DEF DiscardMeta, RemoveMeta
  <2>2. FileTypes' /\ UNCHANGED <<entry, todo>>
    BY <1>4 DEF DiscardMeta, RemoveMeta, FileTypes
  <2>3. QED
    BY <2>1, <2>2, ReturnKeeps DEF CallerTypes, Whole
<1>5. CASE Remove
  <2>1. At("remove") /\ on \in Digest /\ on \in Items /\ UNCHANGED <<part, meta, todo>>
    BY <1>5, DigestsAreItems DEF Remove, At, Named
  <2>2. CASE Return(User, "error") /\ UNCHANGED entry
    BY <2>1, <2>2, ReturnKeeps DEF FileTypes, CallerTypes, Whole
  <2>3. CASE entry' = [entry EXCEPT ![on] = "none"] /\ Step(User, "removeMeta")
    <3>1. FileTypes' /\ \A d \in Digest : entry'[d] # "torn"
      BY <2>1, <2>3, DigestsAreItems DEF FileTypes, Contents, Whole
    <3>2. "removeMeta" \in PCs /\ "removeMeta" \in Plain
      BY DEF PCs, Plain
    <3>3. UserGoes("removeMeta") /\ UNCHANGED <<on, answer, disturbed>>
      BY <2>3, <3>2, UserSteps
    <3>4. answer = "none"
      BY <2>1 DEF At, Unanswered
    <3>5. QED
      BY <2>1, <3>1, <3>2, <3>3, <3>4, PlainKeeps DEF CallerTypes
  <2>4. CASE Step(User, "removeMeta") /\ UNCHANGED entry
    <3>1. "removeMeta" \in PCs /\ "removeMeta" \in Plain
      BY DEF PCs, Plain
    <3>2. UserGoes("removeMeta") /\ UNCHANGED <<on, answer, disturbed>> /\ answer = "none"
      BY <2>1, <2>4, <3>1, UserSteps DEF At, Unanswered
    <3>3. QED
      BY <2>1, <2>4, <3>1, <3>2, PlainKeeps DEF FileTypes, CallerTypes, Whole
  <2>5. QED
    BY <1>5, <2>2, <2>3, <2>4 DEF Remove
<1>6. QED
  BY <1>1, <1>2, <1>3, <1>4, <1>5

\* A list of files is one of the cache's.
LEMMA ListsAreFiles ==
  ASSUME FileTypes
  PROVE  /\ PartialFiles \in SUBSET ({"entry", "part", "meta"} \X Items)
         /\ PartialFiles \cup PackageFiles \cup MetaFiles
              \in SUBSET ({"entry", "part", "meta"} \X Items)
<1>2. PartialFiles \in SUBSET ({"entry", "part", "meta"} \X Items)
  BY DigestsAreItems DEF PartialFiles
<1>3. PackageFiles \in SUBSET ({"entry", "part", "meta"} \X Items)
  BY DigestsAreItems DEF PackageFiles, Packages
<1>4. MetaFiles \in SUBSET ({"entry", "part", "meta"} \X Items)
  BY DigestsAreItems DEF MetaFiles, FileTypes
<1>5. QED
  BY <1>2, <1>3, <1>4

LEMMA EnforcingKeeps ==
  ASSUME IInv,
         \/ EnforceLimits \/ Measure \/ Count \/ List \/ EvictMeta \/ EndOfEnforce
         \/ \E i \in Items : Evict(i)
  PROVE  IInv'
<1> USE DEF IInv
<1>0. "measure" \in Plain \cap PCs /\ "list" \in Plain \cap PCs /\ "count" \in Plain \cap PCs
      /\ "evict" \in Plain \cap PCs /\ "evictMeta" \in Plain \cap PCs /\ Subdir \in Items
  BY DEF Plain, PCs, Items
<1>1. CASE EnforceLimits
  <2>1. Begin(User, "measure", Subdir) /\ UNCHANGED <<entry, part, meta, todo>>
    BY <1>1 DEF EnforceLimits, files
  <2>2. UserGoes("measure") /\ on' = Subdir /\ answer' = "none" /\ disturbed' = FALSE
    BY <1>0, <2>1, UserSteps
  <2>3. QED
    BY <1>0, <2>1, <2>2, PlainKeeps DEF FileTypes, CallerTypes, Whole
<1>2. CASE Measure \/ Count
  <2>1. /\ (At("measure") \/ At("count")) /\ answer = "none"
        /\ UNCHANGED <<entry, part, meta, todo>> /\ disturbed' \in BOOLEAN
    BY <1>2 DEF Measure, Count, At, files, Sees, Unanswered, CallerTypes
  <2>2. CASE Answer(User, "ok")
    BY <2>1, <2>2, AnswerKeeps DEF FileTypes, CallerTypes, Whole
  <2>3. ASSUME NEW l \in {"count", "list"}, Goto(User, l), UNCHANGED <<on, answer>>
        PROVE  IInv'
    <3>1. UserGoes(l) /\ answer' = "none" /\ l \in Plain /\ on' \in Items
      BY <1>0, <2>1, <2>3, UserSteps DEF At, Unanswered, CallerTypes
    <3>2. QED
      BY <2>1, <3>1, PlainKeeps DEF FileTypes, CallerTypes, Whole
  <2>4. QED
    BY <1>2, <2>2, <2>3 DEF Measure, Count
<1>3. CASE List
  <2>1. PICK seen \in Readable(Listed) :
          /\ At("list") /\ UNCHANGED <<entry, part, meta, on, answer>>
          /\ Sees(seen, Listed) /\ todo' = [todo EXCEPT ![User] = {"entry"} \X seen]
          /\ Goto(User, "evict")
    BY <1>3 DEF List, At, files
  <2>2. UserGoes("evict") /\ answer = "none" /\ disturbed' \in BOOLEAN
    BY <1>0, <2>1, UserSteps DEF At, Unanswered, Sees, CallerTypes
  <2>3. {"entry"} \X seen \in SUBSET ({"entry", "part", "meta"} \X Items)
    BY SeenAreThere DEF Listed
  <2>4. todo' \in [Callers -> SUBSET ({"entry", "part", "meta"} \X Items)]
    BY <2>1, <2>3, UserIsCaller DEF CallerTypes
  <2>5. QED
    BY <1>0, <2>1, <2>2, <2>4, PlainKeeps DEF FileTypes, CallerTypes, Whole
<1>4. ASSUME NEW i \in Items, Evict(i) PROVE IInv'
  <2>1. /\ At("evict") /\ UNCHANGED <<part, meta, answer>> /\ on' = i
        /\ todo' = [todo EXCEPT ![User] = @ \ {<<"entry", i>>}]
        /\ Goto(User, "evictMeta")
    BY <1>4 DEF Evict, At
  <2>2. PICK done \in BOOLEAN :
          /\ entry' = IF done /\ i # Subdir THEN [entry EXCEPT ![i] = "none"] ELSE entry
          /\ disturbed' = (disturbed \/ ~done)
    BY <1>4, ConfigAssumption DEF Evict, Outcome
  <2>3. FileTypes' /\ \A d \in Digest : entry'[d] # "torn"
    BY <2>1, <2>2, DigestsAreItems DEF FileTypes, Contents, Whole
  <2>4. todo' \in [Callers -> SUBSET ({"entry", "part", "meta"} \X Items)]
    BY <2>1, UserIsCaller DEF CallerTypes
  <2>5. UserGoes("evictMeta")
    BY <1>0, <2>1, UserIsCaller DEF Goto, UserGoes, CallerTypes
  <2>6. answer' = "none"
    BY <2>1 DEF At, Unanswered
  <2>7. disturbed' \in BOOLEAN
    BY <2>2 DEF CallerTypes
  <2>8. QED
    BY <1>0, <2>1, <2>3, <2>4, <2>5, <2>6, <2>7, PlainKeeps
<1>5. CASE EvictMeta
  <2>1. At("evictMeta") /\ UNCHANGED <<entry, part, todo>> /\ FileTypes'
    BY <1>5 DEF EvictMeta, At, FileTypes
  <2>2. UserGoes("evict") /\ UNCHANGED <<on, answer, disturbed>> /\ answer = "none"
    BY <1>0, <1>5, <2>1, UserSteps DEF EvictMeta, At, Unanswered
  <2>3. QED
    BY <1>0, <2>1, <2>2, PlainKeeps DEF CallerTypes, Whole
<1>6. CASE EndOfEnforce
  <2>1. /\ Return(User, "ok") /\ UNCHANGED <<entry, part, meta>>
        /\ todo' = [todo EXCEPT ![User] = {}]
    BY <1>6 DEF EndOfEnforce, files
  <2>2. todo' \in [Callers -> SUBSET ({"entry", "part", "meta"} \X Items)]
    BY <2>1 DEF CallerTypes
  <2>3. QED
    BY <2>1, <2>2, ReturnKeeps DEF FileTypes, Whole
<1>7. QED
  BY <1>1, <1>2, <1>3, <1>4, <1>5, <1>6

\* A step that removes at most files, and leaves the user where it is.
LEMMA RemovingKeeps ==
  ASSUME IInv, CallerTypes', FileTypes', UNCHANGED <<on, answer>>, pc'[User] = pc[User],
         \A i \in Items : entry'[i] \in {entry[i], "none"},
         \A d \in Digest : part'[d] \in {part[d], "none"},
         At("describe") => disturbed' \/ (disturbed' = disturbed /\ entry'[on] = entry[on])
  PROVE  IInv'
<1>1. Named' /\ Unanswered'
  BY DEF IInv, Named, Unanswered
<1>2. Whole'
  BY <1>1, DigestsAreItems DEF IInv, Whole, At, Named
<1>3. Wrong'
  BY DEF IInv, Wrong, At, CallerTypes
<1>4. Stored'
  BY DEF IInv, Stored, At
<1>5. QED
  BY <1>1, <1>2, <1>3, <1>4 DEF IInv

LEMMA ClearingKeeps ==
  ASSUME IInv,
         CleanupPartials \/ \E c \in Callers : Clear(c) \/ RemoveNext(c) \/ EndOfRemoval(c)
  PROVE  IInv'
<1> USE DEF IInv
<1>0. {"cleanup", "clear"} \subseteq Plain \cap PCs /\ Subdir \in Items
  BY DEF Plain, PCs, Items
<1>1. ASSUME NEW l \in {"cleanup", "clear"}, Begin(User, l, Subdir),
             UNCHANGED <<entry, part, meta>>,
             todo' \in [Callers -> SUBSET ({"entry", "part", "meta"} \X Items)]
      PROVE  IInv'
  <2>1. l \in PCs /\ l \in Plain
    BY <1>0
  <2>2. UserGoes(l) /\ on' = Subdir /\ answer' = "none" /\ disturbed' = FALSE
    BY <1>1, <2>1, UserSteps
  <2>3. QED
    BY <1>0, <1>1, <2>1, <2>2, PlainKeeps DEF FileTypes, CallerTypes, Whole
<1>2. CASE CleanupPartials
  <2>1. todo' \in [Callers -> SUBSET ({"entry", "part", "meta"} \X Items)]
    BY <1>2, ListsAreFiles, SeenAreThere, UserIsCaller DEF CleanupPartials, CallerTypes
  <2>2. QED
    BY <1>1, <1>2, <2>1 DEF CleanupPartials, files
<1>3. ASSUME NEW c \in Callers, Clear(c) PROVE IInv'
  <2>1. /\ Begin(c, "clear", Subdir) /\ UNCHANGED <<entry, part, meta>>
        /\ todo' \in [Callers -> SUBSET ({"entry", "part", "meta"} \X Items)]
    BY <1>3, ListsAreFiles, SeenAreThere DEF Clear, files, CallerTypes
  <2>2. CASE c = User
    BY <1>1, <2>1, <2>2
  <2>3. CASE c # User
    <3>1. /\ pc' = [pc EXCEPT ![c] = "clear"] /\ UNCHANGED <<on, answer, disturbed>>
          /\ c \in Clearers
      BY <2>1, <2>3 DEF Begin, Goto, Callers, CallerTypes
    <3>2. CallerTypes' /\ FileTypes' /\ pc'[User] = pc[User]
      BY <1>0, <2>1, <2>3, <3>1, UserIsCaller DEF CallerTypes, FileTypes
    <3>3. QED
      BY <2>1, <3>1, <3>2, RemovingKeeps
  <2>4. QED
    BY <2>2, <2>3
<1>4. ASSUME NEW c \in Callers, EndOfRemoval(c) PROVE IInv'
  <2>1. Return(c, "ok") /\ UNCHANGED <<entry, part, meta, todo>>
    BY <1>4 DEF EndOfRemoval, files
  <2>2. CASE c = User
    BY <2>1, <2>2, ReturnKeeps DEF FileTypes, CallerTypes, Whole
  <2>3. CASE c # User
    <3>1. /\ pc' = [pc EXCEPT ![c] = "idle"] /\ UNCHANGED <<on, answer>>
          /\ disturbed' = disturbed /\ c \in Clearers
      BY <2>1, <2>3 DEF Return, Answer, Goto, Callers, CallerTypes
    <3>2. CallerTypes' /\ FileTypes' /\ pc'[User] = pc[User]
      BY <2>1, <2>3, <3>1, UserIsCaller DEF CallerTypes, FileTypes, PCs
    <3>3. QED
      BY <2>1, <3>1, <3>2, RemovingKeeps
  <2>4. QED
    BY <2>2, <2>3
<1>5. ASSUME NEW c \in Callers, RemoveNext(c) PROVE IInv'
  <2> DEFINE f == CHOOSE g \in todo[c] : TRUE
  <2>1. PICK done \in BOOLEAN :
          /\ todo' = [todo EXCEPT ![c] = @ \ {f}]
          /\ entry' = IF done /\ f[1] = "entry" THEN [entry EXCEPT ![f[2]] = "none"] ELSE entry
          /\ part' = IF done /\ f[1] = "part" THEN [part EXCEPT ![f[2]] = "none"] ELSE part
          /\ meta' = IF done /\ f[1] = "meta" THEN meta \ {f[2]} ELSE meta
          /\ disturbed' = (disturbed \/ (pc[User] # "idle" /\ (c # User \/ ~done)))
    BY <1>5, ConfigAssumption DEF RemoveNext, Outcome
  <2>2. pc[c] \in {"cleanup", "clear"} /\ UNCHANGED <<pc, on, answer>>
    BY <1>5 DEF RemoveNext
  <2> HIDE DEF f
  <2>3. todo' \in [Callers -> SUBSET ({"entry", "part", "meta"} \X Items)]
    BY <2>1 DEF CallerTypes
  <2>4. disturbed' \in BOOLEAN
    BY <2>1 DEF CallerTypes
  <2>5. CallerTypes'
    BY <2>2, <2>3, <2>4 DEF CallerTypes
  <2>6. FileTypes'
    BY <2>1 DEF FileTypes, Contents
  <2>7. /\ \A i \in Items : entry'[i] \in {entry[i], "none"}
        /\ \A d \in Digest : part'[d] \in {part[d], "none"}
    BY <2>1 DEF FileTypes
  <2>8. At("describe") => disturbed'
    BY <2>1, <2>2 DEF At, CallerTypes
  <2>9. QED
    BY <2>2, <2>5, <2>6, <2>7, <2>8, RemovingKeeps
<1>6. QED
  BY <1>2, <1>3, <1>4, <1>5

LEMMA NextKeeps == IInv /\ [Next]_vars => IInv'
<1>1. SUFFICES ASSUME IInv, [Next]_vars PROVE IInv'
  OBVIOUS
<1>2. ASSUME NEW d \in Digest, Rot(d) PROVE IInv'
  <2>1. /\ entry[d] = "right" /\ entry' = [entry EXCEPT ![d] = "wrong"]
        /\ UNCHANGED <<part, meta, pc, on, todo, answer, disturbed>>
    BY <1>2 DEF Rot
  <2>2. FileTypes' /\ CallerTypes'
    BY <1>1, <2>1 DEF IInv, FileTypes, CallerTypes, Contents
  <2>3. /\ \A i \in Items : entry'[i] = entry[i] \/ (entry[i] = "right" /\ entry'[i] = "wrong")
    BY <1>1, <2>1 DEF IInv, FileTypes
  <2>4. QED
    BY <1>1, <2>1, <2>2, <2>3, DigestsAreItems
       DEF IInv, Named, Whole, Wrong, Stored, Unanswered, At, Exists, CallerTypes
<1>3. CASE Crash
  <2>1. /\ UNCHANGED <<entry, part, meta>> /\ pc' = [c \in Callers |-> "idle"]
        /\ todo' = [c \in Callers |-> {}] /\ on' = Subdir /\ answer' = "none"
        /\ disturbed' = FALSE
    BY <1>3 DEF Crash, files
  <2>2. FileTypes' /\ CallerTypes' /\ pc'[User] = "idle"
    BY <1>1, <2>1, UserIsCaller DEF IInv, FileTypes, CallerTypes, Items, PCs
  <2>3. QED
    BY <1>1, <2>1, <2>2 DEF IInv, Named, Whole, Wrong, Stored, Unanswered, At
<1>4. CASE UNCHANGED vars
  BY <1>1, <1>4 DEF vars, files, IInv, FileTypes, CallerTypes, Named, Whole, Wrong, Stored,
                    Unanswered, At
<1>5. ASSUME NEW c \in Callers, Clear(c) \/ Goes(c) PROVE IInv'
  BY <1>1, <1>5, StoringKeeps, LookingUpKeeps, EnforcingKeeps, ClearingKeeps DEF Goes
<1>6. QED
  BY <1>1, <1>2, <1>3, <1>4, <1>5, StoringKeeps, LookingUpKeeps, EnforcingKeeps,
     ClearingKeeps DEF Next

-----------------------------------------------------------------------------
\* Files, callers and what each step of a call knows of its package.
THEOREM Invariance == Spec => []IInv
BY InitEstablishes, NextKeeps, PTL DEF Spec

\* No package file is ever one written in part: finalize renames a whole one.
THEOREM EntriesStayWhole == Spec => []EntriesAreWhole
<1>1. IInv => EntriesAreWhole
  BY DEF IInv, Whole, EntriesAreWhole
<1>2. QED
  BY <1>1, Invariance, PTL

\* A package written right is lost only to a call that is to remove files.
THEOREM NothingGetsLost == Spec => NothingIsLost
<1> DEFINE Kept ==
      \A d \in Digest :
       Right(d) /\ ~Right(d)' =>
         \/ Removing(<<"entry", d>>) \/ Removing(<<"part", d>>)
         \/ Exists(entry[d])'
<1>1. ASSUME IInv, [Next]_vars, NEW d \in Digest, Right(d), ~Right(d)', ~Exists(entry[d])'
      PROVE  Removing(<<"entry", d>>) \/ Removing(<<"part", d>>)
  <2>1. IInv /\ d \in Items /\ d # Subdir /\ User \in Callers
    BY <1>1, DigestsAreItems, UserIsCaller
  <2>2. UNCHANGED <<entry, part>> => FALSE
    BY <1>1 DEF Right
  <2>3. CASE \E e \in Digest : Stage(e)
    BY <1>1, <2>1, <2>3, UserSteps DEF IInv, Stage, Begin, Right, Exists, Removing, FileTypes
  <2>4. CASE Write
    BY <1>1, <2>1, <2>4 DEF IInv, Write, At, Whole, Right, Exists, Named, FileTypes
  <2>5. CASE Rename
    BY <1>1, <2>1, <2>5 DEF IInv, Rename, At, Named, Right, Exists, FileTypes
  <2>6. CASE Discard
    <3>1. entry' = [entry EXCEPT ![on] = "none"] /\ part' = part /\ entry[on] # "right"
      BY <2>1, <2>2, <2>6 DEF Discard, IInv, Wrong, At
    <3>2. QED
      BY <1>1, <2>1, <3>1 DEF Right, IInv, FileTypes
  <2>7. CASE Remove
    BY <1>1, <2>1, <2>7 DEF Remove, Right, Removing, IInv, FileTypes
  <2>8. ASSUME NEW i \in Items, Evict(i)
        PROVE  Removing(<<"entry", d>>) \/ Removing(<<"part", d>>)
    BY <1>1, <2>1, <2>8 DEF Evict, Right, Removing, IInv, FileTypes
  <2>9. ASSUME NEW c \in Callers, RemoveNext(c)
        PROVE  Removing(<<"entry", d>>) \/ Removing(<<"part", d>>)
    <3> DEFINE f == CHOOSE g \in todo[c] : TRUE
    <3>1. f \in todo[c] /\ pc[c] \in {"cleanup", "clear"}
      BY <2>9 DEF RemoveNext
    <3>2. /\ entry' = entry \/ (f[1] = "entry" /\ entry' = [entry EXCEPT ![f[2]] = "none"])
          /\ part' = part \/ (f[1] = "part" /\ part' = [part EXCEPT ![f[2]] = "none"])
      BY <2>9 DEF RemoveNext
    <3> HIDE DEF f
    <3>3. f \in {"entry", "part", "meta"} \X Items
      BY <2>1, <3>1 DEF IInv, CallerTypes
    <3>4. f = <<"entry", d>> \/ f = <<"part", d>>
      BY <1>1, <2>1, <3>2, <3>3 DEF Right, IInv, FileTypes
    <3>5. QED
      BY <3>1, <3>4 DEF Removing
  <2>10. CASE \E e \in Digest : Rot(e)
    BY <1>1, <2>1, <2>10 DEF Rot, Right, Exists, IInv, FileTypes
  <2>11. CASE \/ \E e \in Digest : Verify(e) \/ RemoveEntry(e)
              \/ Finalize \/ Describe \/ Hash \/ DiscardMeta \/ RemoveMeta
              \/ EnforceLimits \/ Measure \/ Count \/ List \/ EvictMeta \/ EndOfEnforce
              \/ CleanupPartials \/ Crash \/ UNCHANGED vars
              \/ \E c \in Callers : Clear(c) \/ EndOfRemoval(c)
    BY <2>2, <2>11 DEF Verify, RemoveEntry, Finalize, Describe, Hash, DiscardMeta, RemoveMeta,
          EnforceLimits, Measure, Count, List, EvictMeta, EndOfEnforce, CleanupPartials, Crash,
          Clear, EndOfRemoval, vars, files
  <2>12. QED
    BY <1>1, <2>3, <2>4, <2>5, <2>6, <2>7, <2>8, <2>9, <2>10, <2>11 DEF Next, Goes
<1>2. IInv /\ [Next]_vars => [Kept]_vars
  BY <1>1
<1>3. QED
  BY <1>2, Invariance, PTL DEF Spec, NothingIsLost

\* A finalize that returns Ok leaves a described package, unless files were
\* removed meanwhile.
THEOREM StoredAreDescribed == Spec => StoredIsDescribed
<1> DEFINE Described ==
      pc[User] = "describe" /\ answer' = "ok" =>
        on \in meta' /\ (Exists(entry'[on]) \/ disturbed)
<1>1. IInv /\ [Next]_vars => [Described]_vars
  <2>1. SUFFICES ASSUME IInv, Next, pc[User] = "describe", answer' = "ok"
                 PROVE  on \in meta' /\ (Exists(entry'[on]) \/ disturbed)
    OBVIOUS
  <2>2. answer = "none" /\ on \in Digest
    BY <2>1 DEF IInv, Unanswered, Named
  <2>3. Describe
    BY <2>1, <2>2 DEF Next, Goes, Stage, Verify, RemoveEntry, Rot, EnforceLimits,
       CleanupPartials, Clear, Crash, Write, Finalize, Rename, Hash, Discard, DiscardMeta,
       Remove, RemoveMeta, Measure, Count, List, EvictMeta, EndOfEnforce, Evict, RemoveNext,
       EndOfRemoval, Begin, Return, Answer, Step
  <2>4. entry' = entry /\ (Return(User, "ok") => on \in meta')
    BY <2>2, <2>3 DEF Describe, Return, Answer
  <2>5. QED
    BY <2>1, <2>3, <2>4 DEF Describe, Return, Answer, IInv, Stored, At
<1>2. QED
  BY <1>1, Invariance, PTL DEF Spec, StoredIsDescribed

-----------------------------------------------------------------------------
(***************************************************************************)
(* Sums of sizes.  current_cache_size is a recursive function; that there  *)
(* is one, and what it does with a member of the set, follows from a       *)
(* smallest set for which it would not be so.                              *)
(***************************************************************************)
SumOf(S) == MapThenSumSet(LAMBDA i : Size[i], S)

Minimal(T, F) == \A U \in F : U \subseteq T => U = T

\* Of some subsets of a finite set one has no other in it.
LEMMA SmallestSubset ==
  ASSUME NEW S, IsFiniteSet(S), NEW F \in SUBSET SUBSET S, F # {}
  PROVE  \E T \in F : Minimal(T, F)
<1>1. F \subseteq FiniteSubsetsOf(S)
  BY FS_FiniteSubsetsOfFinite
<1>2. IsWellFoundedOn(StrictSubsetOrdering(S), FiniteSubsetsOf(S))
  BY FS_StrictSubsetOrderingWellFounded
<1>3. PICK T \in F : \A U \in F : ~(<<U, T>> \in StrictSubsetOrdering(S))
  BY <1>1, <1>2, WFMin
<1>4. ASSUME NEW U \in F, U \subseteq T, U # T PROVE FALSE
  <2>1. <<U, T>> \in StrictSubsetOrdering(S)
    BY <1>4 DEF StrictSubsetOrdering
  <2>2. QED
    BY <1>3, <2>1
<1>5. Minimal(T, F)
  BY <1>4 DEF Minimal
<1>6. QED
  BY <1>5

Chosen(s) == CHOOSE x \in s : TRUE

\* g gives each subset of S the sum of its sizes.
Adds(g, S) ==
  g = [s \in SUBSET S |-> IF s = {} THEN 0 ELSE Size[Chosen(s)] + g[s \ {Chosen(s)}]]
Sums(S) == CHOOSE g : Adds(g, S)

LEMMA SumOfIs == \A S : SumOf(S) = Sums(S)[S]
BY DEF SumOf, MapThenSumSet, MapThenFoldSet, Sums, Adds, Chosen

LEMMA SumsAgree ==
  ASSUME NEW S, IsFiniteSet(S), NEW R, R \subseteq S,
         NEW g, Adds(g, S), NEW h, Adds(h, R)
  PROVE  \A s \in SUBSET R : g[s] = h[s]
<1>1. SUFFICES ASSUME NEW s \in SUBSET R, g[s] # h[s] PROVE FALSE
  OBVIOUS
<1> DEFINE F == {t \in SUBSET R : g[t] # h[t]}
<1>2. F \in SUBSET SUBSET S /\ F # {}
  BY <1>1
<1> HIDE DEF F
<1>3. PICK T \in F : Minimal(T, F)
  BY <1>2, SmallestSubset
<1>4. T \in SUBSET S /\ T \in SUBSET R /\ g[T] # h[T]
  BY <1>3 DEF F
<1>5. T # {}
  BY <1>4 DEF Adds
<1>6. Chosen(T) \in T
  BY <1>5 DEF Chosen
<1>7. g[T \ {Chosen(T)}] = h[T \ {Chosen(T)}]
  BY <1>3, <1>4, <1>6 DEF F, Minimal
<1>8. /\ g[T] = Size[Chosen(T)] + g[T \ {Chosen(T)}]
      /\ h[T] = Size[Chosen(T)] + h[T \ {Chosen(T)}]
  BY <1>4, <1>5 DEF Adds
<1>9. QED
  BY <1>4, <1>7, <1>8

LEMMA SumsExist ==
  ASSUME NEW S, IsFiniteSet(S)
  PROVE  Adds(Sums(S), S)
<1> DEFINE F == {T \in SUBSET S : ~\E g : Adds(g, T)}
<1>1. SUFFICES ASSUME F # {} PROVE FALSE
  <2>1. S \in SUBSET S
    OBVIOUS
  <2>2. QED
    BY <2>1 DEF Sums
<1>2. PICK T \in F : Minimal(T, F)
  <2>1. F \in SUBSET SUBSET S
    OBVIOUS
  <2> HIDE DEF F
  <2>2. QED
    BY <1>1, <2>1, SmallestSubset
<1>3. \A U \in SUBSET T : U # T => Adds(Sums(U), U)
  BY <1>2 DEF Sums, Minimal
<1> DEFINE Without(s) == s \ {Chosen(s)}
           sum(s) == IF s = {} THEN 0 ELSE Size[Chosen(s)] + Sums(Without(s))[Without(s)]
           g == [s \in SUBSET T |-> sum(s)]
<1>4. ASSUME NEW s \in SUBSET T, s # {}
      PROVE  g[Without(s)] = Sums(Without(s))[Without(s)]
  <2> DEFINE r == Without(s)
             q == Without(r)
  <2>1. Chosen(s) \in s /\ r \in SUBSET T /\ r # T
    BY <1>4 DEF Chosen
  <2>2. Adds(Sums(r), r) /\ r \in SUBSET r
    BY <1>3, <2>1
  <2>3. g[r] = sum(r)
    BY <2>1
  <2>4. CASE r = {}
    <3>1. Sums(r)[r] = 0
      BY <2>2, <2>4 DEF Adds
    <3>2. QED
      BY <2>3, <2>4, <3>1
  <2>5. CASE r # {}
    <3>1. Chosen(r) \in r /\ q \in SUBSET T /\ q # T /\ IsFiniteSet(r)
      BY <2>1, <2>5, FS_Subset DEF Chosen
    <3>2. Sums(r)[r] = Size[Chosen(r)] + Sums(r)[q]
      BY <2>2, <2>5 DEF Adds
    <3>3. Adds(Sums(q), q)
      BY <1>3, <3>1
    <3>4. Sums(r)[q] = Sums(q)[q]
      <4>1. q \subseteq r /\ q \in SUBSET q
        OBVIOUS
      <4> HIDE DEF q, r, Without
      <4>2. QED
        BY <2>2, <3>1, <3>3, <4>1, SumsAgree
    <3>5. QED
      BY <2>3, <2>5, <3>2, <3>4
  <2>6. QED
    BY <2>4, <2>5
<1>5. g = [s \in SUBSET T |-> IF s = {} THEN 0 ELSE Size[Chosen(s)] + g[s \ {Chosen(s)}]]
  BY <1>4
<1>6. QED
  BY <1>2, <1>5 DEF Adds

LEMMA SumOfEmpty == SumOf({}) = 0
<1>1. Adds(Sums({}), {}) /\ {} \in SUBSET {}
  BY FS_EmptySet, SumsExist
<1>2. Sums({})[{}] = 0
  BY <1>1 DEF Adds
<1>3. QED
  BY <1>2, SumOfIs

LEMMA SumOfChosen ==
  ASSUME NEW S, IsFiniteSet(S), S # {}
  PROVE  SumOf(S) = Size[Chosen(S)] + SumOf(S \ {Chosen(S)})
<1> DEFINE R == S \ {Chosen(S)}
<1>1. IsFiniteSet(R) /\ R \subseteq S /\ R \in SUBSET R /\ S \in SUBSET S
  BY FS_Subset
<1>2. Sums(S)[S] = Size[Chosen(S)] + Sums(S)[R]
  BY <1>1, SumsExist DEF Adds
<1>3. Sums(S)[R] = Sums(R)[R]
  <2> HIDE DEF R
  <2>1. QED
    BY <1>1, SumsExist, SumsAgree
<1>4. QED
  BY <1>2, <1>3, SumOfIs

LEMMA SumOfNat ==
  ASSUME NEW S \in SUBSET Items, IsFiniteSet(S)
  PROVE  SumOf(S) \in Nat
<1> DEFINE F == {T \in SUBSET S : SumOf(T) \notin Nat}
<1>1. SUFFICES ASSUME F # {} PROVE FALSE
  <2>1. S \in SUBSET S
    OBVIOUS
  <2>2. QED
    BY <2>1
<1>2. F \in SUBSET SUBSET S
  OBVIOUS
<1> HIDE DEF F
<1>3. PICK T \in F : Minimal(T, F)
  BY <1>1, <1>2, SmallestSubset
<1>4. T \in SUBSET S /\ SumOf(T) \notin Nat /\ IsFiniteSet(T) /\ T # {}
  <2>1. T \in SUBSET S /\ SumOf(T) \notin Nat
    BY <1>3 DEF F
  <2>2. IsFiniteSet(T)
    BY <2>1, FS_Subset
  <2>3. QED
    BY <2>1, <2>2, SumOfEmpty
<1>5. Chosen(T) \in T
  BY <1>4 DEF Chosen
<1>6. SumOf(T \ {Chosen(T)}) \in Nat
  BY <1>3, <1>4, <1>5 DEF F, Minimal
<1>7. Size[Chosen(T)] \in Nat
  BY <1>4, <1>5, ConfigAssumption
<1>8. QED
  BY <1>4, <1>6, <1>7, SumOfChosen

\* Any member can be taken off a sum.
LEMMA SumOfMember ==
  ASSUME NEW S \in SUBSET Items, IsFiniteSet(S), NEW x \in S
  PROVE  SumOf(S) = Size[x] + SumOf(S \ {x})
<1> DEFINE F == {T \in SUBSET S : \E y \in T : SumOf(T) # Size[y] + SumOf(T \ {y})}
<1>1. SUFFICES ASSUME F # {} PROVE FALSE
  <2>1. S \in SUBSET S
    OBVIOUS
  <2>2. QED
    BY <2>1
<1>2. F \in SUBSET SUBSET S
  OBVIOUS
<1> HIDE DEF F
<1>3. PICK T \in F : Minimal(T, F)
  BY <1>1, <1>2, SmallestSubset
<1>4. PICK y \in T : SumOf(T) # Size[y] + SumOf(T \ {y})
  BY <1>3 DEF F
<1>5. T \in SUBSET S /\ IsFiniteSet(T)
  BY <1>3, FS_Subset DEF F
<1> DEFINE c == Chosen(T)
<1>6. c \in T /\ SumOf(T) = Size[c] + SumOf(T \ {c})
  BY <1>4, <1>5, SumOfChosen DEF Chosen
<1> HIDE DEF c
<1>7. c # y
  BY <1>4, <1>6
<1>8. T \ {c} \notin F /\ T \ {y} \notin F
  BY <1>3, <1>4, <1>6 DEF Minimal
<1>9. /\ SumOf(T \ {c}) = Size[y] + SumOf((T \ {c}) \ {y})
      /\ SumOf(T \ {y}) = Size[c] + SumOf((T \ {y}) \ {c})
  BY <1>4, <1>5, <1>6, <1>7, <1>8 DEF F
<1>10. (T \ {c}) \ {y} = (T \ {y}) \ {c}
  OBVIOUS
<1>11. /\ SumOf((T \ {y}) \ {c}) \in Nat /\ Size[c] \in Nat /\ Size[y] \in Nat
  BY <1>4, <1>5, <1>6, SumOfNat, FS_Subset, ConfigAssumption
<1>12. \A a, b, n \in Nat : a + (b + n) = b + (a + n)
  OBVIOUS
<1> DEFINE n == SumOf((T \ {y}) \ {c})
<1>13. SumOf(T) = Size[c] + (Size[y] + n) /\ SumOf(T \ {y}) = Size[c] + n
  BY <1>6, <1>9, <1>10
<1> HIDE DEF n
<1>14. QED
  BY <1>4, <1>11, <1>12, <1>13 DEF n

-----------------------------------------------------------------------------
(***************************************************************************)
(* What enforce_limits believes                                            *)
(***************************************************************************)
Counters == total \in Nat /\ left \in Nat

\* The directory of downloads is listed and measured, but never removed.
DirectoryStays ==
  /\ Exists(entry[Subdir])
  /\ \A c \in Callers : pc[c] \in {"cleanup", "clear"} => <<"entry", Subdir>> \notin todo[c]

PartialsOnly == pc[User] = "cleanup" => todo[User] \subseteq {"part"} \X Digest

\* The entries it has listed and not come to.
Waiting == {i \in Items : <<"entry", i>> \in todo[User]}

\* Unless somebody removed something, a removal failed or a file was overlooked,
\* the packages that are there are those it has not come to; it counts as many
\* as these, and believes in no fewer bytes than theirs.
Believed ==
  /\ At("count") => total <= MaxSize
  /\ (At("count") \/ At("list")) /\ ~disturbed => total = SumOf(Listed)
  /\ (At("evict") \/ At("evictMeta")) /\ ~disturbed =>
       /\ Waiting \subseteq Listed /\ Packages \subseteq Waiting
       /\ total >= SumOf(Waiting) /\ left = Cardinality(Waiting)

LInv == Counters /\ DirectoryStays /\ PartialsOnly /\ Believed

LEMMA SetsAreFinite ==
  \A S \in SUBSET Items : IsFiniteSet(S) /\ Cardinality(S) \in Nat /\ SumOf(S) \in Nat
<1>1. IsFiniteSet(Items)
  BY NamesAssumption, FS_AddElement DEF Items
<1>2. ASSUME NEW S \in SUBSET Items PROVE IsFiniteSet(S)
  BY <1>1, FS_Subset
<1>3. QED
  BY <1>2, FS_CardinalityType, SumOfNat

LEMMA MeasuresAreSums ==
  /\ Listed \in SUBSET Items
  /\ \A seen \in Readable(Listed) :
       seen \in SUBSET Items /\ current_cache_size(seen) = SumOf(seen)
<1>1. Listed \in SUBSET Items
  BY DEF Listed
<1>2. QED
  BY <1>1, SeenAreThere DEF current_cache_size, SumOf

LEMMA LimitsInit == Init => LInv
<1> SUFFICES ASSUME Init PROVE LInv
  OBVIOUS
<1>1. pc[User] = "idle" /\ \A c \in Callers : pc[c] = "idle"
  BY UserIsCaller DEF Init
<1>2. QED
  BY <1>1 DEF Init, LInv, Counters, DirectoryStays, PartialsOnly, Believed, At, Exists, Items

LEMMA CountersKeep == Counters /\ [Next]_vars => Counters'
<1> SUFFICES ASSUME Counters, [Next]_vars PROVE Counters'
  OBVIOUS
<1> USE DEF Counters
<1>1. CASE Measure
  BY <1>1, MeasuresAreSums, SetsAreFinite DEF Measure
<1>2. CASE List
  BY <1>2, MeasuresAreSums, SetsAreFinite DEF List
<1>3. ASSUME NEW i \in Items, Evict(i) PROVE Counters'
  <2>1. /\ total' \in {total, IF Size[i] < total THEN total - Size[i] ELSE 0}
        /\ left' = IF left = 0 THEN 0 ELSE left - 1
    BY <1>3 DEF Evict
  <2>2. Size[i] \in Nat
    BY ConfigAssumption
  <2>3. QED
    BY <2>1, <2>2
<1>4. CASE EndOfEnforce \/ Crash \/ Count
  BY <1>4 DEF EndOfEnforce, Crash, Count
<1>5. CASE UNCHANGED loop
  BY <1>5 DEF loop
<1>6. Next => \/ Measure \/ Count \/ List \/ EndOfEnforce \/ Crash \/ UNCHANGED loop
              \/ \E i \in Items : Evict(i)
  BY DEF Next, Goes, Stage, Verify, RemoveEntry, Rot, EnforceLimits, CleanupPartials, Clear,
     Write, Finalize, Rename, Describe, Hash, Discard, DiscardMeta, Remove, RemoveMeta,
     EvictMeta, RemoveNext, EndOfRemoval, loop
<1>7. QED
  BY <1>1, <1>2, <1>3, <1>4, <1>5, <1>6 DEF vars

\* The files a removal takes.
LEMMA DirectoryIsNotListed ==
  /\ <<"entry", Subdir>> \notin PartialFiles \cup PackageFiles \cup MetaFiles
  /\ <<"entry", Subdir>> \notin PartialFiles
  /\ PartialFiles \subseteq {"part"} \X Digest
BY DigestsAreItems DEF PartialFiles, PackageFiles, MetaFiles, Packages

\* A step that leaves the lists as they are and begins no removal.
LEMMA NoNewRemoval ==
  ASSUME DirectoryStays, PartialsOnly, Exists(entry'[Subdir]),
         \A c \in Callers : todo'[c] \subseteq todo[c],
         \A c \in Callers : pc'[c] \in {"cleanup", "clear"} => pc'[c] = pc[c]
  PROVE  DirectoryStays' /\ PartialsOnly'
BY UserIsCaller DEF DirectoryStays, PartialsOnly

LEMMA DirectoryKeeps ==
  IInv /\ DirectoryStays /\ PartialsOnly /\ [Next]_vars => DirectoryStays' /\ PartialsOnly'
<1> SUFFICES ASSUME IInv, DirectoryStays, PartialsOnly, [Next]_vars
             PROVE  DirectoryStays' /\ PartialsOnly'
  OBVIOUS
<1>0. /\ CallerTypes /\ FileTypes /\ Exists(entry[Subdir]) /\ Subdir \in Items
  BY DEF IInv, DirectoryStays, Items
<1>1. CASE CleanupPartials \/ \E c \in Callers : Clear(c)
  <2>1. PICK c \in Callers, l \in {"cleanup", "clear"} :
          \E seen :
            /\ l = "cleanup" => c = User /\ seen \subseteq PartialFiles
            /\ seen \subseteq PartialFiles \cup PackageFiles \cup MetaFiles
            /\ Begin(c, l, Subdir) /\ UNCHANGED entry /\ todo' = [todo EXCEPT ![c] = seen]
    <3>1. CASE CleanupPartials
      <4>1. PICK seen \in Readable(PartialFiles) : todo' = [todo EXCEPT ![User] = seen]
        BY <3>1 DEF CleanupPartials
      <4>2. seen \subseteq PartialFiles
        BY SeenAreThere
      <4>3. QED
        BY <3>1, <4>1, <4>2, UserIsCaller DEF CleanupPartials, files
    <3>2. ASSUME NEW c \in Callers, Clear(c)
          PROVE  \E seen :
                   /\ seen \subseteq PartialFiles \cup PackageFiles \cup MetaFiles
                   /\ Begin(c, "clear", Subdir) /\ UNCHANGED entry
                   /\ todo' = [todo EXCEPT ![c] = seen]
      BY <3>2, SeenAreThere DEF Clear, files
    <3>3. QED
      BY <1>1, <3>1, <3>2
  <2>2. /\ pc' = [pc EXCEPT ![c] = l]
        /\ <<"entry", Subdir>> \notin todo'[c]
        /\ l = "cleanup" => todo'[c] \subseteq {"part"} \X Digest
        /\ \A b \in Callers : b # c => todo'[b] = todo[b]
    BY <1>0, <2>1, DirectoryIsNotListed DEF Begin, Goto, CallerTypes
  <2>3. QED
    BY <1>0, <2>1, <2>2, UserIsCaller DEF DirectoryStays, PartialsOnly, CallerTypes
<1>2. ASSUME NEW c \in Callers, RemoveNext(c) PROVE DirectoryStays' /\ PartialsOnly'
  <2> DEFINE f == CHOOSE g \in todo[c] : TRUE
  <2>1. f \in todo[c] /\ pc[c] \in {"cleanup", "clear"} /\ pc' = pc
        /\ todo' = [todo EXCEPT ![c] = @ \ {f}]
    BY <1>2 DEF RemoveNext
  <2>2. entry' = entry \/ (f[1] = "entry" /\ entry' = [entry EXCEPT ![f[2]] = "none"])
    BY <1>2 DEF RemoveNext
  <2> HIDE DEF f
  <2>3. f \in {"entry", "part", "meta"} \X Items /\ f # <<"entry", Subdir>>
    BY <1>0, <2>1 DEF CallerTypes, DirectoryStays
  <2>4. entry'[Subdir] = entry[Subdir]
    BY <1>0, <2>2, <2>3 DEF FileTypes
  <2>5. \A b \in Callers : todo'[b] \subseteq todo[b]
    BY <1>0, <2>1 DEF CallerTypes
  <2>6. QED
    BY <1>0, <2>1, <2>4, <2>5, NoNewRemoval
<1>3. ASSUME NEW c \in Callers, EndOfRemoval(c) PROVE DirectoryStays' /\ PartialsOnly'
  <2>1. pc' = [pc EXCEPT ![c] = "idle"] /\ UNCHANGED <<entry, todo>>
    BY <1>3 DEF EndOfRemoval, Return, Answer, Goto, files
  <2>2. QED
    BY <1>0, <2>1, NoNewRemoval DEF CallerTypes
<1>4. CASE Rename \/ Discard \/ Remove \/ \E d \in Digest : Rot(d)
  <2>1. \E d \in Digest : entry' = entry \/ \E f : entry' = [entry EXCEPT ![d] = f]
    BY <1>4 DEF Rename, Discard, Remove, Rot, IInv, Named
  <2>2. entry'[Subdir] = entry[Subdir]
    BY <1>0, <2>1, DigestsAreItems DEF FileTypes
  <2>3. todo' = todo /\ \E l \in PCs \ {"cleanup", "clear"} :
                          pc' = pc \/ pc' = [pc EXCEPT ![User] = l]
    BY <1>4 DEF Rename, Discard, Remove, Rot, Step, Return, Answer, Goto, PCs
  <2>4. QED
    BY <1>0, <2>2, <2>3, NoNewRemoval DEF CallerTypes
<1>5. CASE \/ \E d \in Digest : Stage(d) \/ Verify(d) \/ RemoveEntry(d)
           \/ EnforceLimits \/ Write \/ Finalize \/ Describe \/ Hash \/ DiscardMeta
           \/ RemoveMeta \/ Measure \/ Count \/ EvictMeta \/ UNCHANGED vars
  <2>1. /\ UNCHANGED <<entry, todo>>
        /\ \E l \in PCs \ {"cleanup", "clear"} : pc' = pc \/ pc' = [pc EXCEPT ![User] = l]
    BY <1>5 DEF Stage, Verify, RemoveEntry, EnforceLimits, Write, Finalize, Describe, Hash,
       DiscardMeta, RemoveMeta, Measure, Count, EvictMeta, vars, files, Begin, Return, Answer,
       Step, Goto, PCs
  <2>2. QED
    BY <1>0, <2>1, NoNewRemoval DEF CallerTypes
<1>6. CASE List \/ EndOfEnforce \/ \E i \in Items : Evict(i)
  <2>1. PICK l \in {"idle", "evict", "evictMeta"} : pc' = [pc EXCEPT ![User] = l]
    BY <1>6 DEF List, EndOfEnforce, Evict, Step, Return, Answer, Goto
  <2>2. \E t : todo' = [todo EXCEPT ![User] = t]
    BY <1>6 DEF List, EndOfEnforce, Evict
  <2>3. entry'[Subdir] = entry[Subdir]
    BY <1>0, <1>6 DEF List, EndOfEnforce, Evict, files, FileTypes
  <2>4. QED
    BY <1>0, <2>1, <2>2, <2>3, UserIsCaller DEF DirectoryStays, PartialsOnly, CallerTypes
<1>7. CASE Crash
  BY <1>0, <1>7, UserIsCaller DEF Crash, files, DirectoryStays, PartialsOnly
<1>8. QED
  BY <1>1, <1>2, <1>3, <1>4, <1>5, <1>6, <1>7 DEF Next, Goes

\* Nothing is believed elsewhere, or after something else was removed.
LEMMA ElsewhereKeeps ==
  ASSUME \/ pc'[User] \notin {"count", "list", "evict", "evictMeta"}
         \/ disturbed' = TRUE /\ (At("count")' => At("count") /\ UNCHANGED total)
         \/ disturbed' = TRUE /\ ~At("count")',
         Believed
  PROVE  Believed'
BY DEF Believed, At

\* A step that takes no package away, and leaves the user's list as it is.
LEMMA QuietKeeps ==
  ASSUME Believed, UNCHANGED <<loop, disturbed>>, Listed' = Listed, todo'[User] = todo[User],
         \/ pc'[User] = pc[User]
         \/ {pc[User], pc'[User]} \subseteq {"evict", "evictMeta"}
  PROVE  Believed'
<1>1. Waiting' = Waiting /\ Packages' = Packages
  BY DEF Waiting, Packages
<1>2. (At("count")' => At("count")) /\ (At("list")' => At("list"))
  BY DEF At
<1>3. (At("evict") \/ At("evictMeta"))' => At("evict") \/ At("evictMeta")
  BY DEF At
<1>4. QED
  BY <1>1, <1>2, <1>3 DEF Believed, loop

LEMMA EnforcingBelieves ==
  ASSUME IInv, IInv', LInv,
         Measure \/ Count \/ List \/ EvictMeta \/ EndOfEnforce \/ \E i \in Items : Evict(i)
  PROVE  Believed'
<1>0. CallerTypes /\ FileTypes /\ Subdir \in Items /\ User \in Callers
  BY UserIsCaller DEF IInv, Items
<1>1. CASE Measure
  <2>1. PICK seen \in Readable(Listed) :
          /\ disturbed' = (disturbed \/ seen # Listed) /\ total' = SumOf(seen)
          /\ pc'[User] = IF total' <= MaxSize THEN "count" ELSE "list"
    BY <1>0, <1>1, MeasuresAreSums DEF Measure, Sees, Goto, CallerTypes
  <2>2. Listed' = Listed
    BY <1>1 DEF Measure, files, Listed
  <2>3. QED
    BY <2>1, <2>2 DEF Believed, At
<1>2. CASE Count
  <2>1. CASE Answer(User, "ok")
    BY <1>0, <2>1, ElsewhereKeeps DEF Answer, Goto, CallerTypes, LInv
  <2>2. CASE Goto(User, "list") /\ UNCHANGED total
    <3>1. At("count") /\ pc'[User] = "list" /\ Listed' = Listed /\ (disturbed => disturbed')
      BY <1>0, <1>2, <2>2 DEF Count, At, Goto, CallerTypes, files, Listed, Sees
    <3>2. QED
      BY <2>2, <3>1 DEF LInv, Believed, At
  <2>3. QED
    BY <1>2, <2>1, <2>2 DEF Count
<1>7. CASE List
  <2>1. PICK seen \in Readable(Listed) :
          /\ disturbed' = (disturbed \/ seen # Listed)
          /\ todo' = [todo EXCEPT ![User] = {"entry"} \X seen] /\ left' = Cardinality(seen)
    BY <1>7 DEF List, Sees
  <2>2. /\ At("list") /\ pc'[User] = "evict" /\ Listed' = Listed /\ total' = total
    BY <1>0, <1>7 DEF List, Goto, At, CallerTypes, Listed, files
  <2>3. SUFFICES ASSUME ~disturbed' PROVE Believed'
    BY <1>0, <2>1, <2>2, ElsewhereKeeps DEF LInv, At, CallerTypes, IInv
  <2>4. seen = Listed /\ total' = SumOf(Listed)
    BY <2>1, <2>2, <2>3 DEF LInv, Believed
  <2>5. Waiting' = Listed
    BY <1>0, <2>1, <2>4 DEF Waiting, Listed, CallerTypes
  <2>6. Packages' = Packages /\ Packages \subseteq Listed /\ SumOf(Listed) \in Nat
    BY <2>2, MeasuresAreSums, SetsAreFinite DEF Packages
  <2>7. QED
    BY <2>1, <2>2, <2>4, <2>5, <2>6 DEF Believed, At
<1>3. CASE EvictMeta
  <2>1. /\ pc[User] = "evictMeta" /\ pc'[User] = "evict"
        /\ UNCHANGED <<loop, disturbed, todo>> /\ Listed' = Listed
    BY <1>0, <1>3 DEF EvictMeta, Step, Goto, CallerTypes, Listed, loop
  <2>2. QED
    BY <2>1, QuietKeeps DEF LInv
<1>4. CASE EndOfEnforce
  BY <1>0, <1>4, ElsewhereKeeps DEF EndOfEnforce, Return, Answer, Goto, CallerTypes, LInv
<1>5. ASSUME NEW i \in Items, Evict(i) PROVE Believed'
  <2>1. /\ At("evict") /\ <<"entry", i>> \in todo[User]
        /\ todo'[User] = todo[User] \ {<<"entry", i>>}
        /\ total' = total \/ total' = IF Size[i] < total THEN total - Size[i] ELSE 0
        /\ left' = IF left = 0 THEN 0 ELSE left - 1
        /\ pc'[User] = "evictMeta"
    BY <1>0, <1>5 DEF Evict, At, Goto, CallerTypes
  <2>2. PICK done \in BOOLEAN :
          /\ entry' = IF done /\ i # Subdir THEN [entry EXCEPT ![i] = "none"] ELSE entry
          /\ disturbed' = (disturbed \/ ~done)
    BY <1>5, ConfigAssumption DEF Evict, Outcome
  <2>3. SUFFICES ASSUME ~disturbed' PROVE Believed'
    BY <1>0, <2>1, ElsewhereKeeps DEF IInv, CallerTypes, LInv, At
  <2>4. ~disturbed /\ done
    BY <2>2, <2>3
  <2>5. /\ Waiting \subseteq Listed /\ Packages \subseteq Waiting
        /\ total >= SumOf(Waiting) /\ left = Cardinality(Waiting)
    BY <2>1, <2>4 DEF LInv, Believed
  <2>6. i \in Waiting /\ i \in Listed /\ Waiting' = Waiting \ {i} /\ Waiting \in SUBSET Items
    BY <2>1, <2>5 DEF Waiting
  <2>7. Listed' = IF i = Subdir THEN Listed ELSE Listed \ {i}
    BY <1>0, <2>2, <2>4, <2>6 DEF Listed, FileTypes, Exists
  <2>8. Waiting' \subseteq Listed' /\ Packages' \subseteq Waiting'
    BY <2>5, <2>6, <2>7, DigestsAreItems DEF Packages
  <2>9. total' >= SumOf(Waiting')
    <3>1. /\ SumOf(Waiting) = Size[i] + SumOf(Waiting \ {i})
          /\ SumOf(Waiting \ {i}) \in Nat /\ Size[i] \in Nat
      BY <2>6, SetsAreFinite, SumOfMember, ConfigAssumption
    <3>2. total \in Nat
      BY DEF LInv, Counters
    <3> DEFINE n == SumOf(Waiting \ {i})
    <3>3. total >= Size[i] + n /\ SumOf(Waiting') = n /\ n \in Nat
      BY <2>5, <2>6, <3>1
    <3> HIDE DEF n
    <3>4. QED
      BY <2>1, <3>1, <3>2, <3>3
  <2>10. left' = Cardinality(Waiting')
    <3>1. Cardinality(Waiting \ {i}) = Cardinality(Waiting) - 1
      BY <2>6, SetsAreFinite, FS_RemoveElement
    <3>2. Cardinality(Waiting) # 0
      BY <2>6, SetsAreFinite, FS_EmptySet
    <3>3. QED
      BY <2>1, <2>5, <2>6, <3>1, <3>2
  <2>11. QED
    BY <2>8, <2>9, <2>10, <2>1 DEF Believed, At
<1>6. QED
  BY <1>1, <1>2, <1>3, <1>4, <1>5, <1>7

LEMMA BelievedKeeps == IInv /\ IInv' /\ LInv /\ [Next]_vars => Believed'
<1> SUFFICES ASSUME IInv, IInv', LInv, [Next]_vars PROVE Believed'
  OBVIOUS
<1>0. CallerTypes /\ FileTypes /\ Believed /\ User \in Callers
  BY UserIsCaller DEF IInv, LInv
<1>1. ASSUME NEW c \in Callers, Clear(c) \/ EndOfRemoval(c) PROVE Believed'
  <2>1. PICK l \in {"clear", "idle"} : pc' = [pc EXCEPT ![c] = l]
    BY <1>1 DEF Clear, EndOfRemoval, Begin, Return, Answer, Goto
  <2>2. CASE c = User
    BY <1>0, <2>1, <2>2, ElsewhereKeeps DEF CallerTypes
  <2>3. CASE c # User
    <3>1. /\ pc'[User] = pc[User] /\ todo'[User] = todo[User]
          /\ UNCHANGED <<loop, entry>> /\ disturbed' = disturbed
      BY <1>0, <1>1, <2>3 DEF Clear, EndOfRemoval, Begin, Return, Answer, Goto,
         CallerTypes, files
    <3>2. Listed' = Listed
      BY <3>1 DEF Listed
    <3>3. QED
      BY <1>0, <3>1, <3>2, QuietKeeps
  <2>4. QED
    BY <2>2, <2>3
<1>2. ASSUME NEW c \in Callers, RemoveNext(c) PROVE Believed'
  <2>1. pc' = pc /\ pc[c] \in {"cleanup", "clear"}
    BY <1>2 DEF RemoveNext
  <2>2. CASE c = User
    BY <1>0, <2>1, <2>2, ElsewhereKeeps
  <2>3. CASE c # User
    <3>1. disturbed' = (disturbed \/ pc[User] # "idle") /\ UNCHANGED loop
      BY <1>2, <2>3 DEF RemoveNext
    <3>2. pc[User] = "idle" \/ disturbed' = TRUE
      BY <3>1
    <3>3. QED
      BY <1>0, <2>1, <3>1, <3>2, ElsewhereKeeps DEF At, loop
  <2>4. QED
    BY <2>2, <2>3
<1>3. ASSUME NEW d \in Digest, Rot(d) PROVE Believed'
  <2>1. Listed' = Listed
    BY <1>0, <1>3 DEF Rot, Listed, FileTypes, Exists
  <2>2. QED
    BY <1>0, <1>3, <2>1, QuietKeeps DEF Rot
<1>4. CASE UNCHANGED vars
  <2>1. Listed' = Listed
    BY <1>4 DEF vars, files, Listed
  <2>2. QED
    BY <1>0, <1>4, <2>1, QuietKeeps DEF vars
<1>5. CASE Crash
  BY <1>0, <1>5, ElsewhereKeeps DEF Crash
<1>6. CASE \/ \E d \in Digest : Stage(d) \/ Verify(d) \/ RemoveEntry(d)
           \/ Write \/ Finalize \/ Rename \/ Describe \/ Hash \/ Discard \/ DiscardMeta
           \/ Remove \/ RemoveMeta \/ EnforceLimits \/ CleanupPartials
  <2>1. PICK l \in PCs \ {"count", "list", "evict", "evictMeta"} : pc' = [pc EXCEPT ![User] = l]
    BY <1>6 DEF Stage, Verify, RemoveEntry, Write, Finalize, Rename, Describe, Hash, Discard,
       DiscardMeta, Remove, RemoveMeta, EnforceLimits, CleanupPartials, Begin, Return, Answer,
       Step, Goto, PCs
  <2>2. QED
    BY <1>0, <2>1, ElsewhereKeeps DEF CallerTypes
<1>7. QED
  BY <1>1, <1>2, <1>3, <1>4, <1>5, <1>6, EnforcingBelieves DEF Next, Goes

-----------------------------------------------------------------------------
\* What enforce_limits counts is what is there.
THEOREM LimitsInvariance == Spec => []LInv
<1>1. IInv /\ IInv' /\ LInv /\ [Next]_vars => LInv'
  BY CountersKeep, DirectoryKeeps, BelievedKeeps DEF LInv
<1>2. QED
  BY <1>1, LimitsInit, Invariance, PTL DEF Spec

\* Every variable has its type: no counter of enforce_limits is below zero,
\* and a cleanup lists partial files only.
THEOREM TypeCorrect == Spec => []TypeOK
<1>1. IInv /\ LInv => TypeOK
  BY DEF IInv, LInv, FileTypes, CallerTypes, Counters, PartialsOnly, TypeOK
<1>2. QED
  BY <1>1, Invariance, LimitsInvariance, PTL

\* The packages that are left are within both limits, whatever their sizes,
\* where nothing was removed by others, left behind or overlooked (cache.rs:370).
THEOREM LimitsAreMet == Spec => EnforceMeetsLimits
<1> DEFINE Met ==
      pc[User] \in {"count", "evict"} /\ answer' = "ok" /\ ~disturbed' =>
       /\ MapThenSumSet(LAMBDA i : Size[i], Packages') <= MaxSize
       /\ Cardinality(Packages') <= MaxEntries
<1>1. ASSUME IInv, LInv, Next, pc[User] \in {"count", "evict"}, answer' = "ok", ~disturbed'
      PROVE  SumOf(Packages') <= MaxSize /\ Cardinality(Packages') <= MaxEntries
  <2>1. answer = "none"
    BY <1>1 DEF IInv, Unanswered
  <2>2. Count \/ EndOfEnforce
    BY <1>1, <2>1 DEF Next, Goes, Stage, Verify, RemoveEntry, Rot, EnforceLimits,
       CleanupPartials, Clear, Crash, Write, Finalize, Rename, Describe, Hash, Discard,
       DiscardMeta, Remove, RemoveMeta, Measure, List, EvictMeta, Evict, RemoveNext,
       EndOfRemoval, Begin, Return, Answer, Step
  <2>3. Packages' = Packages /\ Listed \in SUBSET Items /\ Packages = Listed \cap Digest
    BY <2>2 DEF Count, EndOfEnforce, files, Listed, Packages
  <2>4. /\ Packages \in SUBSET Items /\ SumOf(Packages) \in Nat /\ Cardinality(Packages) \in Nat
        /\ MaxSize \in Nat /\ MaxEntries \in Nat
    <3>1. Packages \in SUBSET Items
      BY <2>3
    <3>2. QED
      BY <3>1, SetsAreFinite, ConfigAssumption DEF ConfigValid
  <2>5. CASE Count
    <3>1. ~disturbed /\ Cardinality(Packages) <= MaxEntries
      BY <1>1, <2>1, <2>5 DEF Count, Sees, cache_entry_count
    <3>2. SumOf(Listed) <= MaxSize
      BY <2>5, <1>1, <3>1 DEF Count, LInv, Believed, At
    <3>3. Subdir \in Listed /\ Listed \ {Subdir} = Packages /\ Size[Subdir] \in Nat
      BY <1>1, <2>3, NamesAssumption, ConfigAssumption DEF LInv, DirectoryStays, Listed, Items
    <3>4. SumOf(Listed) = Size[Subdir] + SumOf(Packages)
      BY <2>3, <3>3, SetsAreFinite, SumOfMember
    <3>5. QED
      BY <2>3, <2>4, <3>1, <3>2, <3>3, <3>4
  <2>6. CASE EndOfEnforce
    <3>1. /\ Waiting \subseteq Listed /\ Packages \subseteq Waiting
          /\ total >= SumOf(Waiting) /\ left = Cardinality(Waiting)
      BY <1>1, <2>6 DEF EndOfEnforce, Return, LInv, Believed, At
    <3>2. (total <= MaxSize /\ left <= MaxEntries) \/ todo[User] = {}
      BY <2>6 DEF EndOfEnforce, WithinLimits
    <3>3. CASE todo[User] = {}
      <4>1. Waiting = {}
        BY <3>3 DEF Waiting
      <4>2. Packages = {}
        BY <3>1, <4>1
      <4>3. SumOf(Packages) = 0 /\ Cardinality(Packages) = 0
        BY <4>2, SumOfEmpty, FS_EmptySet
      <4>4. QED
        BY <2>3, <2>4, <4>3
    <3>4. CASE total <= MaxSize /\ left <= MaxEntries
      <4>1. Waiting \in SUBSET Items /\ SumOf(Waiting) \in Nat /\ Cardinality(Waiting) \in Nat
            /\ IsFiniteSet(Waiting) /\ total \in Nat
        BY <1>1, SetsAreFinite DEF Waiting, LInv, Counters
      <4>2. Cardinality(Packages) <= Cardinality(Waiting)
        BY <3>1, <4>1, FS_Subset
      <4>3. SumOf(Packages) <= SumOf(Waiting)
        <5>1. CASE Subdir \in Waiting
          <6>1. Waiting \ {Subdir} = Packages
            BY <2>3, <3>1, <4>1, DigestsAreItems DEF Items
          <6>2. SumOf(Waiting) = Size[Subdir] + SumOf(Packages) /\ Size[Subdir] \in Nat
            BY <4>1, <5>1, <6>1, SumOfMember, ConfigAssumption DEF Items
          <6>3. QED
            BY <2>4, <6>2
        <5>2. CASE Subdir \notin Waiting
          <6>1. Waiting = Packages
            BY <2>3, <3>1, <4>1, <5>2 DEF Items
          <6>2. QED
            BY <2>4, <6>1
        <5>3. QED
          BY <5>1, <5>2
      <4>4. QED
        BY <2>3, <2>4, <3>1, <3>4, <4>1, <4>2, <4>3
    <3>5. QED
      BY <3>2, <3>3, <3>4
  <2>7. QED
    BY <2>2, <2>5, <2>6
<1>2. IInv /\ LInv /\ [Next]_vars => [Met]_vars
  BY <1>1 DEF SumOf
<1>3. QED
  BY <1>2, Invariance, LimitsInvariance, PTL DEF Spec, EnforceMeetsLimits
=============================================================================
