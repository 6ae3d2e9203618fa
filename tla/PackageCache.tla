---------------------------- MODULE PackageCache ----------------------------
(***************************************************************************)
(* CacheManager: driver packages kept under the names of their digests.    *)
(* Each package has up to three files: the package itself, the partial     *)
(* file it is made from, and a file that describes it.  Every call is a    *)
(* sequence of file operations, each of which may fail; between any two of *)
(* them the daemon may die, and ClearCache, whose handlers take no lock,   *)
(* may remove what it finds.                                               *)
(*                                                                         *)
(* One caller (User) stores, verifies and removes packages, any number of  *)
(* Clearers run clear.  A package file is its content: torn (written in    *)
(* part), wrong (whole, but not what the digest says) or right.  The cache *)
(* directory also holds a directory, Subdir, where downloads keep their    *)
(* own files: it is listed with the packages and cannot be removed.        *)
(* Modification times are not kept: evictions come in any order.           *)
(***************************************************************************)
EXTENDS Naturals, FiniteSetsExt

CONSTANTS
  Digest,     \* the packages
  Size,       \* bytes of each package, and of the directory
  Subdir,     \* the directory of partial downloads
  User,       \* who stores and looks up packages
  Clearers,   \* handlers of ClearCache
  MaxSize,    \* config.max_size_bytes
  MaxEntries, \* config.max_entries
  MayFail     \* file operations may fail

Items   == Digest \cup {Subdir}
Callers == Clearers \cup {User}

ASSUME NamesAssumption ==
  /\ Subdir \notin Digest /\ IsFiniteSet(Digest)
  /\ User \notin Clearers

\* CacheConfig::validate
ConfigValid == MaxSize \in Nat \ {0} /\ MaxEntries \in Nat \ {0}

ASSUME ConfigAssumption ==
  /\ ConfigValid
  /\ Size \in [Items -> Nat]
  /\ MayFail \in BOOLEAN

VARIABLES
  entry,     \* pkg-<digest>, and Subdir
  part,      \* pkg-<digest>.part
  meta,      \* packages that have a pkg-<digest>.meta
  pc,        \* where each caller is
  on,        \* the package it is about
  todo,      \* the files it has listed and not come to yet
  total,     \* enforce_limits: the size it believes is left
  left,      \* enforce_limits: the number of entries it believes is left
  answer,    \* what the user's last call returned
  disturbed  \* history: during the user's last call another caller removed
             \* something, a removal of its own failed, or it overlooked a
             \* file as it read the directory

files   == <<entry, part, meta>>
loop    == <<total, left>>
vars    == <<files, pc, on, todo, loop, answer, disturbed>>

Contents  == {"none", "torn", "wrong", "right"}
Exists(f) == f # "none"

PCs == {"idle", "writing", "finalize", "rename", "describe", "hash",
        "discard", "discardMeta", "remove", "removeMeta", "measure", "count",
        "list", "evict", "evictMeta", "cleanup", "clear"}

TypeOK ==
  /\ entry \in [Items -> Contents] /\ part \in [Digest -> Contents]
  /\ meta \in SUBSET Digest
  /\ pc \in [Callers -> PCs]
  /\ \A c \in Clearers : pc[c] \in {"idle", "clear"}
  /\ on \in Items
  /\ todo \in [Callers -> SUBSET ({"entry", "part", "meta"} \X Items)]
  /\ pc[User] = "cleanup" => todo[User] \subseteq {"part"} \X Digest
  /\ total \in Nat /\ left \in Nat
  /\ answer \in {"none", "ok", "hit", "miss", "error"}
  /\ disturbed \in BOOLEAN

Init ==
  /\ entry = [i \in Items |-> IF i = Subdir THEN "right" ELSE "none"]
  /\ part = [d \in Digest |-> "none"]
  /\ meta = {}
  /\ pc = [c \in Callers |-> "idle"]
  /\ on = Subdir
  /\ todo = [c \in Callers |-> {}]
  /\ total = 0 /\ left = 0
  /\ answer = "none"
  /\ disturbed = FALSE

\* Whether a file operation succeeds.
Outcome == {TRUE, ~MayFail}

\* What is seen of the files S: where the directory cannot be read, or one of
\* its entries cannot, the code goes on with the others.
Readable(S) == IF MayFail THEN SUBSET S ELSE {S}

Goto(c, l) == pc' = [pc EXCEPT ![c] = l]

Begin(c, l, d) ==
  /\ pc[c] = "idle"
  /\ Goto(c, l)
  /\ on' = IF c = User THEN d ELSE on
  /\ answer' = IF c = User THEN "none" ELSE answer
  /\ disturbed' = (c # User /\ disturbed)

Answer(c, a) ==
  /\ Goto(c, "idle")
  /\ on' = IF c = User THEN Subdir ELSE on
  /\ answer' = IF c = User THEN a ELSE answer

Return(c, a) == Answer(c, a) /\ UNCHANGED disturbed

Step(c, l) == Goto(c, l) /\ UNCHANGED <<on, answer, disturbed>>

\* The user goes on with the files in seen instead of those in S.
Sees(seen, S) == disturbed' = (disturbed \/ seen # S)

-----------------------------------------------------------------------------
(***************************************************************************)
(* Storing a package: the partial file is written, then finalized.         *)
(***************************************************************************)

\* stage_partial, after which the caller opens the file it names.
Stage(d) ==
  /\ Begin(User, "writing", d)
  /\ part' = [part EXCEPT ![d] = "torn"]
  /\ UNCHANGED <<entry, meta, todo, loop>>

\* The caller has written it, or gives up.  A file that was removed meanwhile
\* is written to the end without a name.
Write ==
  /\ pc[User] = "writing"
  /\ \/ /\ \E b \in {"wrong", "right"} :
             part' = IF Exists(part[on])
                     THEN [part EXCEPT ![on] = b]
                     ELSE part
        /\ Step(User, "finalize")
     \/ MayFail /\ Return(User, "error") /\ UNCHANGED part
  /\ UNCHANGED <<entry, meta, todo, loop>>

\* finalize: is there a partial file?  A file that cannot be looked at is none.
Finalize ==
  /\ pc[User] = "finalize"
  /\ \/ Exists(part[on]) /\ Step(User, "rename")
     \/ (MayFail \/ ~Exists(part[on])) /\ Return(User, "error")
  /\ UNCHANGED <<files, todo, loop>>

\* A finalize that opens the final file and copies into it.
MutRenameCopies ==
  /\ pc[User] = "rename"
  /\ \/ /\ Exists(part[on])
        /\ entry' = [entry EXCEPT ![on] = "torn"]
        /\ part' = [part EXCEPT ![on] = "none"]
        /\ Step(User, "describe")
     \/ Return(User, "error") /\ UNCHANGED <<entry, part>>
  /\ UNCHANGED <<meta, todo, loop>>

\* A finalize that removes the partial file whatever became of the rename.
MutRenameDrops ==
  /\ pc[User] = "rename"
  /\ \/ /\ Exists(part[on])
        /\ entry' = [entry EXCEPT ![on] = part[on]]
        /\ Step(User, "describe")
     \/ /\ MayFail
        /\ Return(User, "error")
        /\ UNCHANGED entry
  /\ part' = [part EXCEPT ![on] = "none"]
  /\ UNCHANGED <<meta, todo, loop>>

Rename ==
  /\ pc[User] = "rename"
  /\ \/ /\ Exists(part[on])
        /\ entry' = [entry EXCEPT ![on] = part[on]]
        /\ part' = [part EXCEPT ![on] = "none"]
        /\ Step(User, "describe")
     \/ /\ MayFail \/ ~Exists(part[on])
        /\ Return(User, "error")
        /\ UNCHANGED <<entry, part>>
  /\ UNCHANGED <<meta, todo, loop>>

\* A finalize that ignores errors of the metadata, as the other calls do.
MutDescribe ==
  /\ pc[User] = "describe"
  /\ \/ meta' = meta \cup {on}
     \/ MayFail /\ meta' \in {meta, meta \cup {on}}
  /\ Return(User, "ok")
  /\ UNCHANGED <<entry, part, todo, loop>>

\* The metadata is written; a failure may leave a file that cannot be read.
Describe ==
  /\ pc[User] = "describe"
  /\ \/ meta' = meta \cup {on} /\ Return(User, "ok")
     \/ MayFail /\ meta' \in {meta, meta \cup {on}} /\ Return(User, "error")
  /\ UNCHANGED <<entry, part, todo, loop>>

-----------------------------------------------------------------------------
(***************************************************************************)
(* Looking one up, and removing one.                                       *)
(***************************************************************************)

\* contains, get_cached_path and the first check of verify_cache_entry
Verify(d) ==
  /\ \/ Exists(entry[d]) /\ Begin(User, "hash", d)
     \/ (MayFail \/ ~Exists(entry[d])) /\ pc[User] = "idle" /\ Return(User, "miss")
  /\ UNCHANGED <<files, todo, loop>>

Hash ==
  /\ pc[User] = "hash"
  /\ \/ ~Exists(entry[on]) /\ Return(User, "error")
     \/ Exists(entry[on]) /\ MayFail /\ Return(User, "error")
     \/ entry[on] = "right" /\ Return(User, "hit")
     \/ entry[on] \in {"torn", "wrong"} /\ Step(User, "discard")
  /\ UNCHANGED <<files, todo, loop>>

\* A mismatch removes the entry and its metadata; errors are ignored.
Discard ==
  /\ pc[User] = "discard"
  /\ \E done \in Outcome :
       entry' = IF done THEN [entry EXCEPT ![on] = "none"] ELSE entry
  /\ Step(User, "discardMeta")
  /\ UNCHANGED <<part, meta, todo, loop>>

DiscardMeta ==
  /\ pc[User] = "discardMeta"
  /\ \E done \in Outcome :
       meta' = IF done THEN meta \ {on} ELSE meta
  /\ Return(User, "miss")
  /\ UNCHANGED <<entry, part, todo, loop>>

\* remove_entry: a file that cannot be looked at is passed over.
RemoveEntry(d) ==
  /\ Begin(User, "remove", d)
  /\ UNCHANGED <<files, todo, loop>>

Remove ==
  /\ pc[User] = "remove"
  /\ \/ /\ entry' = [entry EXCEPT ![on] = "none"]
        /\ Step(User, "removeMeta")
     \/ Exists(entry[on]) /\ MayFail /\ Return(User, "error") /\ UNCHANGED entry
     \/ Exists(entry[on]) /\ MayFail /\ Step(User, "removeMeta") /\ UNCHANGED entry
  /\ UNCHANGED <<part, meta, todo, loop>>

RemoveMeta ==
  /\ pc[User] = "removeMeta"
  /\ \E done \in Outcome :
       meta' = IF done THEN meta \ {on} ELSE meta
  /\ Return(User, "ok")
  /\ UNCHANGED <<entry, part, todo, loop>>

-----------------------------------------------------------------------------
(***************************************************************************)
(* enforce_limits                                                          *)
(***************************************************************************)

Listed   == {i \in Items : Exists(entry[i])}
Packages == Listed \cap Digest

\* Whatever is neither partial nor metadata is measured, the directory too ...
current_cache_size(seen) == MapThenSumSet(LAMBDA i : Size[i], seen)

\* ... but only packages are entries.
cache_entry_count(seen) == Cardinality(seen)

EnforceLimits ==
  /\ Begin(User, "measure", Subdir)
  /\ UNCHANGED <<files, todo, loop>>

\* The size is measured; an entry that cannot be read adds nothing to it.
Measure ==
  /\ pc[User] = "measure"
  /\ \E seen \in Readable(Listed) :
       /\ Sees(seen, Listed)
       /\ total' = current_cache_size(seen)
       /\ Goto(User, IF total' <= MaxSize THEN "count" ELSE "list")
  /\ UNCHANGED <<files, on, answer, todo, left>>

\* The directory is read again to count the packages, if there is no need to
\* evict for their size.
Count ==
  /\ pc[User] = "count"
  /\ \E seen \in Readable(Packages) :
       /\ Sees(seen, Packages)
       /\ IF cache_entry_count(seen) <= MaxEntries
          THEN Answer(User, "ok") /\ total' = 0
          ELSE Goto(User, "list") /\ UNCHANGED <<on, answer, total>>
  /\ UNCHANGED <<files, todo, left>>

\* It is read once more for the files to evict.
List ==
  /\ pc[User] = "list"
  /\ \E seen \in Readable(Listed) :
       /\ Sees(seen, Listed)
       /\ todo' = [todo EXCEPT ![User] = {"entry"} \X seen]
       /\ left' = Cardinality(seen)
  /\ Goto(User, "evict")
  /\ UNCHANGED <<files, on, answer, total>>

\* A loop that is content with one of the limits.
MutWithinLimits == total <= MaxSize \/ left <= MaxEntries

WithinLimits == total <= MaxSize /\ left <= MaxEntries

\* The bytes, if they can be looked up, and the entry are subtracted before the
\* removal is tried.
Evict(i) ==
  /\ pc[User] = "evict"
  /\ ~WithinLimits
  /\ <<"entry", i>> \in todo[User]
  /\ todo' = [todo EXCEPT ![User] = @ \ {<<"entry", i>>}]
  /\ on' = i
  /\ \E known \in Outcome :
       total' = IF ~known \/ ~Exists(entry[i]) THEN total
                ELSE IF Size[i] < total THEN total - Size[i] ELSE 0
  /\ left' = IF left = 0 THEN 0 ELSE left - 1
  /\ \E done \in Outcome :
       /\ entry' = IF done /\ i # Subdir THEN [entry EXCEPT ![i] = "none"] ELSE entry
       /\ disturbed' = (disturbed \/ ~done)
  /\ Goto(User, "evictMeta")
  /\ UNCHANGED answer
  /\ UNCHANGED <<part, meta>>

EvictMeta ==
  /\ pc[User] = "evictMeta"
  /\ \E done \in Outcome :
       meta' = IF done THEN meta \ {on} ELSE meta
  /\ Step(User, "evict")
  /\ UNCHANGED <<entry, part, todo, loop>>

EndOfEnforce ==
  /\ pc[User] = "evict"
  /\ WithinLimits \/ todo[User] = {}
  /\ Return(User, "ok")
  /\ todo' = [todo EXCEPT ![User] = {}]
  /\ total' = 0 /\ left' = 0
  /\ UNCHANGED files

-----------------------------------------------------------------------------
(***************************************************************************)
(* cleanup_partials and clear                                              *)
(***************************************************************************)

PartialFiles  == {<<"part", d>> : d \in {x \in Digest : Exists(part[x])}}
MetaFiles     == {<<"meta", d>> : d \in meta}
PackageFiles  == {<<"entry", d>> : d \in Packages}

\* A cleanup that takes whatever is not a package.
MutCleanupPartials ==
  /\ Begin(User, "cleanup", Subdir)
  /\ \E seen \in Readable(PartialFiles \cup MetaFiles) : todo' = [todo EXCEPT ![User] = seen]
  /\ UNCHANGED <<files, loop>>

CleanupPartials ==
  /\ Begin(User, "cleanup", Subdir)
  /\ \E seen \in Readable(PartialFiles) : todo' = [todo EXCEPT ![User] = seen]
  /\ UNCHANGED <<files, loop>>

\* clear takes whatever is named pkg-*, *.part or *.meta.
Clear(c) ==
  /\ Begin(c, "clear", Subdir)
  /\ \E seen \in Readable(PartialFiles \cup PackageFiles \cup MetaFiles) :
       todo' = [todo EXCEPT ![c] = seen]
  /\ UNCHANGED <<files, loop>>

\* Both go on after a file they cannot remove.  Files come in the order of
\* the directory, which is one of them, here CHOOSE's.
RemoveNext(c) ==
  /\ pc[c] \in {"cleanup", "clear"}
  /\ todo[c] # {}
  /\ \E done \in Outcome : LET f == CHOOSE g \in todo[c] : TRUE IN
       /\ todo' = [todo EXCEPT ![c] = @ \ {f}]
       /\ entry' = IF done /\ f[1] = "entry" THEN [entry EXCEPT ![f[2]] = "none"] ELSE entry
       /\ part' = IF done /\ f[1] = "part" THEN [part EXCEPT ![f[2]] = "none"] ELSE part
       /\ meta' = IF done /\ f[1] = "meta" THEN meta \ {f[2]} ELSE meta
       /\ disturbed' = (disturbed \/ (pc[User] # "idle" /\ (c # User \/ ~done)))
  /\ UNCHANGED <<pc, on, loop, answer>>

EndOfRemoval(c) ==
  /\ pc[c] \in {"cleanup", "clear"}
  /\ todo[c] = {}
  /\ Return(c, "ok")
  /\ UNCHANGED <<files, todo, loop>>

-----------------------------------------------------------------------------
\* The disk spoils a package.
Rot(d) ==
  /\ entry[d] = "right"
  /\ entry' = [entry EXCEPT ![d] = "wrong"]
  /\ UNCHANGED <<part, meta, pc, on, todo, loop, answer, disturbed>>

\* The daemon dies; the files stay as they are.
Crash ==
  /\ pc' = [c \in Callers |-> "idle"]
  /\ todo' = [c \in Callers |-> {}]
  /\ on' = Subdir
  /\ answer' = "none"
  /\ total' = 0 /\ left' = 0
  /\ disturbed' = FALSE
  /\ UNCHANGED <<files>>

Goes(c) ==
  \/ /\ c = User
     /\ \/ Write \/ Finalize \/ Rename \/ Describe
        \/ Hash \/ Discard \/ DiscardMeta \/ Remove \/ RemoveMeta
        \/ Measure \/ Count \/ List \/ EvictMeta \/ EndOfEnforce
        \/ \E i \in Items : Evict(i)
  \/ RemoveNext(c)
  \/ EndOfRemoval(c)

Next ==
  \/ \E d \in Digest : Stage(d) \/ Verify(d) \/ RemoveEntry(d) \/ Rot(d)
  \/ EnforceLimits \/ CleanupPartials
  \/ \E c \in Callers : Clear(c) \/ Goes(c)
  \/ Crash

Spec == Init /\ [][Next]_vars

-----------------------------------------------------------------------------
(***************************************************************************)
(* "Atomic writes prevent partial-file corruptions" (cache.rs:20): no      *)
(* package file is ever one that was written in part, whatever failed,     *)
(* whoever cleared and wherever the daemon died.                           *)
(***************************************************************************)
EntriesAreWhole == \A d \in Digest : entry[d] # "torn"

\* A call that may take the file f away: it removes what it listed, it was
\* asked to remove it, or it writes the package anew.
Removing(f) ==
  \/ \E c \in Callers : pc[c] \in {"cleanup", "clear"} /\ f \in todo[c]
  \/ pc[User] = "evict" /\ f \in todo[User]
  \/ pc[User] = "remove" /\ f = <<"entry", on>>
  \/ pc[User] = "idle" /\ f[1] = "part"

Right(d) == entry[d] = "right" \/ part[d] = "right"

(***************************************************************************)
(* A package that was written right is lost only to a call that is to      *)
(* remove files, or to the disk: not to a finalize that fails or is cut    *)
(* off between its steps, not to a verification (cache.rs:230, 270).       *)
(***************************************************************************)
NothingIsLost ==
  [][\A d \in Digest :
       Right(d) /\ ~Right(d)' =>
         \/ Removing(<<"entry", d>>) \/ Removing(<<"part", d>>)
         \/ Exists(entry[d])']_vars

(***************************************************************************)
(* A finalize that returns Ok leaves a described package behind, unless    *)
(* somebody cleared the cache meanwhile (cache.rs:244).                    *)
(***************************************************************************)
StoredIsDescribed ==
  [][pc[User] = "describe" /\ answer' = "ok" =>
       on \in meta' /\ (Exists(entry'[on]) \/ disturbed)]_vars

(***************************************************************************)
(* After an enforce_limits during which nobody else removed anything, no   *)
(* removal failed and no file was overlooked, the packages are within the  *)
(* limits, although the directory is measured and counted with them and is *)
(* never removed, and although a size may be unknown when its file is      *)
(* removed (cache.rs:370).  Nothing is promised by an Ok of a call that    *)
(* could not read the directory or an entry of it (cache.rs:330, 340, 351, *)
(* 384, 393): the code takes what it cannot see for absent.                *)
(***************************************************************************)
EnforceMeetsLimits ==
  [][pc[User] \in {"count", "evict"} /\ answer' = "ok" /\ ~disturbed' =>
       /\ MapThenSumSet(LAMBDA i : Size[i], Packages') <= MaxSize
       /\ Cardinality(Packages') <= MaxEntries]_vars
=============================================================================
