---------------------------- MODULE LocalPackages ----------------------------
(***************************************************************************)
(* The staging of package files and the older list of driver sources       *)
(* (package.rs).                                                           *)
(*                                                                         *)
(* A path is [dir, stem, extensions]: dir is the allowed directory the     *)
(* path begins with, "relative" or "elsewhere", ".." stands in stem where  *)
(* it occurs anywhere.  The files that exist are given by a function from  *)
(* paths to [kind, size].  An identifier of a source is [kind, vendor,     *)
(* lower].                                                                 *)
(***************************************************************************)
EXTENDS PackageDescription

AllowedPrefixes == {"/tmp", "/var/cache/mission", "/var/lib/mission", "/etc/mission"}

\* A link is followed: what counts is the kind of the file it leads to.
validate_package_path(files, path) ==
  /\ path.stem # ".."
  /\ path.dir \in AllowedPrefixes \union {"relative"}
  /\ path \in DOMAIN files
  /\ files[path].kind = "file"

\* Path::with_extension replaces the last extension, if there is one.
with_extension(path, extensions) ==
  [path EXCEPT !.extensions = (IF @ = << >> THEN @ ELSE Front(@)) \o extensions]

\* The first of the two names that can be read; None for no signature.
read_signature(files, path) ==
  LET named == <<with_extension(path, <<"ko", "sig">>), with_extension(path, <<"sig">>)>>
      found == filter(named, {p \in DOMAIN files : files[p].kind = "file"})
  IN  IF found = << >> THEN None ELSE found[1]

\* PackageStore::stage_local: what is staged, None for an error.
stage_local(files, max_package_size, path) ==
  IF ~validate_package_path(files, path) \/ files[path].size > max_package_size THEN None
  ELSE [staged |-> [path EXCEPT !.dir = "store"], size |-> files[path].size,
        signature |-> read_signature(files, path)]

Legacy(id, type, priority) == [id |-> id, type |-> type, priority |-> priority]

\* The identifier in lower case is compared; None for one that is unknown.
create_source_from_id(id) ==
  IF id = "mission" THEN Legacy(id, "Mission", 10)
  ELSE IF id \in {"linux", "linux-firmware"} THEN Legacy(id, "Linux", 20)
  ELSE IF id \in {"vendor:v", "vendor:w"} THEN Legacy(id, "Vendor", 50) ELSE None

\* SourceValidator::from_config
from_config(ids) ==
  LET sources == [i \in DOMAIN ids |-> create_source_from_id(ids[i])]
  IN  filter(sources, Range(sources) \ {None})

validator_is_source_enabled(sources, id) == \E i \in DOMAIN sources : sources[i].id = id

\* The first source of that name; a local one names a path that must exist.
validate_source(sources, there, id) ==
  LET found == filter(sources, {s \in Range(sources) : s.id = id})
  IN  found # << >> /\ (found[1].type = "Local" => there)

-----------------------------------------------------------------------------
(***************************************************************************)
(* The signature that is staged with a kernel module is its own,           *)
(* <package>.sig, whenever that can be read, and never one that belongs to *)
(* a module of another stem (package.rs:135).  A package whose last        *)
(* extension is not "ko" may find the one of the module beside it.         *)
(***************************************************************************)
SignatureIsOwn(files, path) ==
  LET staged == stage_local(files, 2, path)
      own    == [path EXCEPT !.extensions = Append(@, "sig")]
      read   == staged.signature
  IN  staged # None =>
        /\ read # None => read.stem = path.stem /\ read.dir = path.dir
        /\ path.extensions # << >> /\ Last(path.extensions) = "ko" =>
             /\ own \in DOMAIN files /\ files[own].kind = "file" => read = own

(***************************************************************************)
(* The older list of sources agrees with the registry's: a source that     *)
(* stands in both has one type and one priority, and each identifier that  *)
(* is known is enabled and valid (package.rs:262, source.rs:363).          *)
(***************************************************************************)
SourcesAgree(ids) ==
  LET sources == from_config(ids)
      new     == default_sources
  IN  /\ \A i \in DOMAIN sources, j \in DOMAIN new :
           sources[i].id = new[j].id =>
             sources[i].type = new[j].type /\ sources[i].priority = new[j].priority
      /\ \A i \in DOMAIN ids :
           create_source_from_id(ids[i]) # None =>
             validator_is_source_enabled(sources, ids[i]) /\ validate_source(sources, FALSE, ids[i])
      /\ \A j \in DOMAIN new : create_source_from_id(new[j].id) # None
=============================================================================
