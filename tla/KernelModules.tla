---------------------------- MODULE KernelModules ----------------------------
(***************************************************************************)
(* What mission-driverd knows of kernel modules (kmod.rs): the ones that   *)
(* /proc/modules and /sys/module report, and the ones that are on disk.    *)
(*                                                                         *)
(* A name is [stem, extensions]: the text before the first dot and the     *)
(* parts after it; a stem is "plain", "", "long" or "odd" (with a          *)
(* character that is not allowed), or stands for itself.  tree gives the   *)
(* names of the files below the directories of the running kernel, sys the *)
(* directories of /sys/module, and a line of /proc/modules is [name,       *)
(* state, fields].                                                         *)
(***************************************************************************)
EXTENDS Naturals, Sequences, SequencesExt, Common

\* ModuleState::from_proc_modules_state; the kernel writes Live, Loading and
\* Unloading.
from_proc_modules_state(word) ==
  IF word \in {"Live", "Loaded", "Unloaded"} THEN word ELSE "Error"

\* list_modules leaves out the lines that are too short.
list_modules(lines) ==
  {[name |-> l.name, state |-> from_proc_modules_state(l.state)] :
     l \in {l \in lines : l.fields >= 6}}

\* DriverExecutionEngine::get_loaded_modules
get_loaded_modules(lines) == {m.name : m \in {m \in list_modules(lines) : m.state = "Live"}}

is_loaded(sys, name) == name \in DOMAIN sys

\* trim_end_matches: an extension goes as often as it stands at the end.
Trim(extensions, e) ==
  LET kept == SelectLastInSeq(extensions, LAMBDA x : x # e)
  IN  SubSeq(extensions, 1, kept)

ModuleName(file) ==
  [file EXCEPT !.extensions = Trim(Trim(Trim(Trim(@, ".ko"), ".xz"), ".gz"), ".zst")]

NoName == [stem |-> "", extensions |-> << >>]

collect_kernel_modules(files) ==
  {ModuleName(f) : f \in {f \in files : f.extensions # << >> /\ Last(f.extensions) = ".ko"}}
    \ {NoName}

list_available_modules(tree) == collect_kernel_modules(tree["kernel"])

Extensions == {<<".ko">>, <<".ko", ".xz">>, <<".ko", ".gz">>, <<".ko", ".zst">>}

walk_module_dir(files, name) ==
  \E e \in Extensions : [name EXCEPT !.extensions = @ \o e] \in files

module_available(tree, name) ==
  \E dir \in {"kernel", "updates", "extra"} : walk_module_dir(tree[dir], name)

\* What is loaded is described by /sys/module, whatever is on disk.
module_info(sys, tree, name) ==
  IF is_loaded(sys, name)
  THEN [state |-> IF sys[name].hold THEN "BuiltIn" ELSE "Live", used_by |-> sys[name].holders]
  ELSE IF module_available(tree, name) THEN [state |-> "Unloaded", used_by |-> {}]
  ELSE None

\* A dot is not allowed in a name.
validate_module_name(name) == name.stem \notin {"", "long", "odd"} /\ name.extensions = << >>

-----------------------------------------------------------------------------
(***************************************************************************)
(* A module whose file has the kernel's extension is listed by its name,   *)
(* and under that name it is found on disk, described and, if the name is  *)
(* allowed, can be loaded; a compressed one is found but not listed        *)
(* (kmod.rs:248, 545).                                                     *)
(***************************************************************************)
FilesAreFound(sys, tree) ==
  \A file \in UNION {tree[dir] : dir \in DOMAIN tree} :
    LET name == [file EXCEPT !.extensions = << >>]
    IN  file.extensions \in Extensions =>
          /\ module_available(tree, name)
          /\ module_info(sys, tree, name) # None
          /\ file \in tree["kernel"] =>
               (name \in list_available_modules(tree)
                  <=> \E f \in tree["kernel"] : f.stem = file.stem /\ f.extensions = <<".ko">>)

(***************************************************************************)
(* The kernel gives every module a line and a directory.  The two ways in  *)
(* which the engine asks for a module then agree, but for one that is      *)
(* being loaded or unloaded: that one is loaded for is_loaded and missing  *)
(* from the list the conflict detector is given (execution.rs:742).        *)
(***************************************************************************)
AnswersAgree(sys, tree, lines) ==
  {l.name : l \in lines} = {name \in DOMAIN sys : ~sys[name].hold} =>
    \A l \in lines : l.fields >= 6 =>
      /\ is_loaded(sys, l.name) /\ module_info(sys, tree, l.name).state = "Live"
      /\ (l.name \in get_loaded_modules(lines)) = (l.state = "Live")
=============================================================================
