--------------------------- MODULE DriverSelection ---------------------------
(***************************************************************************)
(* The driver selector of mission-driverd (selector.rs): of the packages   *)
(* the sources offer for the drivers of a device, the one to install.      *)
(*                                                                         *)
(* registry is a function from the identifiers of the configured sources   *)
(* to [enabled, priority, keys, type]; verified is the selector's map of   *)
(* manifest verifications, with None for a source it does not know.  A     *)
(* package is [name, version, arch, min, max, source, key].  Names are     *)
(* texts in lower case: the code compares them without regard to case.     *)
(***************************************************************************)
EXTENDS HardwareMatching, FiniteSetsExt, Common

default_trusted(type) == type \in {"Mission", "Linux"}

is_source_enabled(registry, id) == id \in DOMAIN registry /\ registry[id].enabled

source_priority(registry, id) ==
  IF id \in DOMAIN registry THEN registry[id].priority ELSE 100

\* A package without a key is judged by the type of its source alone.
is_source_trusted(registry, id, key) ==
  /\ id \in DOMAIN registry
  /\ IF registry[id].keys = {} \/ key = None THEN default_trusted(registry[id].type)
     ELSE key \in registry[id].keys

\* 2 for a verified manifest, 1 for none, 0 for one that was refused.
manifest_trust_score(verified, id) ==
  IF verified[id] = "Verified" THEN 2
  ELSE IF verified[id] \in {"Unverified", None} THEN 1 ELSE 0

normalized_architecture(arch) ==
  IF arch = "amd64" THEN "x86_64" ELSE IF arch = "arm64" THEN "aarch64" ELSE arch

is_architecture_compatible(system, package) ==
  LET arch == normalized_architecture(package.arch)
  IN  system.arch = arch \/ {system.arch, arch} \in Aliases

is_kernel_compatible(system, package) ==
  system.kernel = << >> \/ check_kernel_compatibility(system.kernel, package.min, package.max)

(***************************************************************************)
(* select_for_device lists a candidate for each package of a fitting       *)
(* driver and one, rejected, for a driver that does not fit or has none.   *)
(***************************************************************************)
Candidate(driver, package, source, score, trusted, rejected) ==
  [driver |-> driver, package |-> package, source |-> source, score |-> score,
   trusted |-> trusted, rejected |-> rejected]

Offers(registry, driver, package) ==
  package.name = driver.name /\ is_source_enabled(registry, package.source)

Offered(registry, driver, packages) ==
  filter(packages, {p \in Range(packages) : Offers(registry, driver, p)})

OfPackage(system, registry, driver, score, package) ==
  LET trusted == is_source_trusted(registry, package.source, package.key)
  IN  Candidate(driver, package, package.source, score, trusted,
                \/ ~is_architecture_compatible(system, package)
                \/ ~is_kernel_compatible(system, package)
                \/ ~trusted)

OfDriver(system, registry, device, driver, packages) ==
  LET compat  == evaluate_compatibility(system, driver, device)
      offered == Offered(registry, driver, packages)
  IN  IF ~compat.compatible THEN << Candidate(driver, None, None, 0, FALSE, TRUE) >>
      ELSE IF offered = << >> THEN << Candidate(driver, None, None, compat.score, FALSE, TRUE) >>
      ELSE [i \in DOMAIN offered |->
              OfPackage(system, registry, driver, compat.score, offered[i])]

Candidates(system, registry, device, drivers, packages) ==
  FlattenSeq([i \in DOMAIN drivers |->
    OfDriver(system, registry, device, drivers[i], packages)])

\* The first criterion that tells two candidates apart decides.
Decide(comparisons) ==
  LET apart == {i \in DOMAIN comparisons : comparisons[i] # 0}
  IN  IF apart = {} THEN 0 ELSE comparisons[Min(apart)]

Bit(b) == IF b THEN 1 ELSE 0

\* The priorities are numbers of which the lower is the better.
MutCompareCandidates(registry, verified, a, b) ==
  Decide(<< Sign(Bit(a.trusted) - Bit(b.trusted)),
            Sign(manifest_trust_score(verified, a.source)
                   - manifest_trust_score(verified, b.source)),
            Sign(a.score - b.score),
            Sign(source_priority(registry, a.source) - source_priority(registry, b.source)),
            DriverVersionCmp(a.package.version, b.package.version),
            CompareText(a.driver.name, b.driver.name) >>)

CompareCandidates(registry, verified, a, b) ==
  Decide(<< Sign(Bit(a.trusted) - Bit(b.trusted)),
            Sign(manifest_trust_score(verified, a.source)
                   - manifest_trust_score(verified, b.source)),
            Sign(a.score - b.score),
            Sign(source_priority(registry, b.source) - source_priority(registry, a.source)),
            DriverVersionCmp(a.package.version, b.package.version),
            CompareText(a.driver.name, b.driver.name) >>)

\* Iterator::max_by: the last of several greatest.
max_by(registry, verified, list) ==
  FoldLeft(LAMBDA best, c : IF CompareCandidates(registry, verified, best, c) > 0 THEN best ELSE c,
           Head(list), Tail(list))

\* << >> for no candidate.
select_best_candidate(registry, verified, candidates) ==
  LET qualified == filter(candidates, {c \in Range(candidates) : ~c.rejected})
  IN  IF qualified = << >> THEN << >> ELSE << max_by(registry, verified, qualified) >>

select_for_device(system, registry, verified, device, drivers, packages) ==
  LET candidates == Candidates(system, registry, device, drivers, packages)
  IN  [candidates |-> candidates,
       found_any  |-> candidates # << >>,
       selected   |-> select_best_candidate(registry, verified, candidates)]

-----------------------------------------------------------------------------
\* The members of a set whose value is the greatest.
Best(set, value(_)) == {c \in set : \A d \in set : value(c) >= value(d)}

\* What the criteria leave of the candidates, one after the other.
Preferred(registry, verified, qualified) ==
  LET manifest == Best(qualified, LAMBDA c : manifest_trust_score(verified, c.source))
      score    == Best(manifest, LAMBDA c : c.score)
      priority == Best(score, LAMBDA c : -source_priority(registry, c.source))
      version  == {c \in priority : \A d \in priority :
                     DriverVersionCmp(c.package.version, d.package.version) >= 0}
  IN  {c \in version : \A d \in version : CompareText(c.driver.name, d.driver.name) >= 0}

(***************************************************************************)
(* A package is selected exactly when one qualifies; it is one that the    *)
(* criteria, applied one after the other, leave over, so that a source     *)
(* whose manifest was refused is used only when no other is left, whatever *)
(* its priority; and it fits the device and comes from a source that is    *)
(* enabled.  The choice is the same, up to candidates that no criterion    *)
(* tells apart, when the inventory or the catalog is listed the other way  *)
(* round (selector.rs:247).                                                *)
(***************************************************************************)
SelectedIsBest(system, registry, verified, device, drivers, packages) ==
  LET result    == select_for_device(system, registry, verified, device, drivers, packages)
      swapped   == select_for_device(system, registry, verified, device,
                                     Reverse(drivers), Reverse(packages))
      qualified == {c \in Range(result.candidates) : ~c.rejected}
      preferred == Preferred(registry, verified, qualified)
      selected  == result.selected[1]
  IN  /\ result.selected = << >> <=> qualified = {}
      /\ result.selected # << >> =>
           /\ {selected, swapped.selected[1]} \subseteq preferred
           /\ check_modalias_match(selected.driver, device)
           /\ is_source_enabled(registry, selected.source)
           /\ selected.trusted
=============================================================================
