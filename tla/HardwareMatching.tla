-------------------------- MODULE HardwareMatching --------------------------
(***************************************************************************)
(* The hardware matcher of mission-driverd (matching.rs): which drivers of *)
(* the inventory fit a device, how well, and in which order.               *)
(*                                                                         *)
(* A driver is [name, arch, patterns, min, max, needs, stored], a device   *)
(* [modalias, vendor, device] and the system [kernel, arch, features].     *)
(* Names of architectures and features are lower-case values, modaliases   *)
(* and identifiers texts, kernel versions the numbers VersionOrder         *)
(* compares (<< >> where the kernel gives none, or a driver no maximum).   *)
(***************************************************************************)
EXTENDS VersionOrder

(***************************************************************************)
(* SystemInfo::detect.  A file that cannot be read has no text and no      *)
(* lines; a line of a kernel configuration is [name, value].               *)
(***************************************************************************)
KernelNumbers(release) ==
  LET parts   == SplitBy([i \in DOMAIN release |->
                            IF release[i] \in Digits THEN release[i] ELSE "."], ".")
      numbers == filter(parts, {p \in Range(parts) : ParseNumber(p) # << >>})
  IN  [i \in DOMAIN numbers |-> ParseNumber(numbers[i])[1]]

\* It reads nothing yet.
decompress_gzip(lines) == {}

EnabledFeatures(lines) == {l.name : l \in {l \in lines : l.value \in {"y", "m"}}}

\* The first of the two configurations that enables anything.
detect_kernel_features(proc_config, boot_config) ==
  LET features == EnabledFeatures(decompress_gzip(proc_config))
  IN  IF features # {} THEN features ELSE EnabledFeatures(boot_config)

detect(release, arch, proc_config, boot_config) ==
  [kernel |-> KernelNumbers(release), arch |-> arch,
   features |-> detect_kernel_features(proc_config, boot_config)]

\* The offset of a text in another, -1 if it does not occur.
find_subslice(text, part) ==
  LET at == {k \in 0..(Len(text) - Len(part)) : IsPrefix(part, Without(text, k))}
  IN  IF at = {} THEN -1 ELSE CHOOSE k \in at : \A j \in at : k <= j

\* One segment between the stars, from position pos; -1 once one has failed.
MatchSegment(modalias, segments, pos, i) ==
  LET segment == segments[i]
      middle  == find_subslice(Without(modalias, pos), segment)
  IN  IF pos = -1 \/ segment = << >> THEN pos
      ELSE IF i = 1 THEN (IF IsPrefix(segment, modalias) THEN Len(segment) ELSE -1)
      ELSE IF i = Len(segments)
           THEN (IF IsSuffix(segment, modalias) /\ Len(modalias) - Len(segment) >= pos
                 THEN pos ELSE -1)
      ELSE IF middle = -1 THEN -1 ELSE pos + middle + Len(segment)

modalias_pattern_match(pattern, modalias) ==
  LET segments == SplitBy(pattern, "*")
  IN  IF pattern = << >> THEN modalias = << >>
      ELSE FoldLeft(LAMBDA pos, i : MatchSegment(modalias, segments, pos, i),
                    0, [i \in DOMAIN segments |-> i]) # -1

check_modalias_match(driver, device) ==
  \E pattern \in driver.patterns : modalias_pattern_match(pattern, device.modalias)

\* trim_start_matches("0x"); the prefix is one character here.
Bare(id) == IF id # << >> /\ Head(id) = "0x" THEN Tail(id) ELSE id

Occurs(text, part) == find_subslice(text, part) # -1

check_vendor_device_match(driver, device) ==
  \E pattern \in driver.patterns :
    Occurs(pattern, Bare(device.vendor)) /\ Occurs(pattern, Bare(device.device))

Aliases == {{"x86_64", "amd64"}, {"aarch64", "arm64"}}

check_architecture_match(system, driver) ==
  system.arch = driver.arch \/ {system.arch, driver.arch} \in Aliases

(***************************************************************************)
(* The score.  The weights 0.5, 0.2, 0.15, 0.1, 0.05 and 0.025 are counted *)
(* in fortieths.  They are doubles in the code, added in this order: of    *)
(* all the sums only 0.2 + 0.15 + 0.1 + 0.05 differs from its exact value  *)
(* in a comparison with 0.5, which it misses by one unit in the last place.*)
(***************************************************************************)
Half == 20

KernelPoints(system, driver) == IF system.kernel = << >> THEN 2 ELSE 6

FeaturePoints(system, driver) ==
  IF driver.needs = {} THEN 2
  ELSE IF system.features = {} THEN 1
  ELSE IF driver.needs \subseteq system.features THEN 2 ELSE 0

Score(system, driver, device) ==
    (IF check_modalias_match(driver, device) THEN Half ELSE 0)
  + (IF check_vendor_device_match(driver, device) THEN 8 ELSE 0)
  + KernelPoints(system, driver) + 4 + FeaturePoints(system, driver)

\* The comparison with 0.5 as it is for decimal fractions.
MutReachesHalf(score, modalias) == score >= Half

\* The comparison of the doubles.
ReachesHalf(score, modalias) == score > Half \/ (score = Half /\ modalias)

\* Every driver accepts a kernel whose version is unknown.
KernelAccepted(system, driver) ==
  system.kernel = << >> \/ check_kernel_compatibility(system.kernel, driver.min, driver.max)

Incompatible == [compatible |-> FALSE, score |-> 0]

evaluate_compatibility(system, driver, device) ==
  LET score == Score(system, driver, device)
  IN  IF ~KernelAccepted(system, driver) \/ ~check_architecture_match(system, driver)
      THEN Incompatible
      ELSE [compatible |-> ReachesHalf(score, check_modalias_match(driver, device)),
            score |-> score]

\* The drivers that fit, the highest score first.
find_matching_drivers(system, device, drivers) ==
  LET compat(driver) == evaluate_compatibility(system, driver, device)
      fitting == filter(drivers, {d \in Range(drivers) : compat(d).compatible})
      matches == [i \in DOMAIN fitting |->
                    [driver |-> fitting[i], score |-> compat(fitting[i]).score]]
  IN  sort_by_key(matches, [m \in Range(matches) |-> -m.score])

(***************************************************************************)
(* DriverInventoryScanner::match_drivers_to_hardware: what the list of a   *)
(* device names, and check_compatibility: the first device that fits, else *)
(* what the entry of the driver has stored.                                *)
(***************************************************************************)
match_drivers_to_hardware(system, devices, drivers) ==
  [d \in DOMAIN devices |->
     LET matches == find_matching_drivers(system, devices[d], drivers)
     IN  [i \in DOMAIN matches |-> matches[i].driver.name]]

check_compatibility(system, driver, devices) ==
  LET fitting == filter(devices, {d \in Range(devices) :
                                    evaluate_compatibility(system, driver, d).compatible})
  IN  IF fitting # << >> THEN evaluate_compatibility(system, driver, fitting[1])
      ELSE driver.stored

-----------------------------------------------------------------------------
\* What a glob with stars means: the positions of the text it can have led to,
\* character by character.
GlobStep(text, reached, c) ==
  IF c = "*" THEN {j \in 0..Len(text) : \E k \in reached : k <= j}
  ELSE {j \in 1..Len(text) : j - 1 \in reached /\ text[j] = c}

Glob(pattern, text) ==
  Len(text) \in FoldLeft(LAMBDA reached, c : GlobStep(text, reached, c), {0}, pattern)

(***************************************************************************)
(* The greedy search for the segments finds a match exactly when there is  *)
(* one; a pattern without a star matches what it begins (matching.rs:485). *)
(***************************************************************************)
GlobIsExact(pattern, text) ==
  modalias_pattern_match(pattern, text) <=>
    IF \E i \in DOMAIN pattern : pattern[i] = "*" THEN Glob(pattern, text)
    ELSE IF pattern = << >> THEN text = << >> ELSE IsPrefix(pattern, text)

(***************************************************************************)
(* Whatever a distribution appends to the number of its kernel, a driver   *)
(* for exactly that kernel fits it, and needing what the kernel was        *)
(* configured with costs no points (matching.rs:45, 348).                  *)
(***************************************************************************)
DetectedSystemFits(base, suffix, boot_config) ==
  LET system == detect(base \o suffix, "x86_64", {}, boot_config)
      exact  == KernelNumbers(base)
      driver == [arch |-> "amd64", min |-> exact, max |-> exact,
                 needs |-> {l.name : l \in {l \in boot_config : l.value # "n"}}]
  IN  exact # << >> =>
        /\ KernelAccepted(system, driver) /\ check_architecture_match(system, driver)
        /\ FeaturePoints(system, driver) = 2

(***************************************************************************)
(* A driver is never offered for a device none of its patterns matches,    *)
(* whatever the rest of its score (matching.rs:284); the list of matches   *)
(* holds each compatible driver once, and no driver stands before a better *)
(* one or changes places with an equal one (matching.rs:186).              *)
(***************************************************************************)
MatchesAreRanked(system, device, drivers) ==
  LET matches == find_matching_drivers(system, device, drivers)
      Position(d) == CHOOSE i \in DOMAIN drivers : drivers[i] = d
      fit == {i \in DOMAIN drivers :
                evaluate_compatibility(system, drivers[i], device).compatible}
  IN  /\ \A i \in fit : check_modalias_match(drivers[i], device)
      /\ {Position(matches[k].driver) : k \in DOMAIN matches} = fit
      /\ \A k, l \in DOMAIN matches : k < l =>
           \/ matches[k].score > matches[l].score
           \/ /\ matches[k].score = matches[l].score
              /\ Position(matches[k].driver) < Position(matches[l].driver)
=============================================================================
