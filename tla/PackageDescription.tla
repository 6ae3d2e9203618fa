------------------------- MODULE PackageDescription -------------------------
(***************************************************************************)
(* How driver packages and their sources are described: entries of a       *)
(* repository manifest (repository.rs), package metadata and digests       *)
(* (metadata.rs), source configurations (source.rs), and what the fetcher  *)
(* takes (fetch.rs).                                                       *)
(*                                                                         *)
(* An entry is [name, version, url, size, algorithm, digest, arch,         *)
(* channel].  Versions are texts of VersionOrder; a name or an identifier  *)
(* is "", "good", "long" (over its limit) or "odd" (with a character that  *)
(* is not allowed); hexadecimal digits are [length, hex], where hex tells  *)
(* whether all of them are; a URL is [scheme, parts], where parts holds    *)
(* those of "..", "\\", "@" and "long" that occur in it.                   *)
(***************************************************************************)
EXTENDS VersionOrder, Common

LowerCase(algorithm) ==
  IF algorithm \in {"SHA256", "Sha256"} THEN "sha256"
  ELSE IF algorithm = "BLAKE3" THEN "blake3" ELSE algorithm

SupportedArchitectures == {"x86_64", "amd64", "aarch64", "arm64"}
Channels == {"stable", "beta", "testing", "nightly", "rc"}

\* RepositoryPackageEntry::validate_url
EntryUrlValid(url) ==
  /\ url.scheme \in {"http", "https", "path"}
  /\ url.parts \cap {"..", "\\"} = {}

\* The number of hexadecimal digits a manifest gives for a digest.
MutDigestDigits(algorithm) == IF algorithm = "sha256" THEN 64 ELSE 128

DigestDigits(algorithm) == 64

\* RepositoryPackageEntry::validate
EntryValid(entry) ==
  /\ entry.name \notin {"", "long"}
  /\ DriverVersionParse(entry.version) # << >>
  /\ EntryUrlValid(entry.url)
  /\ entry.size # 0
  /\ LowerCase(entry.algorithm) \in {"sha256", "blake3"}
  /\ entry.digest.length = DigestDigits(LowerCase(entry.algorithm))
  /\ entry.digest.hex
  /\ entry.arch \in SupportedArchitectures \union {None}
  /\ entry.channel \in Channels \union {None}

\* The names of the algorithms PackageDigest and StreamingHasher know.
Algorithm(name) == IF name \in {"sha256", "SHA256", "blake3", "BLAKE3"}
                   THEN LowerCase(name) ELSE None

\* PackageDigest::parse, with sha256 and blake3, which take 32 bytes each.
DigestParse(name, digits) ==
  IF Algorithm(name) = None \/ hex_decode(digits) # 32 THEN None
  ELSE [algorithm |-> Algorithm(name), length |-> 32]

\* StreamingHasher: the length of its result, None for an unknown algorithm.
HashLength(name) == IF Algorithm(name) = None THEN None ELSE 32

\* PackageDigest::matches can only hold of a hash of the same length.
CanMatch(digest) == digest.length = HashLength(digest.algorithm)

NormalizedArchitecture(arch) ==
  IF arch = "amd64" THEN "x86_64" ELSE IF arch = "arm64" THEN "aarch64" ELSE arch

\* The numbers the matcher and the selector read from a kernel version.
KernelParts(text) ==
  LET parts == SplitBy(text, ".")
      read  == filter(parts, {part \in Range(parts) : ParseNumber(part) # << >>})
  IN  [i \in DOMAIN read |-> ParseNumber(read[i])[1]]

KernelValid(text) ==
  LET parts == SplitBy(text, ".")
  IN  \A i \in DOMAIN parts : ParseNumber(parts[i]) # << >>

\* KernelCompatibility::validate; a maximum is None or a text.
CompatibilityValid(min, max) == KernelValid(min) /\ (max # None => KernelValid(max))

\* DriverVersion::validate: what its pre-release may not contain.
DriverVersionValid(pre) == pre \cap {"/", "\\", ";", "|"} = {}

\* PackageId::validate and DriverId::validate
PackageIdValid(id) == "" \notin {id.name, id.source} /\ DriverVersionValid(id.pre)

DriverIdValid(id) ==
  /\ "" \notin {id.name, id.provider, id.arch}
  /\ DriverVersionValid(id.pre)
  /\ CompatibilityValid(id.min, id.max)

MaxPackageSize == 2000000000

\* PackageMetadata::validate
MetadataValid(m) ==
  /\ PackageIdValid(m.id)
  /\ "" \notin {m.name, m.arch, m.filename, m.source}
  /\ 0 < m.size /\ m.size <= MaxPackageSize
  /\ m.digest.length # 0
  /\ CompatibilityValid(m.min, m.max)
  /\ ".." \notin m.url
  /\ m.delta => m.base # None

-----------------------------------------------------------------------------
(***************************************************************************)
(* Sources                                                                 *)
(***************************************************************************)

\* SourceId::new and RepositoryId::new
IdValid(id) == id \notin {"", "long", "odd"}

requires_network(type) == type \in {"Mission", "Vendor", "Community"}

\* SourceConfig::validate_url
SourceUrlValid(url) ==
  /\ url.scheme \in {"https", "file"}
  /\ ~(url.scheme = "https" /\ "@" \in url.parts)

\* SourceConfig::validate; a list of texts is given by those that are empty.
SourceValid(source) ==
  /\ IdValid(source.id)
  /\ source.name # ""
  /\ requires_network(source.type) =>
       \A url \in source.urls : SourceUrlValid(url)
  /\ source.priority <= 1000
  /\ "" \notin source.keys
  /\ "" \notin source.architectures
  /\ ~(source.trust = "Trusted" /\ source.trustedKeys = {})

\* The sources a configuration starts with.
default_sources ==
  LET release == {"mission-os-release-key"}
  IN << [id |-> "mission", name |-> "name", type |-> "Mission", enabled |-> TRUE, there |-> FALSE,
         urls |-> {[scheme |-> "https", parts |-> {}]}, priority |-> 10, keys |-> release,
         architectures |-> {}, trust |-> "Trusted", trustedKeys |-> release],
        [id |-> "linux", name |-> "name", type |-> "Linux", enabled |-> TRUE, there |-> FALSE,
         urls |-> {}, priority |-> 20, keys |-> {}, architectures |-> {},
         trust |-> None, trustedKeys |-> {}] >>

\* SourceRegistry::from_configs: the registry, None for an error.
from_configs(configs) ==
  IF \/ \E i \in DOMAIN configs : ~SourceValid(configs[i])
     \/ \E i, j \in DOMAIN configs : i # j /\ configs[i].id = configs[j].id
  THEN None ELSE configs

\* The enabled sources by priority.
enabled_sources(configs) ==
  LET enabled == filter(configs, {s \in Range(configs) : s.enabled})
  IN  sort_by_key(enabled, [s \in Range(enabled) |-> s.priority])

\* Of the sources with an identifier the first that is enabled; None for an
\* error.  A local source must be there.
resolve_source(configs, id) ==
  LET found == filter(configs, {s \in Range(configs) : s.id = id /\ s.enabled})
  IN  IF found = << >> \/ (found[1].type = "Local" /\ ~found[1].there) THEN None ELSE found[1]

\* PackageFetcher::validate_download_url
validate_download_url(url) ==
  /\ url.scheme \in {"https", "file"}
  /\ ~(url.scheme = "https" /\ "@" \in url.parts)
  /\ "long" \notin url.parts

-----------------------------------------------------------------------------
(***************************************************************************)
(* What one part of the daemon has accepted the next can use: the digest   *)
(* of a valid manifest entry is one the hasher can produce and its         *)
(* architecture one the selector knows; and the sources of a registry that *)
(* need the network are ones the fetcher takes, but for the length of a    *)
(* URL, and each enabled one is listed once, by priority, and found under  *)
(* its name.  The name of the algorithm must be all in lower or all in     *)
(* upper case: the manifest allows any mix (repository.rs:344,             *)
(* metadata.rs:105, fetch.rs:47, source.rs:302).  Valid metadata describe  *)
(* a valid driver, and of the kernel range of one the matcher leaves no    *)
(* component out (inventory.rs:353, matching.rs:360).                      *)
(***************************************************************************)
EntryIsUsable(entry) ==
  EntryValid(entry) =>
    /\ entry.algorithm # "Sha256" =>
         /\ DigestParse(entry.algorithm, entry.digest) # None
         /\ CanMatch(DigestParse(entry.algorithm, entry.digest))
    /\ NormalizedArchitecture(entry.arch) \in {"x86_64", "aarch64", None}

RegistryIsUsable(configs) ==
  from_configs(configs) # None =>
    \A i \in DOMAIN configs : requires_network(configs[i].type) =>
      \A url \in configs[i].urls :
        validate_download_url([url EXCEPT !.parts = @ \ {"long"}])

SourcesAreFound(configs) ==
  LET enabled == enabled_sources(configs)
  IN  from_configs(configs) # None =>
        /\ \A i, j \in DOMAIN enabled :
             i < j => enabled[i].priority <= enabled[j].priority /\ enabled[i] # enabled[j]
        /\ {enabled[i] : i \in DOMAIN enabled}
             = {configs[i] : i \in {j \in DOMAIN configs : configs[j].enabled}}
        /\ \A i \in DOMAIN enabled :
             resolve_source(configs, enabled[i].id)
               = IF enabled[i].type = "Local" /\ ~enabled[i].there THEN None ELSE enabled[i]

RangeIsRead(m) ==
  LET driver == [name |-> m.id.name, provider |-> m.source, arch |-> m.arch,
                 pre |-> m.id.pre, min |-> m.min, max |-> m.max]
  IN  /\ MetadataValid(m) => DriverIdValid(driver)
      /\ DriverIdValid(driver) =>
           \A text \in {m.min} \union ({m.max} \ {None}) :
             Len(KernelParts(text)) = Len(SplitBy(text, "."))
=============================================================================
