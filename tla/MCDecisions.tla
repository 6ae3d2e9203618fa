---------------------------- MODULE MCDecisions ----------------------------
(***************************************************************************)
(* The pure decisions of the two services over bounded inputs: every state *)
(* but the first is one question put to one of the algorithms.             *)
(***************************************************************************)
EXTENDS DriverSelection, LocalPackages, FirewallRules, DeviceIdentity, KernelModules,
        PackageVerification, TLC

VARIABLE question

\* What the modaliases and identifiers of the devices are made of.
DeviceParts == Marks \union {"0000", "dc09", "0x", "unknown", "8086", "0A0C", "0515", "1AF4"}

\* None, which stands for what is not given and for no question at all, is none
\* of the values that can be given.
ASSUME NoneAssumption ==
  /\ None \notin Nat
  /\ None \notin {"icmp", "tcp", "10.0.0.0/8", "172.16.0.0/12", "192.168.0.0/16"}
  /\ None \notin RuleActions \union Ported
  /\ None \notin {"order", "drivers", "range", "selection", "rule", "packet"}
  /\ None \notin {"glob", "match", "system", "device", "modules"}
  /\ None \notin {"text", "entry", "metadata", "path", "sources", "verdict", "registry"}
  /\ None \notin {"sha256", "blake3"}
  /\ None \notin [algorithm : {"sha256", "blake3"}, length : {32}]
  /\ None \notin [id : {"mission", "linux"}, type : {"Mission", "Linux"}, priority : {10, 20}]
  /\ None \notin [state : {"BuiltIn", "Live", "Unloaded"}, used_by : {{}}]
  /\ None \notin Seq(DeviceParts)
  /\ None \notin [id : [modalias : Seq(DeviceParts), vendor : Seq(DeviceParts),
                       device : Seq(DeviceParts), bus : BUS_SUBSYSTEMS],
                 driver : {None, "e1000e"}, operational : BOOLEAN]

Texts(set, n) == UNION {[1..k -> set] : k \in 0..n}
Ask(kind, of) == question' = [kind |-> kind, of |-> of]

\* Texts that are read as versions: from a number to all the parts there are.
AfterCore == {<<"1">>, <<"2">>, <<"1", "1">>, <<"1", "a">>, <<"a">>, <<"1", ".", "2">>, <<"a", ".", "1">>}
Rests     == {<< >>} \union {<<sep>> \o t : sep \in {"-", "+"}, t \in AfterCore \union {<< >>}}
Cores     == {<<"1", ".", a, ".", b>> : a \in {"1", "2"}, b \in {"1", "2", "a"}}
TwoRests == {rest \o more : rest \in Rests, more \in Rests}
VersionTexts == {core \o end : core \in Cores, end \in TwoRests}

\* The versions that are compared, three at a time.
Compared ==
  {[numbers |-> n, pre |-> p, build |-> << >>] :
     n \in {<<1, 1, 2>>, <<1, 2, 1>>},
     p \in {<< >>, <<<<"2">>>>, <<<<"1", "1">>>>, <<<<"1", "a">>>>, <<<<"a">>>>,
            <<<<"2">>, <<"1">>>>}}
DriverCompared ==
  {[numbers |-> n, pre |-> p] :
     n \in {<<1, 1, 2>>, <<1, 2, 1>>}, p \in {<< >>, <<"2">>, <<"1", "1">>, <<"a">>}}

AskText  == \E s \in VersionTexts : Ask("text", s)
AskOrder == \E a, b, c \in Compared : Ask("order", <<a, b, c>>)
AskDriverOrder == \E a, b, c \in DriverCompared : Ask("drivers", <<a, b, c>>)

Kernels == [1..2 -> 1..2] \union [1..3 -> {1, 2}]
Bounds  == {<<1>>, <<2>>, <<1, 2>>, <<2, 1>>, <<1, 2, 1>>, <<2, 2, 2>>}
AskRange == \E min \in Bounds, max \in Bounds \union {<< >>}, low, middle, high \in Kernels :
              Ask("range", <<min, max, low, middle, high>>)

\* Patterns and modaliases.
AskGlob == \E pattern \in Texts({"1", "2", "*"}, 4), text \in Texts({"1", "2"}, 4) :
             Ask("glob", <<pattern, text>>)

-----------------------------------------------------------------------------
\* A device, a kernel and drivers that fit them in different ways.
Device  == [modalias |-> <<"p", "1", "2">>, vendor |-> <<"0x", "1">>, device |-> <<"2">>]
Systems == [kernel : {<< >>, <<6, 1>>}, arch : {"x86_64"}, features : {{}, {"f"}}]

Fit(name, arch, patterns, min, needs) ==
  [name |-> <<name>>, arch |-> arch, patterns |-> patterns, min |-> min, max |-> << >>,
   needs |-> needs, stored |-> Incompatible]

DriverTexts == {{<<"p", "*">>}, {<<"1", "2">>}, {<<"*", "2">>, <<"a">>}, {}}
SomeDrivers(name) ==
  {Fit(name, arch, patterns, min, needs) :
     arch \in {"amd64", "arm64"}, patterns \in DriverTexts,
     min \in {<<6>>, <<7>>}, needs \in {{}, {"f"}, {"g"}}}
Fitting(name) == {Fit(name, "x86_64", patterns, <<6>>, {}) : patterns \in DriverTexts}

AskMatch == \E system \in Systems, a \in SomeDrivers("1"), b \in Fitting("2"), c \in Fitting("a") :
              Ask("match", <<system, Device, <<a, b, c>>>>)

\* Kernel releases and configurations.
Configurations == {{}, {[name |-> "f", value |-> "y"]},
                   {[name |-> "f", value |-> "m"], [name |-> "g", value |-> "n"]}}
AskSystem ==
  \E base \in Texts({"1", "2", "."}, 5),
     suffix \in {<< >>} \union {<<"-">> \o t : t \in Texts({"1", "a", "."}, 3)},
     boot \in Configurations :
    Ask("system", <<base, suffix, boot>>)

-----------------------------------------------------------------------------
\* Sources of each trust, and packages that differ in one thing or in several.
Source(enabled, priority, keys, type) ==
  [enabled |-> enabled, priority |-> priority, keys |-> keys, type |-> type]
Registries == {[m |-> Source(e, p, {"k"}, "Mission"), v |-> Source(TRUE, 2, k, "Vendor")] :
                 e \in BOOLEAN, p \in {1, 2, 3}, k \in {{}, {"k"}}}
Verifications == [{"m", "v"} -> {None, "Verified", "InvalidSignature"}]

Release(n, pre) == [numbers |-> <<1, 1, n>>, pre |-> pre]
Package(name, version, arch, min, source, key) ==
  [name |-> <<name>>, version |-> version, arch |-> arch, min |-> min, max |-> << >>,
   source |-> source, key |-> key]
Ours   == {Package("1", v, arch, <<6>>, "m", "k") :
             v \in {Release(1, << >>), Release(2, <<"a">>)}, arch \in {"amd64", "arm64"}}
Theirs == {Package(name, Release(1, << >>), "x86_64", min, "v", key) :
             name \in {"1", "2"}, min \in {<<6>>, <<7>>}, key \in {None, "k", "other"}}

TheSystem  == [kernel |-> <<6, 1>>, arch |-> "x86_64", features |-> {}]
Inventories == {<<Fit("1", "amd64", {<<"p", "*">>}, <<6>>, {}), b>> :
                  b \in {Fit("2", "amd64", {<<"*", "2">>}, <<6>>, {}),
                         Fit("2", "amd64", {<<"*", "1", "2">>}, <<6>>, {"g"})}}

AskSelection ==
  \E registry \in Registries, verified \in Verifications, drivers \in Inventories,
     a \in Ours, b, c \in Theirs :
    /\ b # c
    /\ Ask("selection", <<registry, verified, drivers, <<a, b, c>>>>)

-----------------------------------------------------------------------------
\* Descriptions: one field at a time may be wrong, the digest in every way.
Url(scheme, parts) == [scheme |-> scheme, parts |-> parts]
Urls == {Url(s, p) : s \in {"https", "http", "file", "path", ""},
                     p \in {{}, {".."}, {"@"}, {"long"}, {"\\"}}}
Entries ==
  [name : {"", "good", "long"}, version : {<<"1", ".", "2", ".", "1">>, <<"1", ".", "2">>},
   url : {Url("https", {}), Url("path", {}), Url("http", {".."}), Url("file", {})},
   size : {None, 0, 1}, algorithm : {"sha256", "SHA256", "Sha256", "blake3", "BLAKE3", "md5"},
   digest : [length : {63, 64, 128}, hex : BOOLEAN],
   arch : {None, "amd64", "arm64", "x86_64", "mips"}, channel : {None, "stable", "old"}]
Configs ==
  [id : {"good", "odd", "mission"}, name : {"name"}, type : {"Mission", "Vendor", "Local"},
   enabled : BOOLEAN, there : BOOLEAN,
   urls : SUBSET {Url("https", {}), Url("https", {"@"}), Url("http", {}), Url("file", {"long"})},
   priority : {10, 15, 1001}, keys : {{"k"}}, architectures : {{}}, trust : {None, "Trusted"},
   trustedKeys : {{}, {"k"}}]
KernelTexts == Texts({"1", ".", "a", "+"}, 3)
Metadata ==
  [id : [name : {"", "n"}, source : {"s"}, pre : {{}, {"/"}}], name : {"n"}, arch : {"", "amd64"},
   filename : {"f"}, source : {"s"}, size : {0, 1, MaxPackageSize + 1}, digest : {[length |-> 32]},
   min : KernelTexts, max : {None, <<"1", ".">>, <<"1", ".", "2">>}, url : {{}, {".."}},
   delta : BOOLEAN, base : {None, <<1, 1, 1>>}]

AskMetadata == \E m \in Metadata : Ask("metadata", m)
AskEntry  == \E entry \in Entries : Ask("entry", entry)
AskConfig == \E config \in Configs : Ask("registry", default_sources \o <<config>>)

\* Packages on disk, with signatures beside them, and lists of source identifiers.
Path(dir, stem, extensions) == [dir |-> dir, stem |-> stem, extensions |-> extensions]
Beside == {Path("/tmp", stem, e) : stem \in {"a", "b"},
             e \in {<<"ko">>, <<"xz">>, <<"sig">>, <<"ko", "sig">>, <<"xz", "sig">>}}
SmallTrees == UNION {[s -> [kind : {"file", "directory"}, size : {1, 3}]] :
                       s \in {s \in SUBSET Beside : Cardinality(s) <= 3}}
AskPath == \E files \in SmallTrees, path \in Beside \union {Path("/tmp", "..", <<"ko">>)} :
             Ask("path", <<files, path>>)
AskSources ==
  \E ids \in Texts({"mission", "linux", "linux-firmware", "vendor:v", "vendor", "local"}, 3) :
    Ask("sources", ids)

\* Devices as the kernel shows them.
Pairs == {[key |-> k, value |-> v] : k \in {"VENDOR_ID", "DEVICE_ID", "DRIVER"}, v \in {<< >>, <<"1AF4">>}}
           \union {[key |-> None, value |-> << >>]}
AskDevice ==
  \E bus \in BUS_SUBSYSTEMS, vendor \in {"8086", "0000"}, device \in {"0A0C", "0000"},
     revision \in {"0000", "0515"}, uevent \in Texts(Pairs, 2), driver \in {None, "e1000e"} :
    Ask("device", <<bus, vendor, device, revision, uevent, driver>>)

\* Kernel modules on disk and in the kernel.
Named(stem) == [stem |-> stem, extensions |-> << >>]
ModuleFiles == {[stem |-> stem, extensions |-> e] :
                  stem \in {"a", "b"}, e \in {<<".ko">>, <<".ko", ".xz">>, <<".ko", ".zst">>, << >>}}
ModuleTrees == {[kernel |-> k, updates |-> u, extra |-> x] :
                  k \in SUBSET ModuleFiles, u \in {{}, {[stem |-> "a", extensions |-> <<".ko", ".gz">>]}},
                  x \in {{}, {[stem |-> "b", extensions |-> <<".ko">>]}}}
SysModules  == UNION {[s -> [hold : BOOLEAN, holders : {{}}]] : s \in SUBSET {Named("a"), Named("b")}}
ProcLines   == {{}} \union
  {{[name |-> Named(n), state |-> st, fields |-> 6]} :
     n \in {"a", "b"}, st \in {"Live", "Loading", "Unloading"}}
AskModules == \E sys \in SysModules, tree \in ModuleTrees, lines \in ProcLines :
                Ask("modules", <<sys, tree, lines>>)

\* Key files in the order of the directory, and signatures.
KeyFile(extension, readable, id, length, public) ==
  [extension |-> extension, readable |-> readable, json |-> TRUE, id |-> id,
   digits |-> [length |-> length, hex |-> TRUE], public |-> public]
KeyFiles ==
  {KeyFile(e, TRUE, id, n, p) : e \in {"pem", "txt"}, id \in {None, "i", "j"}, n \in {62, 64},
                                p \in {"k", "l"}}
    \union {KeyFile("key", FALSE, "i", 64, "k"), KeyFile("key", TRUE, "m", 64, "l")}
Signatures == {None} \union [signer : {"k", "l"}, content : {"c", "d"}]
AskVerdict ==
  \E files \in Texts(KeyFiles, 2), allow, readable \in BOOLEAN, signature \in Signatures,
     key \in {None, "i", "j"} :
    Ask("verdict", <<files, allow, [readable |-> readable, content |-> "c"], signature, key>>)

\* Firewall rules and packets.
Addresses == {<<"1", ".", "2">>, <<"a", ":", "1">>}
RuleShapes ==
  [name : RuleNames, direction : Directions, action : {"accept", "reject"},
   protocol : Protocols \union {None},
   source : {None, <<"1", ";">>, <<";">>} \union Addresses, destination : {None, <<"1", ".", "2">>},
   sport : {None, 22}, dport : {None, 0, 22}, enabled : BOOLEAN]
Rules == {rule \in RuleShapes : rule.name # "plain" => rule.source = None}
Packets ==
  [direction : Directions, protocol : {"tcp", "udp", "icmp"},
   source : Addresses, destination : Addresses,
   sport : {22, 80}, dport : {22, 80, 25}, network : {None, "10.0.0.0/8", "192.168.0.0/16"},
   established : BOOLEAN, loopback : BOOLEAN]
AskRule   == \E rule \in Rules,
                packet \in {p \in Packets : p.network = None /\ ~p.loopback /\ ~p.established
                                          /\ p.destination = <<"1", ".", "2">>} :
               Ask("rule", <<rule, packet>>)
AskPacket == \E packet \in Packets : Ask("packet", packet)

-----------------------------------------------------------------------------
Unasked == question = [kind |-> None]
AskOne ==
  /\ question.kind = None
  /\ \/ AskText \/ AskOrder \/ AskDriverOrder \/ AskRange
     \/ AskGlob \/ AskMatch \/ AskSelection
     \/ AskEntry \/ AskMetadata \/ AskConfig \/ AskRule \/ AskPacket
     \/ AskPath \/ AskSources \/ AskDevice \/ AskModules \/ AskVerdict \/ AskSystem
Questions == Unasked /\ [][AskOne]_question

Of == question.of
Asked(kind) == question.kind = kind

\* Versions are totally ordered, and the kernels a driver accepts have no gap
\* (version.rs:341, inventory.rs:243, matching.rs:360).
VersionsAreOrdered ==
  /\ Asked("order") => IsOrder(cmp, Of[1], Of[2], Of[3]) /\ FollowsSemver(Of[1], Of[2])
  /\ Asked("drivers") => IsOrder(DriverVersionCmp, Of[1], Of[2], Of[3])
  /\ Asked("range") => IsRange(Of[1], Of[2], Of[3], Of[4], Of[5])

\* A driver is offered for a device only if a pattern matches it, the patterns
\* mean what globs mean, and the list is ranked (matching.rs:284, 485, 186).
MatchesAreSound ==
  /\ Asked("glob") => GlobIsExact(Of[1], Of[2])
  /\ Asked("match") => MatchesAreRanked(Of[1], Of[2], Of[3])
  /\ Asked("system") => DetectedSystemFits(Of[1], Of[2], Of[3])
  /\ Asked("device") => IdentityIsOwn(Of[1], Of[2], Of[3], Of[4], Of[5], Of[6])
  /\ Asked("modules") =>
       FilesAreFound(Of[1], Of[2]) /\ AnswersAgree(Of[1], Of[2], Of[3])

\* The selector picks what its criteria leave over (selector.rs:247).
SelectionIsBest ==
  Asked("selection") => SelectedIsBest(TheSystem, Of[1], Of[2], Device, Of[3], Of[4])

\* Versions are read back as they are shown, and what the manifest and the
\* registry accept, the hasher and the fetcher take (version.rs:300,
\* repository.rs:344, source.rs:205).
DescriptionsAreUsable ==
  /\ Asked("text") => TextAgrees(Of)
  /\ Asked("entry") => EntryIsUsable(Of)
  /\ Asked("metadata") => RangeIsRead(Of)
  /\ Asked("path") => SignatureIsOwn(Of[1], Of[2])
  /\ Asked("sources") => SourcesAgree(Of)
  /\ Asked("verdict") => VerdictFollowsKeys(Of[1], Of[2], Of[3], Of[4], Of[5])
  /\ Asked("registry") => RegistryIsUsable(Of) /\ SourcesAreFound(Of)

\* A line of the firewall that is read means its rule, and the profiles widen the
\* public one (nftables.rs:184, 86).
FirewallIsFaithful ==
  /\ Asked("rule") => LineIsRule(Of[1], Of[2])
  /\ Asked("packet") => ProfilesWiden(Of)
=============================================================================
