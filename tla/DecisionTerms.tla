--------------------------- MODULE DecisionTerms ---------------------------
(***************************************************************************)
(* What the proofs about the decisions speak of, beside the operators of   *)
(* the modules themselves: orders, the steps of the folds by which lists   *)
(* are split, searched, filtered, sorted and joined, and what each step    *)
(* leaves.                                                                 *)
(***************************************************************************)
EXTENDS MCDecisions

-----------------------------------------------------------------------------
(***************************************************************************)
(* Comparisons, and sequences compared by one of their members.            *)
(***************************************************************************)
Signs == {-1, 0, 1}

\* A comparison of the members of S, as a function.
IsComparison(f, S) ==
  /\ f \in [S \X S -> Signs]
  /\ \A x, y \in S : f[<<x, y>>] = -f[<<y, x>>]
  /\ \A x, y, z \in S : f[<<x, y>>] <= 0 /\ f[<<y, z>>] <= 0 => f[<<x, z>>] <= 0

By(f, a, b) == CompareBy(a, b, LAMBDA x, y : f[<<x, y>>])

\* Where two sequences first differ, and that they do not.
DifferAt(f, a, b, i) ==
  /\ i \in 1..Len(a) /\ i \in 1..Len(b) /\ f[<<a[i], b[i]>>] # 0
  /\ \A j \in 1..Len(a) : j < i => f[<<a[j], b[j]>>] = 0
Agree(f, a, b) == \A i \in 1..Len(a) : i <= Len(b) => f[<<a[i], b[i]>>] = 0

Decided(f, a, b) ==
  /\ Agree(f, a, b) => By(f, a, b) = Sign(Len(a) - Len(b))
  /\ \A i \in Nat : DifferAt(f, a, b, i) => By(f, a, b) = f[<<a[i], b[i]>>]
  /\ Agree(f, a, b) \/ \E i \in Nat : DifferAt(f, a, b, i)

\* What a comparison says of three: equals can be put for each other.
Chains(f, x, y, z) ==
  /\ f[<<x, y>>] = 0 => f[<<x, z>>] = f[<<y, z>>]
  /\ f[<<y, z>>] = 0 => f[<<x, z>>] = f[<<x, y>>]
  /\ f[<<x, y>>] < 0 /\ f[<<y, z>>] < 0 => f[<<x, z>>] < 0

-----------------------------------------------------------------------------
(***************************************************************************)
(* What a fold over a sequence computes on its way: the value of every set *)
(* of positions, the greatest of them last.                                *)
(***************************************************************************)
RunsOver(it, f, base, s, n) ==
  \A T \in SUBSET (1..n) :
    it[T] = IF T = {} THEN base ELSE f[<<it[T \ {Max(T)}], s[Max(T)]>>]

Reaches(A, f, base, s, n) ==
  \E it \in [SUBSET (1..n) -> A] : RunsOver(it, f, base, s, n)

-----------------------------------------------------------------------------
(***************************************************************************)
(* The numbers in a text.                                                  *)
(***************************************************************************)

Adding(s, it) ==
  it = [T \in SUBSET DOMAIN s |->
          IF T = {} THEN 0 ELSE 10 * it[T \ {Max(T)}] + Digit(s[Max(T)])]

-----------------------------------------------------------------------------
(***************************************************************************)
(* Numbers, characters and texts compared.                                 *)
(***************************************************************************)
Order(m, n) == Sign(m - n)

NumberOrder == [p \in Nat \X Nat |-> Order(p[1], p[2])]

Characters == {"+", "-", ".", "1", "2", "a"}

CharacterOrder == [p \in Characters \X Characters |-> Order(Code(p[1]), Code(p[2]))]

-----------------------------------------------------------------------------
(***************************************************************************)
(* Versions compared: identifiers, numbers, and what comes without any.    *)
(***************************************************************************)
\* Lists are compared as their members are, with none after every other if wanted.
ListOrder(f, S) == [p \in Seq(S) \X Seq(S) |-> By(f, p[1], p[2])]

Later(p, q) == (IF p = << >> THEN 1 ELSE 0) - (IF q = << >> THEN 1 ELSE 0)
NoneLast(f, S) ==
  [p \in S \X S |-> IF p[1] = << >> \/ p[2] = << >> THEN Later(p[1], p[2]) ELSE f[p]]

\* First by the numbers, then by the pre-release.
VersionBy(f, g, V) ==
  [v \in V \X V |-> IF v[1].numbers # v[2].numbers THEN f[<<v[1].numbers, v[2].numbers>>]
                    ELSE g[<<v[1].pre, v[2].pre>>]]

Strings == Seq(Characters)
IdOrder == [p \in Strings \X Strings |-> compare_pre_release_id(p[1], p[2])]

\* What Version::parse and DriverVersion::parse give.
IsVersion(v)       == v.numbers \in Seq(Nat) /\ v.pre \in Seq(Strings)
IsDriverVersion(v) == v.numbers \in Seq(Nat) /\ v.pre \in Strings

Padded(kernel, bound) == [i \in DOMAIN bound |-> Component(kernel, i)]

ThenBy(f, g, S) == [p \in S \X S |-> IF f[p] # 0 THEN f[p] ELSE g[p]]

-----------------------------------------------------------------------------
(***************************************************************************)
(* Candidates of the selector, and the last greatest of a list.            *)
(***************************************************************************)
\* A comparison by a part, which k gives, is one if that of the parts is.
PartOrder(f, k, S) == [p \in S \X S |-> f[<<k[p[1]], k[p[2]]>>]]

\* What the selector compares: candidates with a package.
IsCandidate(registry, c) ==
  /\ c.trusted \in BOOLEAN /\ c.score \in Int /\ source_priority(registry, c.source) \in Int
  /\ IsDriverVersion(c.package.version) /\ c.driver.name \in Strings

CandidateOrder(registry, verified, C) ==
  [p \in C \X C |-> CompareCandidates(registry, verified, p[1], p[2])]

\* The i-th of the first n members of a list is the last of the greatest.
IsLastGreatest(f, list, n, i) ==
  /\ i \in 1..n
  /\ \A j \in 1..n : f[<<list[j], list[i]>>] <= 0
  /\ \A j \in 1..n : i < j => f[<<list[i], list[j]>>] > 0

Choosing(registry, verified, list, it) ==
  it = [T \in SUBSET DOMAIN Tail(list) |->
          IF T = {} THEN Head(list)
          ELSE IF CompareCandidates(registry, verified, it[T \ {Max(T)}], Tail(list)[Max(T)]) > 0
               THEN it[T \ {Max(T)}] ELSE Tail(list)[Max(T)]]

-----------------------------------------------------------------------------
(***************************************************************************)
(* Lists filtered, flattened and sorted: what is kept after each member.   *)
(***************************************************************************)
\* The same without a claim on what the fold makes of values it never has.
RunsWithin(it, A, f, base, s) ==
  \A T \in SUBSET (1..Len(s)) :
    IF T = {} THEN it[T] = base
    ELSE it[T \ {Max(T)}] \in A => it[T] = f[<<it[T \ {Max(T)}], s[Max(T)]>>]

\* The value after each member.
Steps(A, f, base, s, g) ==
  /\ g \in [0..Len(s) -> A] /\ g[0] = base
  /\ \A k \in 1..Len(s) : g[k] = f[<<g[k - 1], s[k]>>]

\* What filter computes on its way.
Filtering(list, set, it) ==
  it = [T \in SUBSET DOMAIN list |->
          IF T = {} THEN << >>
          ELSE IF list[Max(T)] \in set THEN Append(it[T \ {Max(T)}], list[Max(T)])
               ELSE it[T \ {Max(T)}]]

\* The lists that filter has kept after each member of the list.
FilterSteps(S, list, set, g) ==
  /\ g \in [0..Len(list) -> Seq(S)] /\ g[0] = << >>
  /\ \A k \in 1..Len(list) :
       g[k] = IF list[k] \in set THEN Append(g[k - 1], list[k]) ELSE g[k - 1]
  /\ filter(list, set) = g[Len(list)]

Filters(S, list, set) == \E g : FilterSteps(S, list, set, g)

\* The members of a list stand by their positions pos, no two at the same.
Ascends(list, pos) == \A i, j \in 1..Len(list) : i < j => pos[list[i]] < pos[list[j]]

\* What FlattenSeq computes on its way.
Flattening(seqs, g) ==
  g = [i \in 1..Len(seqs) |-> IF i = 1 THEN seqs[i] ELSE g[i - 1] \o seqs[i]]

\* In the order of the keys, and where these are equal by position.
Ranked(list, key, pos) ==
  \A i, j \in 1..Len(list) : i < j =>
    \/ key[list[i]] < key[list[j]]
    \/ key[list[i]] = key[list[j]] /\ pos[list[i]] < pos[list[j]]

Joined(S, s, t, u) ==
  /\ u \in Seq(S) /\ Len(u) = Len(s) + Len(t)
  /\ \A i \in 1..Len(s) : u[i] = s[i]
  /\ \A i \in 1..Len(t) : u[Len(s) + i] = t[i]

\* By position x stands behind all members of the list.
Follows(x, list, pos) == \A i \in 1..Len(list) : pos[list[i]] < pos[x]

Placed(S, t, key, pos, x, u) ==
  u \in Seq(S) /\ Range(u) = Range(t) \union {x} /\ Ranked(u, key, pos)

\* What the sort computes on its way.
Sorting(list, key, it) ==
  it = [T \in SUBSET DOMAIN list |->
          IF T = {} THEN << >>
          ELSE InsertAt(it[T \ {Max(T)}], Place(it[T \ {Max(T)}], key, list[Max(T)]),
                        list[Max(T)])]

\* The lists that are sorted after each member of the list.
SortSteps(S, list, key, g) ==
  /\ g \in [0..Len(list) -> Seq(S)] /\ g[0] = << >>
  /\ \A k \in 1..Len(list) :
       g[k] = InsertAt(g[k - 1], Place(g[k - 1], key, list[k]), list[k])
  /\ sort_by_key(list, key) = g[Len(list)]

Sorts(S, list, key) == \E g : SortSteps(S, list, key, g)

Once(list) == \A i, j \in 1..Len(list) : list[i] = list[j] => i = j

\* The places of the members of a list that holds each once.
Places(list) == [d \in Range(list) |-> CHOOSE i \in DOMAIN list : list[i] = d]

-----------------------------------------------------------------------------
(***************************************************************************)
(* The choice of a package.                                                *)
(***************************************************************************)
\* Of two trusted candidates the first is at least as good by the first
\* criterion that tells them apart.
Prefers(registry, verified, a, b) ==
  LET m == manifest_trust_score(verified, a.source)
      n == manifest_trust_score(verified, b.source)
      p == source_priority(registry, a.source)
      q == source_priority(registry, b.source)
      v == DriverVersionCmp(a.package.version, b.package.version)
  IN  /\ m >= n
      /\ m = n => a.score >= b.score
      /\ m = n /\ a.score = b.score => q >= p
      /\ m = n /\ a.score = b.score /\ p = q => v >= 0
      /\ m = n /\ a.score = b.score /\ p = q /\ v = 0
           => CompareText(a.driver.name, b.driver.name) >= 0

\* What OfDriver lists, as a set: the order of the packages does not matter.
CandidatesOf(system, registry, device, driver, packages) ==
  LET compat  == evaluate_compatibility(system, driver, device)
      offered == {p \in packages : Offers(registry, driver, p)}
  IN  IF ~compat.compatible THEN {Candidate(driver, None, None, 0, FALSE, TRUE)}
      ELSE IF offered = {} THEN {Candidate(driver, None, None, compat.score, FALSE, TRUE)}
      ELSE {OfPackage(system, registry, driver, compat.score, p) : p \in offered}

AllCandidates(system, registry, device, drivers, packages) ==
  UNION {CandidatesOf(system, registry, device, d, packages) : d \in drivers}

\* What is known of an inventory, a catalog and the sources: names are texts,
\* versions are versions and priorities numbers.
AreTyped(registry, drivers, packages) ==
  /\ \A d \in drivers : d.name \in Strings
  /\ \A p \in packages : IsDriverVersion(p.version)
  /\ \A id \in DOMAIN registry : registry[id].priority \in Int

\* What does not reject itself can be compared, is trusted and fits the device.
Qualifies(registry, device, c) ==
  /\ IsCandidate(registry, c) /\ c.trusted
  /\ check_modalias_match(c.driver, device)
  /\ is_source_enabled(registry, c.source)

\* Of a list the selector takes one of those that are left over, if there is one.
Takes(registry, verified, set, selected) ==
  LET qualified == {c \in set : ~c.rejected}
  IN  /\ selected = << >> <=> qualified = {}
      /\ selected # << >> => /\ selected[1] \in qualified
                             /\ selected[1] \in Preferred(registry, verified, qualified)

-----------------------------------------------------------------------------
(***************************************************************************)
(* A text split at a separator.                                            *)
(***************************************************************************)
\* SplitSteps(S, s, sep, g): g holds the pieces after each character of s.
\* Split adds one character to the pieces: to the last of them, or a new one
\* after a separator.
Split(pieces, c, sep) ==
  IF c = sep THEN Append(pieces, << >>)
  ELSE [pieces EXCEPT ![Len(pieces)] = Append(@, c)]

SplitSteps(S, s, sep, g) ==
  /\ g \in [0..Len(s) -> Seq(Seq(S)) \ {<< >>}] /\ g[0] = << << >> >>
  /\ \A k \in 1..Len(s) : g[k] = Split(g[k - 1], s[k], sep)
  /\ SplitBy(s, sep) = g[Len(s)]

Splits(S, s, sep) == \E g : SplitSteps(S, s, sep, g)

Splitting(s, sep, it) ==
  it = [T \in SUBSET DOMAIN s |->
          IF T = {} THEN << << >> >> ELSE Split(it[T \ {Max(T)}], s[Max(T)], sep)]

-----------------------------------------------------------------------------
(***************************************************************************)
(* The lines of a ruleset.                                                 *)
(***************************************************************************)
LinesOf(lines) == {lines[i] : i \in 1..Len(lines)}

NoValue == None \notin {"icmp", "tcp"} \union Nat \union LinesOf(PrivateNetworks)

\* The lines every profile has.
CommonLines == {Established, Loopback, Icmp}

DevelopmentPortSet == {22, 80, 443, 3000, 8080}
Networks == {"10.0.0.0/8", "172.16.0.0/12", "192.168.0.0/16"}

\* What a packet can be: one of a private network, or of none.
IsPacket(packet) ==
  /\ packet.established \in BOOLEAN /\ packet.loopback \in BOOLEAN
  /\ packet.network \in Networks \union {None}

-----------------------------------------------------------------------------
(***************************************************************************)
(* The modalias patterns: where a part of a pattern stands in a text, the  *)
(* set of places a glob can have come to, and the one place the search     *)
(* keeps.                                                                  *)
(***************************************************************************)
\* A part stands in a text after its first k members.
StandsAt(text, k, part) ==
  k + Len(part) <= Len(text) /\ \A i \in 1..Len(part) : text[k + i] = part[i]

\* What is left of a text after its first k members.
Leaves(S, text, k, rest) ==
  /\ rest \in Seq(S) /\ Len(rest) = Len(text) - k
  /\ \A i \in 1..(Len(text) - k) : rest[i] = text[k + i]

\* The first place of a part, -1 if there is none.
FirstPlace(text, part, r) ==
  IF r = -1 THEN \A k \in 0..Len(text) : ~StandsAt(text, k, part)
  ELSE /\ r \in 0..Len(text) /\ StandsAt(text, r, part)
       /\ \A k \in 0..Len(text) : StandsAt(text, k, part) => r <= k

\* The pieces of a text when another character is read.
SplitHas(S, pieces, c, sep, u) ==
  /\ u \in Seq(Seq(S)) /\ u # << >>
  /\ c = sep => /\ Len(u) = Len(pieces) + 1 /\ u[Len(u)] = << >>
                /\ \A i \in 1..Len(pieces) : u[i] = pieces[i]
  /\ c # sep => /\ Len(u) = Len(pieces) /\ u[Len(u)] = Append(pieces[Len(u)], c)
                /\ \A i \in 1..Len(pieces) : i # Len(u) => u[i] = pieces[i]

\* A piece that is complete stays as it is.
Grown(p, q) == Len(p) <= Len(q) /\ \A i \in 1..(Len(p) - 1) : q[i] = p[i]

\* A piece of a pattern that ends at j, where the piece before may have ended
\* at pos; the first one begins the text.
Ends(text, first, pos, piece, j) ==
  /\ pos # -1 /\ pos <= j - Len(piece)
  /\ first => j = Len(piece)
  /\ StandsAt(text, j - Len(piece), piece)

Offsets(text) == {-1} \union 0..Len(text)

\* The position after a segment that another one follows is the first at which
\* it can have ended.
Passes(text, first, pos, piece, r) ==
  /\ r \in Offsets(text)
  /\ \A j \in 0..Len(text) :
       r # -1 /\ r <= j <=> \E k \in 0..Len(text) : k <= j /\ Ends(text, first, pos, piece, k)

\* What is reached after each character of a glob.
GlobSteps(text, pattern, g) ==
  /\ g \in [0..Len(pattern) -> SUBSET (0..Len(text))] /\ g[0] = {0}
  /\ \A k \in 1..Len(pattern) : g[k] = GlobStep(text, g[k - 1], pattern[k])
  /\ Glob(pattern, text) <=> Len(text) \in g[Len(pattern)]

Globs(text, pattern) == \E g : GlobSteps(text, pattern, g)

Globbing(text, pattern, it) ==
  it = [T \in SUBSET DOMAIN pattern |->
          IF T = {} THEN {0} ELSE GlobStep(text, it[T \ {Max(T)}], pattern[Max(T)])]

\* The position after each segment.
SearchSteps(text, pattern, segments, g) ==
  /\ g \in [0..Len(segments) -> Offsets(text)] /\ g[0] = 0
  /\ \A k \in 1..Len(segments) : g[k] = MatchSegment(text, segments, g[k - 1], k)
  /\ modalias_pattern_match(pattern, text) <=> g[Len(segments)] # -1

Searches(text, pattern, segments) == \E g : SearchSteps(text, pattern, segments, g)

Searching(text, segments, list, it) ==
  it = [T \in SUBSET DOMAIN list |->
          IF T = {} THEN 0 ELSE MatchSegment(text, segments, it[T \ {Max(T)}], list[Max(T)])]

\* After each character of a pattern, the positions it can have led to are
\* those at which its last piece can end.
LedTo(text, pieces, P, reached) ==
  reached = {j \in 0..Len(text) :
               Ends(text, Len(pieces) = 1, P[Len(pieces) - 1], pieces[Len(pieces)], j)}

-----------------------------------------------------------------------------
(***************************************************************************)
(* The keys of a directory.                                                *)
(***************************************************************************)
\* The key store of a directory, file by file.  Stores(I, K): the keys K under
\* identifiers of I.
Stores(I, K) == UNION {[D -> K] : D \in SUBSET I}

Loads(file) ==
  file.extension \in {"pem", "key"} /\ file.readable /\ parse_key_file(file) # None

WithKeyOf(store, file) == IF Loads(file) THEN add_key(store, parse_key_file(file)) ELSE store

KeysOf(I, P) == [id : I, public : P, enabled : {TRUE}]

LoadSteps(A, files, g) ==
  /\ g \in [0..Len(files) -> A] /\ g[0] = << >>
  /\ \A k \in 1..Len(files) : g[k] = WithKeyOf(g[k - 1], files[k])
  /\ load_keys(files) = g[Len(files)]

Loading(files, it) ==
  it = [T \in SUBSET DOMAIN files |->
          IF T = {} THEN << >> ELSE WithKeyOf(it[T \ {Max(T)}], files[Max(T)])]

\* Adding a key leaves the others.
Adds(S, store, key, u) ==
  /\ u \in S /\ DOMAIN u = DOMAIN store \union {key.id} /\ u[key.id] = key
  /\ \A i \in DOMAIN store : i # key.id => u[i] = store[i]

Loaded(A, files) == \E g : LoadSteps(A, files, g)

\* The store of a directory: its identifiers are those of the key files, each
\* with the key of the last file that has it.
StoreOf(I, K, files, store) ==
  /\ store \in Stores(I, K)
  /\ DOMAIN store = {files[i].id : i \in Held(files)}
  /\ \A i \in Held(files) :
       (\A j \in Held(files) : j > i => files[j].id # files[i].id)
         => store[files[i].id] = parse_key_file(files[i])

\* The files that hold the keys of the store: of each identifier the last.
LastOf(files) ==
  {i \in Held(files) : \A j \in Held(files) : j > i => files[j].id # files[i].id}

\* The store is that of the last files, and keyed by its identifiers.
KeyedBy(files, store) ==
  /\ \A x \in DOMAIN store : \E i \in LastOf(files) : x = files[i].id
  /\ \A i \in LastOf(files) :
       /\ files[i].id \in DOMAIN store
       /\ store[files[i].id]
            = [id |-> files[i].id, public |-> files[i].public, enabled |-> TRUE]

\* Key files whose identifiers are those of I, if any, and whose keys are
\* those of P.
AreKeyFiles(F, I, P) == \A f \in F : f.id \in I \union {None} /\ f.public \in P

-----------------------------------------------------------------------------
(***************************************************************************)
(* Texts of two parts, and the release of a kernel.                        *)
(***************************************************************************)
\* The text of two others with a separator in between.
Between(S, s, sep, t, u) ==
  /\ u \in Seq(S) /\ Len(u) = Len(s) + 1 + Len(t) /\ u[Len(s) + 1] = sep
  /\ \A i \in 1..Len(s) : u[i] = s[i]
  /\ \A i \in 1..Len(t) : u[Len(s) + 1 + i] = t[i]

\* What a list begins with, what is kept of it begins with too.
Begins(s, u) == Len(s) <= Len(u) /\ \A i \in 1..Len(s) : u[i] = s[i]

\* The release of a kernel with what is no digit turned into a separator, and
\* the numbers in a list of its pieces.
Separated(release) == [i \in DOMAIN release |-> IF release[i] \in Digits THEN release[i] ELSE "."]
Numeric(parts) == {p \in Range(parts) : ParseNumber(p) # << >>}
NumbersOf(parts) == [i \in DOMAIN filter(parts, Numeric(parts)) |->
                       ParseNumber(filter(parts, Numeric(parts))[i])[1]]

-----------------------------------------------------------------------------
(***************************************************************************)
(* The names of devices.                                                   *)
(***************************************************************************)
Next2(text, a, b, i) == text[i] = a /\ text[i + 1] = b

\* What the identifiers of a device are if its uevent file has none.
Extracted(text, vendor, device) ==
  extract_vendor_from_modalias(text) = vendor /\ extract_device_from_modalias(text) = device

\* The parts of a modalias: the marks, and what is no mark.
AreParts(S) == Marks \union {"0000", "dc09"} \subseteq S

\* Whatever the modalias, what is extracted from it is nothing or one part.
Fields(S) == {None} \union {<<"0x", x>> : x \in S}

\* The devices that are read, and the modaliases of all buses.
Identities(S, D) ==
  [id : [modalias : Seq(S), vendor : Seq(S), device : Seq(S), bus : BUS_SUBSYSTEMS],
   driver : D, operational : BOOLEAN]

-----------------------------------------------------------------------------
(***************************************************************************)
(* Versions written out and read again.                                    *)
(***************************************************************************)
\* Identifiers with dots between them, one more at a time.
Dot(s, id) == s \o <<".">> \o id
AllJoined(base, list) == FoldLeft(LAMBDA s, id : s \o <<".">> \o id, base, list)

JoinSteps(S, base, list, g) ==
  /\ g \in [0..Len(list) -> Seq(S)] /\ g[0] = base
  /\ \A k \in 1..Len(list) : g[k] = Dot(g[k - 1], list[k])
  /\ AllJoined(base, list) = g[Len(list)]

Joins(S, base, list) == \E g : JoinSteps(S, base, list, g)

Joining(base, list, it) ==
  it = [T \in SUBSET DOMAIN list |->
          IF T = {} THEN base ELSE Dot(it[T \ {Max(T)}], list[Max(T)])]

\* The first separator of a text, and what stands before and behind it.
FirstOf(s, sep) == SelectInSeq(s, LAMBDA c : c = sep)

IsFirst(s, sep, i) ==
  \/ i = 0 /\ \A j \in 1..Len(s) : s[j] # sep
  \/ i \in 1..Len(s) /\ s[i] = sep /\ \A j \in 1..(i - 1) : s[j] # sep

\* A text without a character, and one all of whose characters another has.
Free(s, c) == \A i \in 1..Len(s) : s[i] # c
IsOf(t, s) == \A j \in 1..Len(t) : \E i \in 1..Len(s) : t[j] = s[i]

\* What the text of identifiers behind a separator is, if there are any.
AreIds(S, ids, s) ==
  \/ ids = << >>
  \/ \E t \in Seq(S) \ {<< >>} : ids = SplitBy(t, ".") /\ IsOf(t, s)

\* What is written behind a separator is found behind it.
Shown(sep, ids) == IF ids = << >> THEN << >> ELSE <<sep>> \o Dotted(ids)

\* A version is three numbers and the identifiers of a text without a plus and
\* of any text.
IsParsed(S, s, x, y, z, pre, build) ==
  /\ \A n \in {x, y, z} : n # << >> /\ Value(n) <= U64Max
  /\ parse(s) = <<[numbers |-> [i \in 1..3 |-> <<Value(x), Value(y), Value(z)>>[i]],
                   pre |-> pre, build |-> build]>>
  /\ AreIds(S, pre, Head1(s, "+")) /\ Free(Head1(s, "+"), "+")
  /\ AreIds(S, build, s)
=============================================================================
