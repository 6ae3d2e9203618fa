-------------------------- MODULE Decisions_proofs --------------------------
(***************************************************************************)
(* What the decisions of the two services come to for every value they can *)
(* be given, beyond the bounded questions MCDecisions puts to them: when a *)
(* manifest is accepted, which version is the later one and which package  *)
(* the better candidate, and which packets the firewall lets in.           *)
(*                                                                         *)
(* Of the verification of manifests, which keeps a state, the module has   *)
(* the invariant; the rest are functions of their arguments.               *)
(***************************************************************************)
EXTENDS RepositoryTrust, DecisionTerms, WellFoundedInduction, TLAPS

-----------------------------------------------------------------------------
(***************************************************************************)
(* Manifests: each verification is judged at the moment it is made, so that*)
(* the invariant has little to carry along.  Manifests are published in    *)
(* their own time, and what the answer says of one stays true because      *)
(* nothing published is ever taken back.                                   *)
(***************************************************************************)
PublishedInTime == \A m \in published : 1 <= m.issued /\ m.issued <= time

IInv == TypeOK /\ PublishedInTime /\ ReplayIsBounded /\ FreshIsAccepted

\* The daemon's clock is never further behind than drift says.
LEMMA NowIsNear ==
  ASSUME TypeOK
  PROVE  /\ Now \in Nat /\ Behind \in Nat /\ drift \in Int
         /\ time <= Now + Behind
         /\ \A s \in Nat : -s <= drift /\ drift <= s => time <= Now + s /\ Now <= time + s
<1>1. drift \in Int /\ time \in Nat
  BY PolicyAssumption DEF TypeOK
<1>2. QED
  BY <1>1 DEF Now, Behind

\* What check_freshness accepts is within the limits on the repository's clock.
LEMMA FreshBounds ==
  ASSUME TypeOK, NEW m \in Manifests, check_freshness(m)
  PROVE  time - m.issued <= MaxAge + Behind /\ time <= m.expires + Skew + Behind
<1>1. m.issued \in Nat /\ m.expires \in Nat /\ time \in Nat
  BY DEF Manifests, TypeOK
<1>2. Now \in Nat /\ Behind \in Nat /\ time <= Now + Behind
  BY NowIsNear
<1>3. Now - m.issued <= MaxAge
  BY <1>1, <1>2, PolicyAssumption DEF check_freshness, Minus
<1>4. Now <= m.expires + Skew
  BY <1>1, <1>2, PolicyAssumption DEF check_freshness, Minus
<1>5. QED
  BY <1>1, <1>2, <1>3, <1>4, PolicyAssumption

\* What is young enough on the repository's clock is fresh on a clock near it.
LEMMA NearIsFresh ==
  ASSUME TypeOK, NEW m \in Manifests, m.issued <= time,
         -Skew <= drift, drift <= Skew,
         time - m.issued + Skew <= MaxAge, time <= m.expires
  PROVE  check_freshness(m)
<1>1. m.issued \in Nat /\ m.expires \in Nat /\ time \in Nat
  BY DEF Manifests, TypeOK
<1>2. Now \in Nat /\ time <= Now + Skew /\ Now <= time + Skew
  BY NowIsNear, PolicyAssumption
<1>3. QED
  BY <1>1, <1>2, PolicyAssumption, SMTT(20) DEF check_freshness, Minus

\* A result, and what it means for the manifest and its signer.
LEMMA ResultsMean ==
  ASSUME NEW m, NEW signer
  PROVE  LET result == verify_manifest(m, signer)
         IN  /\ result \in Results /\ result # "Unverified"
             /\ result = "Verified" => check_freshness(m) /\ signer = "repository"
BY DEF verify_manifest, verify_manifest_signature, Results

LEMMA UnsignedResultsMean ==
  ASSUME NEW m
  PROVE  LET result == validate_unsigned_manifest(m)
         IN  /\ result \in Results /\ result # "Verified"
             /\ result = "Unverified" => check_freshness(m)
BY DEF validate_unsigned_manifest, Results

\* The invariant after one verification.
LEMMA VerifyKeeps ==
  ASSUME IInv, NEW m \in Manifests, NEW signer \in Signers, NEW result \in Results,
         Verify(m, signer, result),
         result \in {"Verified", "Unverified"} => check_freshness(m),
         result = "Verified" => m \in published,
         (/\ signer = "repository" /\ m \in published /\ ManifestValid(m) /\ check_freshness(m)
          /\ \E i \in DOMAIN TrustedKeys : TrustedKeys[i] = RepositoryKey)
           => result \in {"Verified", "Unverified"},
         signer = "repository" => m \in published
  PROVE  IInv'
<1> USE DEF IInv
<1>1. /\ answer' = [manifest |-> m, signer |-> signer, result |-> result, at |-> time]
      /\ audit' = AuditOf(result) /\ UNCHANGED <<time, drift, published>>
  BY DEF Verify
<1>2. TypeOK'
  BY <1>1 DEF TypeOK
<1>3. PublishedInTime'
  BY <1>1 DEF PublishedInTime
<1>4. ReplayIsBounded'
  <2>1. result \in {"Verified", "Unverified"} =>
          time - m.issued <= MaxAge + Behind /\ time <= m.expires + Skew + Behind
    BY FreshBounds
  <2>2. result = "Verified" => audit' = "metadata_authentication_success"
    BY <1>1 DEF AuditOf
  <2>3. QED
    BY <1>1, <2>1, <2>2 DEF ReplayIsBounded, Behind
<1>5. FreshIsAccepted'
  <2>1. SUFFICES ASSUME signer = "repository", m.complete, m.issued < m.expires,
                        \E i \in DOMAIN TrustedKeys : TrustedKeys[i] = RepositoryKey,
                        -Skew <= drift, drift <= Skew,
                        time - m.issued + Skew <= MaxAge, time <= m.expires
                 PROVE  result \in {"Verified", "Unverified"}
    BY <1>1 DEF FreshIsAccepted
  <2>2. m \in published /\ 1 <= m.issued /\ m.issued <= time
    BY <2>1 DEF PublishedInTime
  <2>3. ManifestValid(m)
    BY <2>1, <2>2 DEF ManifestValid, Manifests
  <2>4. check_freshness(m)
    BY <2>1, <2>2, NearIsFresh
  <2>5. QED
    BY <2>1, <2>2, <2>3, <2>4
<1>6. QED
  BY <1>2, <1>3, <1>4, <1>5

LEMMA InitEstablishes == Init => IInv
<1>1. SUFFICES ASSUME Init PROVE IInv
  OBVIOUS
<1>2. NoManifest \in Manifests /\ ~NoManifest.complete
  BY DEF NoManifest, Manifests
<1>3. TypeOK
  BY <1>1, <1>2 DEF Init, TypeOK, Signers, Results
<1>4. QED
  BY <1>1, <1>2, <1>3 DEF Init, IInv, PublishedInTime, ReplayIsBounded, FreshIsAccepted

LEMMA AlteredIsManifest ==
  ASSUME TypeOK, NEW m \in published
  PROVE  m \in Manifests /\ Altered(m) \in Manifests
BY DEF TypeOK, Altered, Manifests

LEMMA NextKeeps == IInv /\ [Next]_vars => IInv'
<1>1. SUFFICES ASSUME IInv, [Next]_vars PROVE IInv'
  OBVIOUS
<1>2. TypeOK /\ PublishedInTime /\ ReplayIsBounded /\ FreshIsAccepted
  BY <1>1 DEF IInv
<1>3. CASE Tick
  <2>1. time \in Nat /\ time' = time + 1 /\ UNCHANGED <<drift, published, answer, audit>>
    BY <1>2, <1>3 DEF Tick, TypeOK
  <2>2. TypeOK'
    BY <1>2, <2>1 DEF TypeOK
  <2>3. PublishedInTime'
    BY <1>2, <2>1 DEF PublishedInTime, TypeOK, Manifests
  <2>4. ReplayIsBounded' /\ FreshIsAccepted'
    BY <1>2, <2>1 DEF ReplayIsBounded, FreshIsAccepted, Behind
  <2>5. QED
    BY <2>2, <2>3, <2>4 DEF IInv
<1>4. ASSUME NEW lifetime \in Lifetimes, NEW complete \in BOOLEAN, Publish(lifetime, complete)
      PROVE  IInv'
  <2> DEFINE new == [issued |-> time, expires |-> time + lifetime, complete |-> complete]
  <2>1. published' = published \union {new} /\ UNCHANGED <<time, drift, answer, audit>>
    BY <1>4 DEF Publish
  <2>2. new \in Manifests /\ 1 <= new.issued /\ new.issued <= time
    BY <1>2, PolicyAssumption DEF TypeOK, Manifests
  <2>3. TypeOK'
    BY <1>2, <2>1, <2>2 DEF TypeOK
  <2>4. PublishedInTime'
    BY <1>2, <2>1, <2>2 DEF PublishedInTime
  <2>5. ReplayIsBounded' /\ FreshIsAccepted'
    BY <1>2, <2>1 DEF ReplayIsBounded, FreshIsAccepted, Behind
  <2>6. QED
    BY <2>3, <2>4, <2>5 DEF IInv
<1>5. CASE RefreshPublished
  <2>1. PICK m \in published : Refresh(m, "repository")
    BY <1>5 DEF RefreshPublished
  <2>2. m \in Manifests /\ "repository" \in Signers
    BY <1>2, AlteredIsManifest DEF Signers
  <2>3. ManifestValid(m) /\ check_freshness(m)
        /\ (\E i \in DOMAIN TrustedKeys : TrustedKeys[i] = RepositoryKey)
          => verify_manifest(m, "repository") = "Verified"
    BY PolicyAssumption DEF verify_manifest, verify_manifest_signature
  <2>4. QED
    BY <1>1, <2>1, <2>2, <2>3, ResultsMean, VerifyKeeps DEF Refresh
<1>6. CASE RefreshAltered
  <2>1. PICK m \in published, signer \in {"somebody", "nobody"} : Refresh(Altered(m), signer)
    BY <1>6 DEF RefreshAltered
  <2>2. Altered(m) \in Manifests /\ signer \in Signers
    BY <1>2, <2>1, AlteredIsManifest DEF Signers
  <2>3. QED
    BY <1>1, <2>1, <2>2, ResultsMean, VerifyKeeps DEF Refresh
<1>7. CASE RefreshUnsigned
  <2>1. PICK m \in published :
          \/ Verify(m, "repository", validate_unsigned_manifest(m))
          \/ Verify(Altered(m), "nobody", validate_unsigned_manifest(Altered(m)))
    BY <1>7 DEF RefreshUnsigned
  <2>2. /\ m \in Manifests /\ Altered(m) \in Manifests
        /\ "repository" \in Signers /\ "nobody" \in Signers
    BY <1>2, AlteredIsManifest DEF Signers
  <2>3. ManifestValid(m) /\ check_freshness(m) => validate_unsigned_manifest(m) = "Unverified"
    BY DEF validate_unsigned_manifest
  <2>4. CASE Verify(m, "repository", validate_unsigned_manifest(m))
    BY <1>1, <2>2, <2>3, <2>4, UnsignedResultsMean, VerifyKeeps
  <2>5. CASE Verify(Altered(m), "nobody", validate_unsigned_manifest(Altered(m)))
    BY <1>1, <2>2, <2>5, UnsignedResultsMean, VerifyKeeps
  <2>6. QED
    BY <2>1, <2>4, <2>5
<1>8. CASE UNCHANGED vars
  BY <1>2, <1>8 DEF vars, IInv, TypeOK, PublishedInTime, ReplayIsBounded, FreshIsAccepted, Behind
<1>9. QED
  BY <1>1, <1>3, <1>4, <1>5, <1>6, <1>7, <1>8 DEF Next

\* The invariant holds: types, times of publication, and both properties.
THEOREM Invariance == Spec => []IInv
BY InitEstablishes, NextKeeps, PTL DEF Spec

\* The clocks, the manifests and the last answer keep their types.
THEOREM TypeCorrect == Spec => []TypeOK
<1>1. IInv => TypeOK
  BY DEF IInv
<1>2. QED
  BY <1>1, Invariance, PTL

\* However long a mirror holds an update back, what is accepted exceeds the
\* limits of FreshnessPolicy by no more than the skew and what the daemon's
\* clock is behind, and what is accepted as signed was published.
THEOREM ReplaysAreBounded == Spec => []ReplayIsBounded
<1>1. IInv => ReplayIsBounded
  BY DEF IInv
<1>2. QED
  BY <1>1, Invariance, PTL

\* What the repository published lately is not refused by a daemon whose clock
\* is within the skew of the repository's.
THEOREM FreshOnesAreAccepted == Spec => []FreshIsAccepted
<1>1. IInv => FreshIsAccepted
  BY DEF IInv
<1>2. QED
  BY <1>1, Invariance, PTL

-----------------------------------------------------------------------------
(***************************************************************************)
(* Comparisons.  One that decides by the first difference of two sequences *)
(* and then by their lengths is an order if the comparison of the members is*)
(* one: of two first differences the smaller decides how the outer two of  *)
(* three sequences compare.                                                *)
(***************************************************************************)
\* Every set of numbers that is not empty has a smallest.
LEMMA SmallestNumber ==
  ASSUME NEW I \in SUBSET Nat, I # {}
  PROVE  \E i \in I : \A j \in I : i <= j
<1>1. PICK i \in I : \A j \in I : ~(<<j, i>> \in OpToRel(<, Nat))
  BY NatLessThanWellFounded, WFMin, Zenon
<1>2. \A j \in I : ~(j < i)
  BY <1>1, Zenon DEF OpToRel
<1>3. QED
  BY <1>2

LEMMA SignIs ==
  \A n \in Int : /\ Sign(n) \in Signs /\ Sign(-n) = -Sign(n)
                 /\ Sign(n) <= 0 <=> n <= 0
                 /\ Sign(n) = 0 <=> n = 0
BY DEF Sign, Signs

LEMMA ByIs ==
  ASSUME NEW S, NEW f, NEW a \in Seq(S), NEW b \in Seq(S)
  PROVE  Decided(f, a, b)
<1> DEFINE both  == 1..(IF Len(a) < Len(b) THEN Len(a) ELSE Len(b))
           apart == {i \in both : f[<<a[i], b[i]>>] # 0}
           first == CHOOSE i \in apart : \A j \in apart : i <= j
<1>1. By(f, a, b) = IF apart = {} THEN Sign(Len(a) - Len(b)) ELSE f[<<a[first], b[first]>>]
  BY DEF By, CompareBy
<1>2. Len(a) \in Nat /\ Len(b) \in Nat
  OBVIOUS
<1>3. both = {i \in 1..Len(a) : i <= Len(b)} /\ apart \in SUBSET Nat
  BY <1>2
<1>4. Agree(f, a, b) <=> apart = {}
  BY <1>3 DEF Agree
<1>5. ASSUME NEW i \in Nat, DifferAt(f, a, b, i)
      PROVE  apart # {} /\ first = i
  <2>1. i \in apart /\ \A j \in apart : i <= j
    BY <1>2, <1>3, <1>5 DEF DifferAt
  <2> HIDE DEF apart
  <2>2. \A j \in apart : (\A k \in apart : j <= k) => j = i
    BY <1>3, <2>1
  <2>3. QED
    BY <2>1, <2>2, Zenon
<1>6. ASSUME apart # {}
      PROVE  \E i \in Nat : DifferAt(f, a, b, i)
  <2> HIDE DEF apart
  <2>1. PICK i \in apart : \A j \in apart : i <= j
    BY <1>3, <1>6, SmallestNumber, Zenon
  <2> USE DEF apart
  <2>2. \A j \in 1..Len(a) : j < i => j \in both /\ j \notin apart
    BY <1>2, <1>3, <2>1
  <2>3. i \in Nat /\ i \in 1..Len(a) /\ i \in 1..Len(b) /\ f[<<a[i], b[i]>>] # 0
    BY <1>2, <1>3, <2>1
  <2>4. \A j \in 1..Len(a) : j < i => f[<<a[j], b[j]>>] = 0
    BY <2>2
  <2>5. DifferAt(f, a, b, i)
    BY <2>3, <2>4 DEF DifferAt
  <2>6. QED
    BY <2>5
<1>7. QED
  BY <1>1, <1>4, <1>5, <1>6, Zenon DEF Decided

LEMMA ByLength ==
  ASSUME NEW S, NEW f, NEW a \in Seq(S), NEW b \in Seq(S), Agree(f, a, b)
  PROVE  By(f, a, b) = Sign(Len(a) - Len(b))
<1>1. Decided(f, a, b)
  BY ByIs
<1>2. QED
  BY <1>1 DEF Decided

LEMMA ByFirst ==
  ASSUME NEW S, NEW f, NEW a \in Seq(S), NEW b \in Seq(S), NEW i \in Nat, DifferAt(f, a, b, i)
  PROVE  By(f, a, b) = f[<<a[i], b[i]>>]
<1>1. Decided(f, a, b)
  BY ByIs
<1>2. QED
  BY <1>1 DEF Decided

LEMMA AgreeOrDiffer ==
  ASSUME NEW S, NEW f, NEW a \in Seq(S), NEW b \in Seq(S)
  PROVE  Agree(f, a, b) \/ \E i \in Nat : DifferAt(f, a, b, i)
BY ByIs, Zenon DEF Decided

LEMMA ByIsSign ==
  ASSUME NEW S, NEW f, IsComparison(f, S), NEW a \in Seq(S), NEW b \in Seq(S)
  PROVE  By(f, a, b) \in Signs
<1>1. CASE Agree(f, a, b)
  <2>1. Len(a) - Len(b) \in Int
    OBVIOUS
  <2>2. By(f, a, b) = Sign(Len(a) - Len(b))
    BY <1>1, ByLength
  <2>3. QED
    BY <2>1, <2>2, SignIs
<1>2. ASSUME NEW i \in Nat, DifferAt(f, a, b, i) PROVE By(f, a, b) \in Signs
  <2>1. a[i] \in S /\ b[i] \in S
    BY <1>2 DEF DifferAt
  <2>2. f[<<a[i], b[i]>>] \in Signs
    BY <2>1 DEF IsComparison
  <2>3. By(f, a, b) = f[<<a[i], b[i]>>]
    BY <1>2, ByFirst
  <2>4. QED
    BY <2>2, <2>3
<1>3. QED
  BY <1>1, <1>2, AgreeOrDiffer

LEMMA ByTurns ==
  ASSUME NEW S, NEW f, IsComparison(f, S), NEW a \in Seq(S), NEW b \in Seq(S)
  PROVE  By(f, a, b) = -By(f, b, a)
<1>1. \A i \in 1..Len(a) : i <= Len(b) =>
        /\ i \in 1..Len(b) /\ a[i] \in S /\ b[i] \in S
        /\ f[<<a[i], b[i]>>] = -f[<<b[i], a[i]>>]
        /\ f[<<a[i], b[i]>>] \in Signs /\ f[<<b[i], a[i]>>] \in Signs
  BY DEF IsComparison
<1>2. CASE Agree(f, a, b)
  <2>1. Agree(f, b, a)
    <3>1. SUFFICES ASSUME NEW i \in 1..Len(b), i <= Len(a)
                   PROVE  f[<<b[i], a[i]>>] = 0
      BY DEF Agree
    <3>2. i \in 1..Len(a) /\ i <= Len(b)
      BY <3>1
    <3>3. f[<<a[i], b[i]>>] = 0
      BY <1>2, <3>2 DEF Agree
    <3>4. QED
      BY <1>1, <3>2, <3>3 DEF Signs
  <2>2. Len(a) - Len(b) = -(Len(b) - Len(a)) /\ Len(b) - Len(a) \in Int
    OBVIOUS
  <2>3. Sign(Len(a) - Len(b)) = -Sign(Len(b) - Len(a))
    BY <2>2, SignIs
  <2>4. By(f, a, b) = Sign(Len(a) - Len(b)) /\ By(f, b, a) = Sign(Len(b) - Len(a))
    BY <1>2, <2>1, ByLength
  <2>5. QED
    BY <2>3, <2>4
<1>3. ASSUME NEW i \in Nat, DifferAt(f, a, b, i) PROVE By(f, a, b) = -By(f, b, a)
  <2>1. i \in 1..Len(a) /\ i <= Len(b) /\ i \in 1..Len(b)
    BY <1>3 DEF DifferAt
  <2>2. f[<<b[i], a[i]>>] # 0
    BY <1>1, <1>3, <2>1 DEF DifferAt, Signs
  <2>3. ASSUME NEW j \in 1..Len(b), j < i PROVE f[<<b[j], a[j]>>] = 0
    <3>1. j \in 1..Len(a) /\ j <= Len(b)
      BY <2>1, <2>3
    <3>2. f[<<a[j], b[j]>>] = 0
      BY <1>3, <2>3, <3>1 DEF DifferAt
    <3>3. QED
      BY <1>1, <3>1, <3>2 DEF Signs
  <2>4. DifferAt(f, b, a, i)
    BY <2>1, <2>2, <2>3 DEF DifferAt
  <2>5. By(f, a, b) = f[<<a[i], b[i]>>] /\ By(f, b, a) = f[<<b[i], a[i]>>]
    BY <1>3, <2>4, ByFirst
  <2>6. QED
    BY <1>1, <2>1, <2>5
<1>4. QED
  BY <1>2, <1>3, AgreeOrDiffer

LEMMA Chained ==
  ASSUME NEW S, NEW f, IsComparison(f, S), NEW x \in S, NEW y \in S, NEW z \in S
  PROVE  Chains(f, x, y, z)
<1>1. \A u, v \in {x, y, z} : f[<<u, v>>] \in Signs /\ f[<<u, v>>] = -f[<<v, u>>]
  BY Zenon DEF IsComparison
<1>2. \A u, v, w \in {x, y, z} :
        f[<<u, v>>] <= 0 /\ f[<<v, w>>] <= 0 => f[<<u, w>>] <= 0
  BY DEF IsComparison
<1> DEFINE xy == f[<<x, y>>]  yx == f[<<y, x>>]  yz == f[<<y, z>>]
           zy == f[<<z, y>>]  xz == f[<<x, z>>]  zx == f[<<z, x>>]
<1>3. /\ xy \in Signs /\ yx = -xy /\ yz \in Signs /\ zy = -yz /\ xz \in Signs /\ zx = -xz
  BY <1>1
<1>4. /\ xy <= 0 /\ yz <= 0 => xz <= 0
      /\ zy <= 0 /\ yx <= 0 => zx <= 0
      /\ yx <= 0 /\ xz <= 0 => yz <= 0
      /\ zx <= 0 /\ xy <= 0 => zy <= 0
      /\ xz <= 0 /\ zy <= 0 => xy <= 0
      /\ yz <= 0 /\ zx <= 0 => yx <= 0
  BY <1>2
<1> HIDE DEF xy, yx, yz, zy, xz, zx
<1>5. /\ xy = 0 => xz = yz
      /\ yz = 0 => xz = xy
      /\ xy < 0 /\ yz < 0 => xz < 0
  BY <1>3, <1>4 DEF Signs
<1>6. QED
  BY <1>5 DEF Chains, xy, yx, yz, zy, xz, zx

\* When a sequence is not after another.
LEMMA AtMost ==
  ASSUME NEW S, NEW f, IsComparison(f, S), NEW a \in Seq(S), NEW b \in Seq(S)
  PROVE  By(f, a, b) <= 0 <=>
           \/ Agree(f, a, b) /\ Len(a) <= Len(b)
           \/ \E i \in Nat : DifferAt(f, a, b, i) /\ f[<<a[i], b[i]>>] < 0
<1>1. ASSUME Agree(f, a, b)
      PROVE  /\ By(f, a, b) <= 0 <=> Len(a) <= Len(b)
             /\ \A i \in Nat : ~DifferAt(f, a, b, i)
  <2>1. By(f, a, b) = Sign(Len(a) - Len(b))
    BY <1>1, ByLength
  <2>2. Len(a) - Len(b) \in Int /\ (Len(a) - Len(b) <= 0 <=> Len(a) <= Len(b))
    OBVIOUS
  <2>3. By(f, a, b) <= 0 <=> Len(a) <= Len(b)
    BY <2>1, <2>2, SignIs
  <2>4. \A i \in Nat : ~DifferAt(f, a, b, i)
    BY <1>1 DEF Agree, DifferAt
  <2>5. QED
    BY <2>3, <2>4
<1>2. ASSUME NEW i \in Nat, DifferAt(f, a, b, i)
      PROVE  /\ By(f, a, b) <= 0 <=> f[<<a[i], b[i]>>] < 0
             /\ ~Agree(f, a, b)
             /\ \A j \in Nat : DifferAt(f, a, b, j) => j = i
  <2>1. By(f, a, b) = f[<<a[i], b[i]>>]
    BY <1>2, ByFirst
  <2>2. a[i] \in S /\ b[i] \in S
    BY <1>2 DEF DifferAt
  <2>3. f[<<a[i], b[i]>>] \in Signs /\ f[<<a[i], b[i]>>] # 0
    BY <1>2, <2>2 DEF IsComparison, DifferAt
  <2>4. By(f, a, b) <= 0 <=> f[<<a[i], b[i]>>] < 0
    BY <2>1, <2>3 DEF Signs
  <2>5. ~Agree(f, a, b) /\ \A j \in Nat : DifferAt(f, a, b, j) => j = i
    BY <1>2 DEF Agree, DifferAt
  <2>6. QED
    BY <2>4, <2>5
<1>3. Agree(f, a, b) \/ \E i \in Nat : DifferAt(f, a, b, i)
  BY AgreeOrDiffer
<1>4. QED
  BY <1>1, <1>2, <1>3, Zenon

LEMMA ByChains ==
  ASSUME NEW S, NEW f, IsComparison(f, S),
         NEW a \in Seq(S), NEW b \in Seq(S), NEW c \in Seq(S),
         By(f, a, b) <= 0, By(f, b, c) <= 0
  PROVE  By(f, a, c) <= 0
<1> DEFINE AB(j) == f[<<a[j], b[j]>>]
           BC(j) == f[<<b[j], c[j]>>]
           AC(j) == f[<<a[j], c[j]>>]
           la == Len(a)  lb == Len(b)  lc == Len(c)
<1>1. la \in Nat /\ lb \in Nat /\ lc \in Nat
  OBVIOUS
<1>2. ASSUME NEW j \in 1..la, j <= lb, j <= lc
      PROVE  /\ AB(j) \in Signs /\ BC(j) \in Signs /\ AC(j) \in Signs
             /\ AB(j) = 0 => AC(j) = BC(j)
             /\ BC(j) = 0 => AC(j) = AB(j)
             /\ AB(j) < 0 /\ BC(j) < 0 => AC(j) < 0
  <2>1. a[j] \in S /\ b[j] \in S /\ c[j] \in S
    BY <1>2
  <2>2. AB(j) \in Signs /\ BC(j) \in Signs /\ AC(j) \in Signs
    BY <2>1 DEF IsComparison
  <2>3. /\ AB(j) = 0 => AC(j) = BC(j)
        /\ BC(j) = 0 => AC(j) = AB(j)
        /\ AB(j) < 0 /\ BC(j) < 0 => AC(j) < 0
    <3>1. Chains(f, a[j], b[j], c[j])
      BY <2>1, Chained
    <3>2. QED
      BY <3>1 DEF Chains
  <2>4. QED
    BY <2>2, <2>3
<1> DEFINE EqualAB    == \A j \in 1..la : j <= lb => AB(j) = 0
           EqualBC    == \A j \in 1..lb : j <= lc => BC(j) = 0
           EqualAC    == \A j \in 1..la : j <= lc => AC(j) = 0
           FirstAB(i) == i \in 1..la /\ i <= lb /\ AB(i) < 0 /\ \A j \in 1..la : j < i => AB(j) = 0
           FirstBC(i) == i \in 1..lb /\ i <= lc /\ BC(i) < 0 /\ \A j \in 1..lb : j < i => BC(j) = 0
           FirstAC(i) == i \in 1..la /\ i <= lc /\ AC(i) < 0 /\ \A j \in 1..la : j < i => AC(j) = 0
<1>3. (EqualAB /\ la <= lb) \/ \E i \in Nat : FirstAB(i)
  <2>1. \/ Agree(f, a, b) /\ Len(a) <= Len(b)
        \/ \E i \in Nat : DifferAt(f, a, b, i) /\ f[<<a[i], b[i]>>] < 0
    BY AtMost, Zenon
  <2>2. Agree(f, a, b) <=> EqualAB
    BY DEF Agree
  <2>3. ASSUME NEW i \in Nat, DifferAt(f, a, b, i), f[<<a[i], b[i]>>] < 0
        PROVE  FirstAB(i)
    BY <1>1, <2>3 DEF DifferAt
  <2>4. QED
    BY <2>1, <2>2, <2>3, Zenon
<1>4. (EqualBC /\ lb <= lc) \/ \E i \in Nat : FirstBC(i)
  <2>1. \/ Agree(f, b, c) /\ Len(b) <= Len(c)
        \/ \E i \in Nat : DifferAt(f, b, c, i) /\ f[<<b[i], c[i]>>] < 0
    BY AtMost, Zenon
  <2>2. Agree(f, b, c) <=> EqualBC
    BY DEF Agree
  <2>3. ASSUME NEW i \in Nat, DifferAt(f, b, c, i), f[<<b[i], c[i]>>] < 0
        PROVE  FirstBC(i)
    BY <1>1, <2>3 DEF DifferAt
  <2>4. QED
    BY <2>1, <2>2, <2>3
<1>5. SUFFICES (EqualAC /\ la <= lc) \/ \E i \in Nat : FirstAC(i)
  <2>1. EqualAC <=> Agree(f, a, c)
    BY DEF Agree
  <2>2. ASSUME NEW i \in Nat, FirstAC(i)
        PROVE  DifferAt(f, a, c, i) /\ f[<<a[i], c[i]>>] < 0
    BY <1>1, <2>2 DEF DifferAt
  <2>3. QED
    BY <2>1, <2>2, AtMost, Zenon
<1> HIDE DEF AB, BC, AC, la, lb, lc
<1>6. CASE EqualAB /\ la <= lb /\ EqualBC /\ lb <= lc
  BY <1>1, <1>2, <1>6
<1>7. ASSUME EqualAB, la <= lb, NEW k \in Nat, FirstBC(k)
      PROVE  (EqualAC /\ la <= lc) \/ FirstAC(k)
  <2>1. \A j \in 1..la : j < k => AC(j) = 0
    BY <1>1, <1>2, <1>7
  <2>2. CASE k <= la
    <3>1. AC(k) = BC(k)
      BY <1>1, <1>2, <1>7, <2>2
    <3>2. QED
      BY <1>1, <1>7, <2>1, <2>2, <3>1
  <2>3. CASE la < k
    BY <1>1, <1>7, <2>1, <2>3
  <2>4. QED
    BY <1>1, <2>2, <2>3
<1>8. ASSUME NEW i \in Nat, FirstAB(i), EqualBC, lb <= lc
      PROVE  FirstAC(i)
  <2>1. \A j \in 1..la : j <= i => AC(j) = AB(j)
    BY <1>1, <1>2, <1>8
  <2>2. QED
    BY <1>1, <1>8, <2>1
<1>9. ASSUME NEW i \in Nat, FirstAB(i), NEW k \in Nat, FirstBC(k)
      PROVE  \E n \in Nat : FirstAC(n)
  <2>1. CASE i < k
    <3>1. \A j \in 1..la : j <= i => AC(j) = AB(j)
      BY <1>1, <1>2, <1>9, <2>1
    <3>2. FirstAC(i)
      BY <1>1, <1>9, <2>1, <3>1
    <3>3. QED
      BY <3>2
  <2>2. CASE k < i
    <3>1. \A j \in 1..la : j <= k => AC(j) = BC(j)
      BY <1>1, <1>2, <1>9, <2>2
    <3>2. FirstAC(k)
      BY <1>1, <1>9, <2>2, <3>1
    <3>3. QED
      BY <3>2
  <2>3. CASE i = k
    <3>1. AC(i) < 0
      BY <1>1, <1>2, <1>9, <2>3
    <3>2. \A j \in 1..la : j < i => AC(j) = 0
      BY <1>1, <1>2, <1>9, <2>3
    <3>3. FirstAC(i)
      BY <1>1, <1>9, <2>3, <3>1, <3>2
    <3>4. QED
      BY <3>3
  <2>4. QED
    BY <2>1, <2>2, <2>3
<1>10. QED
  BY <1>3, <1>4, <1>6, <1>7, <1>8, <1>9, Zenon

-----------------------------------------------------------------------------
(***************************************************************************)
(* What a fold computes.  The library defines it by a function on the subsets*)
(* of the positions that CHOOSE picks: one exists, because a smallest number*)
(* of members for which none did would have one after all.                 *)
(***************************************************************************)
LEMMA GreatestNumber ==
  ASSUME NEW n \in Nat, NEW T \in SUBSET (1..n), T # {}
  PROVE  Max(T) \in T /\ \A j \in T : j <= Max(T)
<1> DEFINE I == {n - i : i \in T}
<1>1. I \in SUBSET Nat /\ I # {}
  <2>1. \A i \in T : n - i \in Nat
    OBVIOUS
  <2>2. QED
    BY <2>1
<1>2. PICK d \in I : \A e \in I : d <= e
  BY <1>1, SmallestNumber, Zenon
<1>3. PICK m \in T : d = n - m
  BY <1>2
<1>4. \A j \in T : j \in Nat /\ n - m <= n - j
  <2>1. \A j \in T : n - j \in I
    OBVIOUS
  <2> HIDE DEF I
  <2>2. QED
    BY <1>2, <1>3, <2>1
<1>5. m \in Nat /\ \A j \in T : m >= j
  BY <1>4
<1>6. Max(T) \in T /\ \A j \in T : Max(T) >= j
  BY <1>3, <1>5, Zenon DEF Max
<1>7. QED
  BY <1>6

LEMMA RunExists ==
  ASSUME NEW A, NEW E, NEW f \in [A \X E -> A], NEW base \in A, NEW s \in Seq(E)
  PROVE  Reaches(A, f, base, s, Len(s))
<1> DEFINE K == {n \in Nat : n <= Len(s) /\ ~Reaches(A, f, base, s, n)}
<1>1. SUFFICES ASSUME K # {} PROVE FALSE
  <2>1. Len(s) \in Nat
    OBVIOUS
  <2>2. QED
    BY <2>1
<1>2. PICK n \in K : \A k \in K : n <= k
  <2>1. K \in SUBSET Nat
    OBVIOUS
  <2> HIDE DEF K
  <2>2. QED
    BY <1>1, <2>1, SmallestNumber
<1>3. n \in Nat /\ n <= Len(s) /\ Len(s) \in Nat
  OBVIOUS
<1>4. n # 0
  <2> SUFFICES ASSUME n = 0 PROVE FALSE
    OBVIOUS
  <2> DEFINE it == [T \in SUBSET (1..0) |-> base]
  <2>1. 1..0 = {}
    OBVIOUS
  <2>2. it \in [SUBSET (1..0) -> A]
    OBVIOUS
  <2>3. RunsOver(it, f, base, s, 0)
    BY <2>1 DEF RunsOver
  <2>4. Reaches(A, f, base, s, n)
    BY <2>2, <2>3 DEF Reaches
  <2>5. QED
    BY <2>4
<1> DEFINE m == n - 1
<1>5. m \in Nat /\ m <= Len(s) /\ n = m + 1 /\ n \in 1..Len(s) /\ s[n] \in E
  BY <1>3, <1>4
<1>6. PICK g \in [SUBSET (1..m) -> A] : RunsOver(g, f, base, s, m)
  <2>1. m \notin K
    <3> HIDE DEF K
    <3>1. m \in K => n <= m
      BY <1>2
    <3>2. ~(n <= m)
      BY <1>5
    <3>3. QED
      BY <3>1, <3>2
  <2>2. QED
    BY <1>5, <2>1, Zenon DEF Reaches
<1> DEFINE it == [T \in SUBSET (1..n) |-> IF n \in T THEN f[<<g[T \ {n}], s[n]>>] ELSE g[T]]
<1>7. ASSUME NEW T \in SUBSET (1..n)
      PROVE  /\ n \in T => T \ {n} \in SUBSET (1..m)
             /\ n \notin T => T \in SUBSET (1..m)
  BY <1>5
<1>8. it \in [SUBSET (1..n) -> A]
  <2>1. ASSUME NEW T \in SUBSET (1..n)
        PROVE  (IF n \in T THEN f[<<g[T \ {n}], s[n]>>] ELSE g[T]) \in A
    <3>1. CASE n \in T
      <4>1. g[T \ {n}] \in A
        BY <1>7, <3>1
      <4>2. <<g[T \ {n}], s[n]>> \in A \X E
        BY <1>5, <4>1
      <4>3. QED
        BY <3>1, <4>2
    <3>2. CASE n \notin T
      BY <1>7, <3>2
    <3>3. QED
      BY <3>1, <3>2
  <2>2. QED
    BY <2>1
<1>9. RunsOver(it, f, base, s, n)
  <2>1. SUFFICES ASSUME NEW T \in SUBSET (1..n)
                 PROVE  it[T] = IF T = {} THEN base ELSE f[<<it[T \ {Max(T)}], s[Max(T)]>>]
    BY Zenon DEF RunsOver
  <2>2. CASE n \in T
    <3>1. Max(T) \in T /\ \A j \in T : j <= Max(T)
      BY <1>3, <2>2, GreatestNumber, Zenon
    <3>2. Max(T) = n
      <4>1. n <= Max(T) /\ Max(T) \in 1..n
        BY <2>2, <3>1, Zenon
      <4>2. QED
        BY <1>3, <4>1
    <3>3. it[T \ {n}] = g[T \ {n}]
      BY <1>7, <2>2
    <3>4. QED
      BY <2>2, <3>2, <3>3, Zenon
  <2>3. CASE n \notin T /\ T # {}
    <3>1. T \in SUBSET (1..m) /\ it[T] = g[T]
      BY <1>7, <2>3
    <3>2. Max(T) \in T
      BY <1>3, <2>3, GreatestNumber, Zenon
    <3>3. T \ {Max(T)} \in SUBSET (1..n) /\ n \notin T \ {Max(T)}
      BY <2>3, Zenon
    <3>4. it[T \ {Max(T)}] = g[T \ {Max(T)}]
      BY <3>3
    <3>5. g[T] = f[<<g[T \ {Max(T)}], s[Max(T)]>>]
      BY <1>6, <2>3, <3>1, Zenon DEF RunsOver
    <3>6. QED
      BY <2>3, <3>1, <3>4, <3>5, Zenon
  <2>4. CASE T = {}
    <3>1. T \in SUBSET (1..m)
      BY <2>4
    <3>2. g[T] = base
      BY <1>6, <2>4, <3>1, Zenon DEF RunsOver
    <3>3. QED
      BY <1>3, <2>4, <3>2
  <2>5. QED
    BY <2>2, <2>3, <2>4
<1>10. QED
  BY <1>2, <1>8, <1>9, Zenon DEF Reaches

-----------------------------------------------------------------------------
(***************************************************************************)
(* The numbers in a text.                                                  *)
(***************************************************************************)
LEMMA DigitIs == \A c \in Digits : Digit(c) \in Nat
BY DEF Digits, Digit

LEMMA ValueIs ==
  ASSUME NEW s
  PROVE  Value(s) = (CHOOSE it : Adding(s, it))[DOMAIN s]
BY DEF Value, FoldLeft, MapThenFoldSet, Adding

\* A text of digits is a number, which is not less than there are digits.
LEMMA ValueIsLong ==
  ASSUME NEW s \in Seq(Digits)
  PROVE  Value(s) \in Nat /\ Value(s) >= Len(s)
<1> DEFINE f == [p \in Nat \X Digits |-> 10 * p[1] + Digit(p[2])]
           n == Len(s)
<1>1. f \in [Nat \X Digits -> Nat] /\ \A k \in Nat, c \in Digits : f[<<k, c>>] = 10 * k + Digit(c)
  BY DigitIs
<1>2. n \in Nat /\ DOMAIN s = 1..n /\ \A i \in 1..n : s[i] \in Digits
  OBVIOUS
<1>3. PICK it \in [SUBSET (1..n) -> Nat] : RunsOver(it, f, 0, s, n)
  <2> HIDE DEF f
  <2>1. Reaches(Nat, f, 0, s, n)
    BY <1>1, RunExists, Zenon
  <2>2. QED
    BY <2>1 DEF Reaches
<1> HIDE DEF f, n
<1>4. ASSUME NEW T \in SUBSET (1..n), T # {}
      PROVE  /\ Max(T) \in 1..n /\ T \ {Max(T)} \in SUBSET (1..n)
             /\ s[Max(T)] \in Digits
  BY <1>2, <1>4, GreatestNumber, Zenon
<1>5. Adding(s, it)
  <2>1. ASSUME NEW T \in SUBSET (1..n)
        PROVE  it[T] = IF T = {} THEN 0 ELSE 10 * it[T \ {Max(T)}] + Digit(s[Max(T)])
    <3>1. it[T] = IF T = {} THEN 0 ELSE f[<<it[T \ {Max(T)}], s[Max(T)]>>]
      BY <1>3, Zenon DEF RunsOver
    <3>2. CASE T # {}
      <4>1. it[T \ {Max(T)}] \in Nat
        BY <1>3, <1>4, <3>2
      <4>2. QED
        BY <1>1, <1>4, <3>1, <3>2, <4>1, Zenon
    <3>3. QED
      BY <3>1, <3>2
  <2>2. QED
    BY <1>2, <2>1 DEF Adding
<1> DEFINE sum == CHOOSE g : Adding(s, g)
<1>6. Adding(s, sum)
  BY <1>5
<1> HIDE DEF sum
<1>7. ASSUME NEW T \in SUBSET (1..n)
      PROVE  sum[T] = IF T = {} THEN 0 ELSE 10 * sum[T \ {Max(T)}] + Digit(s[Max(T)])
  BY <1>2, <1>6, Zenon DEF Adding
<1> DEFINE K == {k \in Nat : k <= n /\ ~(sum[1..k] \in Nat /\ sum[1..k] >= k)}
<1>8. K = {}
  <2>1. SUFFICES ASSUME K # {} PROVE FALSE
    OBVIOUS
  <2>2. PICK k \in K : \A j \in K : k <= j
    <3>1. K \in SUBSET Nat
      OBVIOUS
    <3> HIDE DEF K
    <3>2. QED
      BY <2>1, <3>1, SmallestNumber
  <2>3. k \in Nat /\ k <= n /\ ~(sum[1..k] \in Nat /\ sum[1..k] >= k) /\ 1..k \in SUBSET (1..n)
    BY <1>2
  <2>4. k # 0
    <3>1. 1..0 = {} /\ 1..0 \in SUBSET (1..n)
      OBVIOUS
    <3>2. sum[1..0] = 0
      BY <1>7, <3>1, Zenon
    <3>3. QED
      BY <2>3, <3>2
  <2>5. Max(1..k) = k
    <3>1. 1..k # {}
      BY <2>3, <2>4
    <3>2. Max(1..k) \in 1..k /\ \A j \in 1..k : j <= Max(1..k)
      BY <2>3, <3>1, GreatestNumber, Zenon
    <3>3. QED
      BY <2>3, <2>4, <3>2
  <2>6. (1..k) \ {k} = 1..(k - 1) /\ 1..k # {}
    BY <2>3, <2>4
  <2>7. sum[1..k] = 10 * sum[1..(k - 1)] + Digit(s[k])
    BY <1>7, <2>3, <2>5, <2>6, Zenon
  <2>8. sum[1..(k - 1)] \in Nat /\ sum[1..(k - 1)] >= k - 1
    <3>1. k - 1 \notin K
      <4> HIDE DEF K
      <4>1. k - 1 \in K => k <= k - 1
        BY <2>2
      <4>2. QED
        BY <2>3, <4>1
    <3>2. k - 1 \in Nat /\ k - 1 <= n
      BY <1>2, <2>3, <2>4
    <3>3. QED
      BY <3>1, <3>2
  <2>9. Digit(s[k]) \in {1, 2}
    BY <1>2, <2>3, <2>4 DEF Digit
  <2>10. QED
    BY <2>3, <2>7, <2>8, <2>9
<1>9. sum[1..n] \in Nat /\ sum[1..n] >= n
  BY <1>2, <1>8
<1>10. QED
  BY <1>2, <1>9, ValueIs DEF sum, n

\* A text is read as one number, or as none.
\* A piece that is a number.
LEMMA NumberIs ==
  ASSUME NEW S, NEW s \in Seq(S), ParseNumber(s) # << >>
  PROVE  LET n == Unsigned(s)
         IN  /\ n \in Seq(Digits) /\ n # << >> /\ ParseNumber(s) = <<Value(n)>>
             /\ ~(Value(n) > U64Max)
             /\ Free(s, "+") => n = s
<1> DEFINE n == Unsigned(s)
<1>1. n # << >> /\ (\A i \in DOMAIN n : n[i] \in Digits) /\ ~(Value(n) > U64Max)
      /\ ParseNumber(s) = << Value(n) >>
  BY Zenon DEF ParseNumber
<1>2. n \in Seq(S)
  BY DEF Unsigned, Without
<1>3. Free(s, "+") => n = s
  BY DEF Unsigned, Free
<1> HIDE DEF n
<1>4. n \in Seq(Digits)
  BY <1>1, <1>2
<1>5. QED
  BY <1>1, <1>3, <1>4 DEF n

LEMMA ParseNumberIs ==
  ASSUME NEW S, NEW s \in Seq(S), ParseNumber(s) # << >>
  PROVE  ParseNumber(s)[1] \in Nat
<1>1. Unsigned(s) \in Seq(Digits) /\ ParseNumber(s) = <<Value(Unsigned(s))>>
  BY NumberIs
<1>2. QED
  BY <1>1, ValueIsLong

-----------------------------------------------------------------------------
(***************************************************************************)
(* Numbers and texts compared.                                             *)
(***************************************************************************)
LEMMA OrderIs ==
  \A m, n \in Int : /\ Order(m, n) \in Signs /\ Order(m, n) = -Order(n, m)
                    /\ Order(m, n) <= 0 <=> m <= n
                    /\ Order(m, n) = 0 <=> m = n
BY DEF Order, Sign, Signs

-----------------------------------------------------------------------------

LEMMA NumberOrderIs ==
  /\ IsComparison(NumberOrder, Nat)
  /\ \A x, y \in Nat : NumberOrder[<<x, y>>] = Order(x, y)
<1>1. \A x, y \in Nat : NumberOrder[<<x, y>>] = Order(x, y) /\ Order(x, y) \in Signs
  BY OrderIs DEF NumberOrder
<1>2. NumberOrder \in [Nat \X Nat -> Signs]
  BY OrderIs DEF NumberOrder
<1>3. ASSUME NEW x \in Nat, NEW y \in Nat
      PROVE  NumberOrder[<<x, y>>] = -NumberOrder[<<y, x>>]
  <2>1. x \in Int /\ y \in Int
    OBVIOUS
  <2>2. Order(x, y) = -Order(y, x)
    BY <2>1, OrderIs
  <2>3. QED
    BY <1>1, <2>2
<1>4. \A x, y, z \in Nat : NumberOrder[<<x, y>>] <= 0 /\ NumberOrder[<<y, z>>] <= 0
                             => NumberOrder[<<x, z>>] <= 0
  <2>1. ASSUME NEW x \in Nat, NEW y \in Nat
        PROVE  NumberOrder[<<x, y>>] <= 0 <=> x <= y
    <3>1. x \in Int /\ y \in Int
      OBVIOUS
    <3>2. Order(x, y) <= 0 <=> x <= y
      BY <3>1, OrderIs
    <3>3. QED
      BY <1>1, <3>2
  <2>2. \A x, y, z \in Nat : x <= y /\ y <= z => x <= z
    OBVIOUS
  <2>3. QED
    BY <2>1, <2>2
<1>5. QED
  BY <1>1, <1>2, <1>3, <1>4 DEF IsComparison

LEMMA NumbersBy ==
  ASSUME NEW a \in Seq(Nat), NEW b \in Seq(Nat)
  PROVE  CompareNumbers(a, b) = By(NumberOrder, a, b)
<1> DEFINE both == 1..(IF Len(a) < Len(b) THEN Len(a) ELSE Len(b))
           g    == NumberOrder
<1>1. \A i \in both : a[i] \in Nat /\ b[i] \in Nat
  OBVIOUS
<1>2. \A i \in both : g[<<a[i], b[i]>>] = Order(a[i], b[i])
  BY <1>1, NumberOrderIs, Zenon
<1> DEFINE apart == {i \in both : Order(a[i], b[i]) # 0}
           first == CHOOSE i \in apart : \A j \in apart : i <= j
<1>3. CompareNumbers(a, b) = IF apart = {} THEN Order(Len(a), Len(b)) ELSE Order(a[first], b[first])
  BY DEF CompareNumbers, CompareBy, Order
<1>4. apart = {i \in both : g[<<a[i], b[i]>>] # 0}
  BY <1>2, Zenon
<1>5. apart # {} => first \in both
  <2>1. apart \in SUBSET Nat /\ apart \subseteq both
    OBVIOUS
  <2> HIDE DEF apart, both
  <2>2. QED
    BY <2>1, SmallestNumber, Zenon
<1> DEFINE differ == {i \in both : g[<<a[i], b[i]>>] # 0}
           least  == CHOOSE i \in differ : \A j \in differ : i <= j
<1>6. By(g, a, b) = IF differ = {} THEN Order(Len(a), Len(b)) ELSE g[<<a[least], b[least]>>]
  BY DEF By, CompareBy, Order
<1>7. differ = apart /\ least = first
  BY <1>4, Zenon
<1> HIDE DEF apart, both, first, differ, least
<1>8. QED
  BY <1>2, <1>3, <1>5, <1>6, <1>7, Zenon

LEMMA NumbersDiffer ==
  ASSUME NEW a \in Seq(Nat), NEW b \in Seq(Nat), CompareNumbers(a, b) = 0
  PROVE  a = b
<1>1. By(NumberOrder, a, b) = 0
  BY NumbersBy
<1>2. ASSUME NEW i \in Nat, DifferAt(NumberOrder, a, b, i) PROVE FALSE
  <2>1. NumberOrder[<<a[i], b[i]>>] # 0
    BY <1>2 DEF DifferAt
  <2>2. By(NumberOrder, a, b) = NumberOrder[<<a[i], b[i]>>]
    BY <1>2, ByFirst
  <2>3. QED
    BY <1>1, <2>1, <2>2
<1>3. Agree(NumberOrder, a, b)
  BY <1>2, AgreeOrDiffer
<1>4. Len(a) = Len(b)
  <2>1. Order(Len(a), Len(b)) = 0
    BY <1>1, <1>3, ByLength DEF Order
  <2>2. QED
    BY <2>1, OrderIs
<1>5. \A i \in 1..Len(a) : a[i] = b[i]
  <2>1. SUFFICES ASSUME NEW i \in 1..Len(a) PROVE a[i] = b[i]
    OBVIOUS
  <2>2. a[i] \in Nat /\ b[i] \in Nat /\ NumberOrder[<<a[i], b[i]>>] = 0
    BY <1>3, <1>4, <2>1 DEF Agree
  <2>3. Order(a[i], b[i]) = 0
    BY <2>2, NumberOrderIs, Zenon
  <2>4. QED
    BY <2>2, <2>3, OrderIs
<1>6. QED
  BY <1>4, <1>5

-----------------------------------------------------------------------------

LEMMA CodeIs == \A c \in Characters : Code(c) \in 1..6
<1>1. \A c \in Characters : \E i \in 1..6 : Alphabet[i] = c
  BY DEF Characters, Alphabet
<1>2. DOMAIN Alphabet = 1..6
  BY DEF Alphabet
<1>3. QED
  BY <1>1, <1>2 DEF Code

LEMMA CharacterOrderIs ==
  /\ IsComparison(CharacterOrder, Characters)
  /\ \A x, y \in Characters : CharacterOrder[<<x, y>>] = Order(Code(x), Code(y))
<1>0. \A c \in Characters : Code(c) \in Int
  BY CodeIs
<1>1. \A x, y \in Characters : CharacterOrder[<<x, y>>] = Order(Code(x), Code(y))
                               /\ Order(Code(x), Code(y)) \in Signs
  BY <1>0, OrderIs DEF CharacterOrder
<1>2. CharacterOrder \in [Characters \X Characters -> Signs]
  BY <1>0, OrderIs DEF CharacterOrder
<1>3. ASSUME NEW x \in Characters, NEW y \in Characters
      PROVE  CharacterOrder[<<x, y>>] = -CharacterOrder[<<y, x>>]
  <2>1. Code(x) \in Int /\ Code(y) \in Int
    BY <1>0
  <2>2. Order(Code(x), Code(y)) = -Order(Code(y), Code(x))
    BY <2>1, OrderIs
  <2>3. QED
    BY <1>1, <2>2
<1>4. \A x, y, z \in Characters :
        CharacterOrder[<<x, y>>] <= 0 /\ CharacterOrder[<<y, z>>] <= 0
          => CharacterOrder[<<x, z>>] <= 0
  <2>1. ASSUME NEW x \in Characters, NEW y \in Characters
        PROVE  CharacterOrder[<<x, y>>] <= 0 <=> Code(x) <= Code(y)
    <3>1. Code(x) \in Int /\ Code(y) \in Int
      BY <1>0
    <3>2. Order(Code(x), Code(y)) <= 0 <=> Code(x) <= Code(y)
      BY <3>1, OrderIs
    <3>3. QED
      BY <1>1, <3>2
  <2>2. \A x, y, z \in Int : x <= y /\ y <= z => x <= z
    OBVIOUS
  <2>3. QED
    BY <1>0, <2>1, <2>2
<1>5. QED
  BY <1>1, <1>2, <1>3, <1>4 DEF IsComparison

LEMMA TextBy ==
  ASSUME NEW a \in Seq(Characters), NEW b \in Seq(Characters)
  PROVE  CompareText(a, b) = By(CharacterOrder, a, b)
<1> DEFINE both == 1..(IF Len(a) < Len(b) THEN Len(a) ELSE Len(b))
           g    == CharacterOrder
<1>1. \A i \in both : a[i] \in Characters /\ b[i] \in Characters
  OBVIOUS
<1>2. \A i \in both : g[<<a[i], b[i]>>] = Order(Code(a[i]), Code(b[i]))
  BY <1>1, CharacterOrderIs
<1> DEFINE apart == {i \in both : Order(Code(a[i]), Code(b[i])) # 0}
           first == CHOOSE i \in apart : \A j \in apart : i <= j
<1>3. CompareText(a, b) =
        IF apart = {} THEN Order(Len(a), Len(b)) ELSE Order(Code(a[first]), Code(b[first]))
  BY DEF CompareText, CompareBy, Order
<1>4. apart = {i \in both : g[<<a[i], b[i]>>] # 0}
  BY <1>2
<1>5. apart # {} => first \in both
  <2>1. apart \in SUBSET Nat /\ apart \subseteq both
    OBVIOUS
  <2> HIDE DEF apart, both
  <2>2. QED
    BY <2>1, SmallestNumber, Zenon
<1> DEFINE differ == {i \in both : g[<<a[i], b[i]>>] # 0}
           least  == CHOOSE i \in differ : \A j \in differ : i <= j
<1>6. By(g, a, b) = IF differ = {} THEN Order(Len(a), Len(b)) ELSE g[<<a[least], b[least]>>]
  BY DEF By, CompareBy, Order
<1>7. differ = apart /\ least = first
  BY <1>4, Zenon
<1> HIDE DEF apart, both, first, differ, least
<1>8. QED
  BY <1>2, <1>3, <1>5, <1>6, <1>7

-----------------------------------------------------------------------------
(***************************************************************************)
(* Identifiers of a pre-release compared, and what comes without one.      *)
(***************************************************************************)
LEMMA ListOrderIs ==
  ASSUME NEW S, NEW f, IsComparison(f, S)
  PROVE  /\ IsComparison(ListOrder(f, S), Seq(S))
         /\ \A a, b \in Seq(S) : ListOrder(f, S)[<<a, b>>] = By(f, a, b)
<1> DEFINE g == ListOrder(f, S)
<1>1. \A a, b \in Seq(S) : g[<<a, b>>] = By(f, a, b)
  BY DEF ListOrder
<1>2. g \in [Seq(S) \X Seq(S) -> Signs]
  BY ByIsSign DEF ListOrder
<1> HIDE DEF g
<1>3. \A a, b \in Seq(S) : g[<<a, b>>] = -g[<<b, a>>]
  <2>1. \A a, b \in Seq(S) : By(f, a, b) = -By(f, b, a)
    BY ByTurns
  <2>2. QED
    BY <1>1, <2>1, Zenon
<1>4. \A a, b, c \in Seq(S) : g[<<a, b>>] <= 0 /\ g[<<b, c>>] <= 0 => g[<<a, c>>] <= 0
  <2>1. \A a, b, c \in Seq(S) : By(f, a, b) <= 0 /\ By(f, b, c) <= 0 => By(f, a, c) <= 0
    BY ByChains
  <2>2. QED
    BY <1>1, <2>1
<1>5. IsComparison(g, Seq(S))
  BY <1>2, <1>3, <1>4 DEF IsComparison
<1>6. QED
  BY <1>1, <1>5 DEF g

LEMMA NoneLastIs ==
  ASSUME NEW S, NEW f, IsComparison(f, S)
  PROVE  /\ IsComparison(NoneLast(f, S), S)
         /\ \A p, q \in S : NoneLast(f, S)[<<p, q>>] =
              IF p = << >> \/ q = << >> THEN Later(p, q) ELSE f[<<p, q>>]
<1> DEFINE g == NoneLast(f, S)
<1>1. \A p, q \in S : g[<<p, q>>] = IF p = << >> \/ q = << >> THEN Later(p, q) ELSE f[<<p, q>>]
  BY DEF NoneLast
<1>2. \A p, q : Later(p, q) \in Signs /\ Later(p, q) = -Later(q, p)
                /\ (Later(p, q) <= 0 <=> p # << >> \/ q = << >>)
  BY DEF Later, Signs
<1>3. g \in [S \X S -> Signs]
  <2>1. ASSUME NEW p \in S \X S
        PROVE  (IF p[1] = << >> \/ p[2] = << >> THEN Later(p[1], p[2]) ELSE f[p]) \in Signs
    BY <1>2 DEF IsComparison
  <2>2. QED
    BY <2>1 DEF NoneLast
<1> HIDE DEF g
<1>4. ASSUME NEW p \in S, NEW q \in S
      PROVE  g[<<p, q>>] = -g[<<q, p>>]
  <2>1. f[<<p, q>>] = -f[<<q, p>>]
    BY DEF IsComparison
  <2>2. Later(p, q) = -Later(q, p)
    BY <1>2
  <2>3. QED
    BY <1>1, <2>1, <2>2
<1>5. ASSUME NEW p \in S, NEW q \in S, NEW r \in S, g[<<p, q>>] <= 0, g[<<q, r>>] <= 0
      PROVE  g[<<p, r>>] <= 0
  <2>1. CASE p = << >> \/ q = << >> \/ r = << >>
    BY <1>1, <1>2, <1>5, <2>1
  <2>2. CASE p # << >> /\ q # << >> /\ r # << >>
    BY <1>1, <1>5, <2>2 DEF IsComparison
  <2>3. QED
    BY <2>1, <2>2
<1>6. IsComparison(g, S)
  BY <1>3, <1>4, <1>5 DEF IsComparison
<1>7. QED
  BY <1>1, <1>6 DEF g

LEMMA VersionByIs ==
  ASSUME NEW N, NEW f, IsComparison(f, N), \A x, y \in N : f[<<x, y>>] = 0 => x = y,
         NEW P, NEW g, IsComparison(g, P),
         NEW V, \A v \in V : v.numbers \in N /\ v.pre \in P
  PROVE  IsComparison(VersionBy(f, g, V), V)
<1> DEFINE h == VersionBy(f, g, V)
<1>1. \A v, w \in V : h[<<v, w>>] = IF v.numbers # w.numbers THEN f[<<v.numbers, w.numbers>>]
                                    ELSE g[<<v.pre, w.pre>>]
  BY Zenon DEF VersionBy
<1>2. h \in [V \X V -> Signs]
  <2>1. ASSUME NEW v \in V \X V
        PROVE  (IF v[1].numbers # v[2].numbers THEN f[<<v[1].numbers, v[2].numbers>>]
                ELSE g[<<v[1].pre, v[2].pre>>]) \in Signs
    <3>1. v[1] \in V /\ v[2] \in V
      OBVIOUS
    <3>2. f[<<v[1].numbers, v[2].numbers>>] \in Signs /\ g[<<v[1].pre, v[2].pre>>] \in Signs
      BY <3>1 DEF IsComparison
    <3>3. QED
      BY <3>2
  <2>2. QED
    BY <2>1 DEF VersionBy
<1> HIDE DEF h
<1>3. ASSUME NEW v \in V, NEW w \in V
      PROVE  h[<<v, w>>] = -h[<<w, v>>]
  <2>1. /\ f[<<v.numbers, w.numbers>>] = -f[<<w.numbers, v.numbers>>]
        /\ g[<<v.pre, w.pre>>] = -g[<<w.pre, v.pre>>]
    BY DEF IsComparison
  <2>2. QED
    BY <1>1, <2>1
<1>4. ASSUME NEW u \in V, NEW v \in V, NEW w \in V, h[<<u, v>>] <= 0, h[<<v, w>>] <= 0
      PROVE  h[<<u, w>>] <= 0
  <2> DEFINE x == u.numbers  y == v.numbers  z == w.numbers
  <2>1. x \in N /\ y \in N /\ z \in N
    OBVIOUS
  <2>2. CASE x = y /\ y = z
    <3>1. g[<<u.pre, v.pre>>] <= 0 /\ g[<<v.pre, w.pre>>] <= 0
      BY <1>1, <1>4, <2>2, Zenon
    <3>2. g[<<u.pre, w.pre>>] <= 0
      BY <3>1 DEF IsComparison
    <3>3. QED
      BY <1>1, <2>2, <3>2, ZenonT(30)
  <2>3. CASE x = y /\ y # z
    <3>1. h[<<v, w>>] = f[<<y, z>>] /\ h[<<u, w>>] = f[<<y, z>>]
      BY <1>1, <2>3, ZenonT(30)
    <3>2. QED
      BY <1>4, <3>1
  <2>4. CASE x # y /\ y = z
    <3>1. h[<<u, v>>] = f[<<x, y>>] /\ h[<<u, w>>] = f[<<x, y>>]
      BY <1>1, <2>4, ZenonT(30)
    <3>2. QED
      BY <1>4, <3>1
  <2>5. CASE x # y /\ y # z
    <3>1. f[<<x, y>>] <= 0 /\ f[<<y, z>>] <= 0
      BY <1>1, <1>4, <2>5, Zenon
    <3>2. f[<<x, z>>] <= 0
      BY <2>1, <3>1 DEF IsComparison
    <3>3. x # z
      <4>1. SUFFICES ASSUME x = z PROVE FALSE
        OBVIOUS
      <4>2. f[<<x, y>>] \in Signs /\ f[<<x, y>>] = -f[<<y, x>>] /\ f[<<y, x>>] <= 0
            /\ f[<<y, x>>] \in Signs
        BY <2>1, <3>1, <4>1 DEF IsComparison
      <4>3. f[<<x, y>>] = 0
        BY <3>1, <4>2 DEF Signs
      <4>4. QED
        BY <2>1, <2>5, <4>3
    <3>4. QED
      BY <1>1, <3>2, <3>3, Zenon
  <2>6. QED
    BY <2>2, <2>3, <2>4, <2>5
<1>5. QED
  BY <1>2, <1>3, <1>4 DEF IsComparison, h

-----------------------------------------------------------------------------

LEMMA TextsCompare ==
  \A a, b, c \in Strings :
    /\ CompareText(a, b) \in Signs /\ CompareText(a, b) = -CompareText(b, a)
    /\ CompareText(a, b) <= 0 /\ CompareText(b, c) <= 0 => CompareText(a, c) <= 0
<1>1. SUFFICES ASSUME NEW a \in Strings, NEW b \in Strings, NEW c \in Strings
               PROVE  /\ CompareText(a, b) \in Signs /\ CompareText(a, b) = -CompareText(b, a)
                      /\ CompareText(a, b) <= 0 /\ CompareText(b, c) <= 0 => CompareText(a, c) <= 0
  OBVIOUS
<1>2. a \in Seq(Characters) /\ b \in Seq(Characters) /\ c \in Seq(Characters)
  BY DEF Strings
<1>3. IsComparison(CharacterOrder, Characters)
  BY CharacterOrderIs
<1>4. /\ CompareText(a, b) = By(CharacterOrder, a, b) /\ CompareText(b, a) = By(CharacterOrder, b, a)
      /\ CompareText(b, c) = By(CharacterOrder, b, c) /\ CompareText(a, c) = By(CharacterOrder, a, c)
  BY <1>2, TextBy
<1>5. By(CharacterOrder, a, b) \in Signs
  BY <1>2, <1>3, ByIsSign
<1>6. By(CharacterOrder, a, b) = -By(CharacterOrder, b, a)
  BY <1>2, <1>3, ByTurns
<1>7. By(CharacterOrder, a, b) <= 0 /\ By(CharacterOrder, b, c) <= 0
        => By(CharacterOrder, a, c) <= 0
  BY <1>2, <1>3, ByChains
<1>8. QED
  BY <1>4, <1>5, <1>6, <1>7

LEMMA IdOrderIs ==
  /\ IsComparison(IdOrder, Strings)
  /\ \A a, b \in Strings : IdOrder[<<a, b>>] = compare_pre_release_id(a, b)
<1> DEFINE IsNumber(a) == ParseNumber(a) # << >>
           Number(a)   == ParseNumber(a)[1]
<1>1. \A a \in Strings : IsNumber(a) => Number(a) \in Nat
  BY ParseNumberIs DEF Strings
<1>2. \A a, b : compare_pre_release_id(a, b) =
        IF IsNumber(a) /\ IsNumber(b) THEN Order(Number(a), Number(b))
        ELSE IF IsNumber(a) THEN -1
        ELSE IF IsNumber(b) THEN 1 ELSE CompareText(a, b)
  BY DEF compare_pre_release_id, Order
<1> HIDE DEF IsNumber, Number
<1>3. ASSUME NEW a \in Strings, NEW b \in Strings
      PROVE  /\ compare_pre_release_id(a, b) \in Signs
             /\ compare_pre_release_id(a, b) = -compare_pre_release_id(b, a)
  <2>1. CompareText(a, b) \in Signs /\ CompareText(a, b) = -CompareText(b, a)
    BY TextsCompare
  <2>2. CASE IsNumber(a) /\ IsNumber(b)
    <3>1. Number(a) \in Int /\ Number(b) \in Int
      BY <1>1, <2>2
    <3>2. Order(Number(a), Number(b)) \in Signs
          /\ Order(Number(a), Number(b)) = -Order(Number(b), Number(a))
      BY <3>1, OrderIs
    <3>3. QED
      BY <1>2, <2>2, <3>2
  <2>3. CASE ~(IsNumber(a) /\ IsNumber(b))
    BY <1>2, <2>1, <2>3 DEF Signs
  <2>4. QED
    BY <2>2, <2>3
<1>4. ASSUME NEW a \in Strings, NEW b \in Strings, NEW c \in Strings,
             compare_pre_release_id(a, b) <= 0, compare_pre_release_id(b, c) <= 0
      PROVE  compare_pre_release_id(a, c) <= 0
  <2>1. CASE IsNumber(a) /\ ~IsNumber(c)
    BY <1>2, <2>1
  <2>2. CASE ~IsNumber(a) \/ ~IsNumber(b)
    <3>1. ~IsNumber(b) \/ ~IsNumber(a)
      BY <2>2
    <3>2. IsNumber(b) => IsNumber(a)
      BY <1>2, <1>4
    <3>3. IsNumber(c) => IsNumber(b)
      BY <1>2, <1>4
    <3>4. CASE IsNumber(a)
      BY <2>1, <3>1, <3>3, <3>4
    <3>5. CASE ~IsNumber(a)
      <4>1. CompareText(a, b) <= 0 /\ CompareText(b, c) <= 0
        BY <1>2, <1>4, <3>2, <3>3, <3>5
      <4>2. CompareText(a, c) <= 0
        BY <4>1, TextsCompare
      <4>3. QED
        BY <1>2, <3>2, <3>3, <3>5, <4>2
    <3>6. QED
      BY <3>4, <3>5
  <2>3. CASE IsNumber(a) /\ IsNumber(b) /\ IsNumber(c)
    <3>1. Number(a) \in Int /\ Number(b) \in Int /\ Number(c) \in Int
      BY <1>1, <2>3
    <3>2. Order(Number(a), Number(b)) <= 0 /\ Order(Number(b), Number(c)) <= 0
      BY <1>2, <1>4, <2>3
    <3>3. Number(a) <= Number(b) /\ Number(b) <= Number(c)
      BY <3>1, <3>2, OrderIs
    <3>4. Order(Number(a), Number(c)) <= 0
      BY <3>1, <3>3, OrderIs
    <3>5. QED
      BY <1>2, <2>3, <3>4
  <2>4. QED
    BY <2>1, <2>2, <2>3
<1>5. \A a, b \in Strings : IdOrder[<<a, b>>] = compare_pre_release_id(a, b)
  BY DEF IdOrder
<1>6. IdOrder \in [Strings \X Strings -> Signs]
  BY <1>3 DEF IdOrder
<1>7. QED
  BY <1>3, <1>4, <1>5, <1>6 DEF IsComparison

-----------------------------------------------------------------------------
(***************************************************************************)
(* Versions, and the kernels of a range.                                   *)
(***************************************************************************)
LEMMA PreReleasesBy ==
  ASSUME NEW a \in Seq(Strings), NEW b \in Seq(Strings)
  PROVE  compare_pre_release(a, b) = By(IdOrder, a, b)
<1> DEFINE both == 1..(IF Len(a) < Len(b) THEN Len(a) ELSE Len(b))
           g    == IdOrder
<1>1. \A i \in both : a[i] \in Strings /\ b[i] \in Strings
  OBVIOUS
<1>2. \A i \in both : g[<<a[i], b[i]>>] = compare_pre_release_id(a[i], b[i])
  BY <1>1, IdOrderIs
<1> DEFINE apart == {i \in both : compare_pre_release_id(a[i], b[i]) # 0}
           first == CHOOSE i \in apart : \A j \in apart : i <= j
<1>3. compare_pre_release(a, b) =
        IF apart = {} THEN Order(Len(a), Len(b)) ELSE compare_pre_release_id(a[first], b[first])
  BY DEF compare_pre_release, CompareBy, Order
<1>4. apart = {i \in both : g[<<a[i], b[i]>>] # 0}
  BY <1>2
<1>5. apart # {} => first \in both
  <2>1. apart \in SUBSET Nat /\ apart \subseteq both
    OBVIOUS
  <2> HIDE DEF apart, both
  <2>2. QED
    BY <2>1, SmallestNumber, Zenon
<1> DEFINE differ == {i \in both : g[<<a[i], b[i]>>] # 0}
           least  == CHOOSE i \in differ : \A j \in differ : i <= j
<1>6. By(g, a, b) = IF differ = {} THEN Order(Len(a), Len(b)) ELSE g[<<a[least], b[least]>>]
  BY DEF By, CompareBy, Order
<1>7. differ = apart /\ least = first
  BY <1>4, Zenon
<1> HIDE DEF apart, both, first, differ, least
<1>8. QED
  BY <1>2, <1>3, <1>5, <1>6, <1>7, Zenon

\* What is compared as f says is ordered.
LEMMA OrderedBy ==
  ASSUME NEW f, NEW V, IsComparison(f, V), NEW a \in V, NEW b \in V, NEW c \in V
  PROVE  /\ f[<<a, b>>] = -f[<<b, a>>]
         /\ f[<<a, b>>] <= 0 /\ f[<<b, c>>] <= 0 => f[<<a, c>>] <= 0
BY Zenon DEF IsComparison

LEMMA NumbersAreStrict ==
  \A x, y \in Seq(Nat) : ListOrder(NumberOrder, Nat)[<<x, y>>] = 0 => x = y
<1>1. SUFFICES ASSUME NEW x \in Seq(Nat), NEW y \in Seq(Nat),
                      ListOrder(NumberOrder, Nat)[<<x, y>>] = 0
               PROVE  x = y
  OBVIOUS
<1>2. CompareNumbers(x, y) = 0
  BY <1>1, NumberOrderIs, ListOrderIs, NumbersBy
<1>3. QED
  BY <1>2, NumbersDiffer

\* Whatever Version::parse gives, cmp is an order: turning the arguments turns
\* the result, and what is at most something is at most what that is at most
\* (version.rs:341).
THEOREM VersionsHaveAnOrder ==
  ASSUME NEW a, NEW b, NEW c, IsVersion(a), IsVersion(b), IsVersion(c)
  PROVE  IsOrder(cmp, a, b, c)
<1> DEFINE V == {a, b, c}
           P == Seq(Strings)
           f == ListOrder(NumberOrder, Nat)
           g == NoneLast(ListOrder(IdOrder, Strings), P)
           h == VersionBy(f, g, V)
<1>1. IsComparison(f, Seq(Nat)) /\ \A x, y \in Seq(Nat) : f[<<x, y>>] = CompareNumbers(x, y)
  BY NumberOrderIs, ListOrderIs, NumbersBy
<1>2. IsComparison(ListOrder(IdOrder, Strings), P)
      /\ \A x, y \in P : ListOrder(IdOrder, Strings)[<<x, y>>] = compare_pre_release(x, y)
  BY IdOrderIs, ListOrderIs, PreReleasesBy
<1>3. IsComparison(g, P)
      /\ \A x, y \in P : g[<<x, y>>] = IF x = << >> \/ y = << >> THEN Later(x, y)
                                       ELSE compare_pre_release(x, y)
  BY <1>2, NoneLastIs
<1>4. \A v \in V : v.numbers \in Seq(Nat) /\ v.pre \in P
  BY DEF IsVersion
<1>5. \A x, y \in Seq(Nat) : f[<<x, y>>] = 0 => x = y
  BY NumbersAreStrict
<1> HIDE DEF V, P, f, g
<1>6. IsComparison(h, V)
  BY <1>1, <1>3, <1>4, <1>5, VersionByIs
<1>7. ASSUME NEW v \in V, NEW w \in V PROVE h[<<v, w>>] = cmp(v, w)
  <2>1. h[<<v, w>>] = IF v.numbers # w.numbers THEN f[<<v.numbers, w.numbers>>]
                      ELSE g[<<v.pre, w.pre>>]
    BY DEF VersionBy
  <2>2. /\ f[<<v.numbers, w.numbers>>] = CompareNumbers(v.numbers, w.numbers)
        /\ g[<<v.pre, w.pre>>] = IF v.pre = << >> \/ w.pre = << >> THEN Later(v.pre, w.pre)
                                 ELSE compare_pre_release(v.pre, w.pre)
    BY <1>1, <1>3, <1>4
  <2>3. QED
    BY <2>1, <2>2 DEF cmp, Later
<1> HIDE DEF h
<1>8. a \in V /\ b \in V /\ c \in V
  BY DEF V
<1>9. /\ h[<<a, b>>] = -h[<<b, a>>]
      /\ h[<<a, b>>] <= 0 /\ h[<<b, c>>] <= 0 => h[<<a, c>>] <= 0
  BY <1>6, <1>8, OrderedBy
<1>10. /\ cmp(a, b) = -cmp(b, a)
       /\ cmp(a, b) <= 0 /\ cmp(b, c) <= 0 => cmp(a, c) <= 0
  BY <1>7, <1>8, <1>9
<1>11. QED
  BY <1>10 DEF IsOrder

LEMMA DriverVersionsCompare ==
  ASSUME NEW V, \A v \in V : IsDriverVersion(v)
  PROVE  IsComparison([p \in V \X V |-> DriverVersionCmp(p[1], p[2])], V)
<1> DEFINE P == Strings
           f == ListOrder(NumberOrder, Nat)
           g == NoneLast(ListOrder(CharacterOrder, Characters), P)
           h == VersionBy(f, g, V)
<1>1. IsComparison(f, Seq(Nat)) /\ \A x, y \in Seq(Nat) : f[<<x, y>>] = CompareNumbers(x, y)
  BY NumberOrderIs, ListOrderIs, NumbersBy
<1>2. IsComparison(ListOrder(CharacterOrder, Characters), P)
      /\ \A x, y \in P : ListOrder(CharacterOrder, Characters)[<<x, y>>] = CompareText(x, y)
  BY CharacterOrderIs, ListOrderIs, TextBy DEF Strings
<1>3. IsComparison(g, P)
      /\ \A x, y \in P : g[<<x, y>>] = IF x = << >> \/ y = << >> THEN Later(x, y)
                                       ELSE CompareText(x, y)
  BY <1>2, NoneLastIs
<1>4. \A v \in V : v.numbers \in Seq(Nat) /\ v.pre \in P
  BY DEF IsDriverVersion
<1>5. \A x, y \in Seq(Nat) : f[<<x, y>>] = 0 => x = y
  BY NumbersAreStrict
<1> HIDE DEF P, f, g
<1>6. IsComparison(h, V)
  BY <1>1, <1>3, <1>4, <1>5, VersionByIs
<1>7. ASSUME NEW v \in V, NEW w \in V PROVE h[<<v, w>>] = DriverVersionCmp(v, w)
  <2>1. h[<<v, w>>] = IF v.numbers # w.numbers THEN f[<<v.numbers, w.numbers>>]
                      ELSE g[<<v.pre, w.pre>>]
    BY DEF VersionBy
  <2>2. /\ f[<<v.numbers, w.numbers>>] = CompareNumbers(v.numbers, w.numbers)
        /\ g[<<v.pre, w.pre>>] = IF v.pre = << >> \/ w.pre = << >> THEN Later(v.pre, w.pre)
                                 ELSE CompareText(v.pre, w.pre)
    BY <1>1, <1>3, <1>4
  <2>3. QED
    BY <2>1, <2>2 DEF DriverVersionCmp, Later
<1>8. h = [p \in V \X V |-> DriverVersionCmp(p[1], p[2])]
  <2>1. ASSUME NEW p \in V \X V PROVE h[p] = DriverVersionCmp(p[1], p[2])
    <3>1. p[1] \in V /\ p[2] \in V /\ p = <<p[1], p[2]>>
      OBVIOUS
    <3>2. QED
      BY <1>7, <3>1
  <2>2. h = [p \in V \X V |-> h[p]]
    BY DEF VersionBy
  <2> HIDE DEF h
  <2>3. QED
    BY <2>1, <2>2
<1>9. QED
  BY <1>6, <1>8

\* The same of the versions of drivers (inventory.rs:243).
THEOREM DriverVersionsHaveAnOrder ==
  ASSUME NEW a, NEW b, NEW c, IsDriverVersion(a), IsDriverVersion(b), IsDriverVersion(c)
  PROVE  IsOrder(DriverVersionCmp, a, b, c)
<1> DEFINE V == {a, b, c}
           h == [p \in V \X V |-> DriverVersionCmp(p[1], p[2])]
<1>1. a \in V /\ b \in V /\ c \in V /\ \A v \in V : IsDriverVersion(v)
  OBVIOUS
<1> HIDE DEF V
<1>2. IsComparison(h, V)
  BY <1>1, DriverVersionsCompare, Zenon
<1>3. \A v, w \in V : h[<<v, w>>] = DriverVersionCmp(v, w)
  OBVIOUS
<1> HIDE DEF h
<1>4. /\ h[<<a, b>>] = -h[<<b, a>>]
      /\ h[<<a, b>>] <= 0 /\ h[<<b, c>>] <= 0 => h[<<a, c>>] <= 0
  BY <1>1, <1>2, OrderedBy
<1>5. /\ DriverVersionCmp(a, b) = -DriverVersionCmp(b, a)
      /\ DriverVersionCmp(a, b) <= 0 /\ DriverVersionCmp(b, c) <= 0
           => DriverVersionCmp(a, c) <= 0
  BY <1>1, <1>3, <1>4
<1>6. QED
  BY <1>5 DEF IsOrder

\* A pre-release comes before the longer ones it begins and a release after
\* all its pre-releases, as semver.org has it (version.rs:320).
THEOREM PrefixesComeFirst ==
  ASSUME NEW a, NEW b, IsVersion(a), IsVersion(b)
  PROVE  FollowsSemver(a, b)
<1>1. SUFFICES ASSUME a.numbers = b.numbers, IsStrictPrefix(a.pre, b.pre)
               PROVE  cmp(a, b) = IF a.pre = << >> THEN 1 ELSE -1
  BY DEF FollowsSemver
<1> DEFINE p == a.pre  q == b.pre
<1>2. p \in Seq(Strings) /\ q \in Seq(Strings) /\ Len(p) \in Nat /\ Len(q) \in Nat
  BY DEF IsVersion
<1>3. Len(p) <= Len(q) /\ SubSeq(p, 1, Len(p)) = SubSeq(q, 1, Len(p)) /\ p # q
  BY <1>1 DEF IsStrictPrefix, IsPrefix
<1>4. \A i \in 1..Len(p) : p[i] = q[i]
  <2>1. \A i \in 1..Len(p) : SubSeq(p, 1, Len(p))[i] = p[i] /\ SubSeq(q, 1, Len(p))[i] = q[i]
    BY <1>2, <1>3
  <2>2. QED
    BY <1>3, <2>1
<1> HIDE DEF p, q
<1>5. Len(p) < Len(q)
  <2>1. SUFFICES ASSUME Len(p) = Len(q) PROVE p = q
    BY <1>2, <1>3
  <2>2. QED
    BY <1>2, <1>4, <2>1
<1>6. q # << >>
  BY <1>2, <1>5
<1>7. CASE p = << >>
  BY <1>1, <1>6, <1>7 DEF cmp, p, q
<1>8. CASE p # << >>
  <2>1. Agree(IdOrder, p, q)
    <3>1. ASSUME NEW x \in Strings PROVE IdOrder[<<x, x>>] = 0
      <4>1. IdOrder[<<x, x>>] \in Signs /\ IdOrder[<<x, x>>] = -IdOrder[<<x, x>>]
        BY IdOrderIs DEF IsComparison
      <4>2. QED
        BY <4>1 DEF Signs
    <3>2. ASSUME NEW i \in 1..Len(p) PROVE IdOrder[<<p[i], q[i]>>] = 0
      BY <1>2, <1>4, <3>1
    <3>3. QED
      BY <3>2 DEF Agree
  <2>2. By(IdOrder, p, q) = Sign(Len(p) - Len(q))
    BY <1>2, <2>1, ByLength
  <2>3. Sign(Len(p) - Len(q)) = -1
    BY <1>2, <1>5 DEF Sign
  <2>4. cmp(a, b) = compare_pre_release(p, q)
    BY <1>1, <1>6, <1>8 DEF cmp, p, q
  <2>5. QED
    BY <1>2, <1>8, <2>2, <2>3, <2>4, PreReleasesBy DEF p
<1>9. QED
  BY <1>7, <1>8

-----------------------------------------------------------------------------

LEMMA PaddedIs ==
  ASSUME NEW kernel \in Seq(Nat), NEW bound \in Seq(Nat)
  PROVE  /\ Padded(kernel, bound) \in Seq(Nat) /\ Len(Padded(kernel, bound)) = Len(bound)
         /\ \A i \in 1..Len(bound) :
              Padded(kernel, bound)[i] = IF i <= Len(kernel) THEN kernel[i] ELSE 0
<1>1. \A i \in 1..Len(bound) : Component(kernel, i) \in Nat
  BY DEF Component
<1>2. DOMAIN bound = 1..Len(bound) /\ Len(bound) \in Nat
  OBVIOUS
<1>3. Padded(kernel, bound) = [i \in 1..Len(bound) |-> Component(kernel, i)]
  BY <1>2 DEF Padded
<1>4. QED
  BY <1>1, <1>2, <1>3 DEF Component

LEMMA NumbersTurn ==
  ASSUME NEW a \in Seq(Nat), NEW b \in Seq(Nat)
  PROVE  CompareNumbers(a, b) >= 0 <=> CompareNumbers(b, a) <= 0
<1>1. By(NumberOrder, a, b) = -By(NumberOrder, b, a) /\ By(NumberOrder, b, a) \in Signs
  BY NumberOrderIs, ByTurns, ByIsSign
<1>2. QED
  BY <1>1, NumbersBy DEF Signs

LEMMA NumbersChain ==
  ASSUME NEW a \in Seq(Nat), NEW b \in Seq(Nat), NEW c \in Seq(Nat),
         CompareNumbers(a, b) <= 0, CompareNumbers(b, c) <= 0
  PROVE  CompareNumbers(a, c) <= 0
BY NumberOrderIs, ByChains, NumbersBy

\* A list of numbers is not after another.
LEMMA NumbersAtMost ==
  ASSUME NEW a \in Seq(Nat), NEW b \in Seq(Nat)
  PROVE  CompareNumbers(a, b) <= 0 <=>
           \/ Len(a) <= Len(b) /\ \A i \in 1..Len(a) : i <= Len(b) => a[i] = b[i]
           \/ \E i \in Nat : /\ i \in 1..Len(a) /\ i \in 1..Len(b) /\ a[i] < b[i]
                             /\ \A j \in 1..Len(a) : j < i => a[j] = b[j]
<1>1. \A i \in 1..Len(a) : i <= Len(b) =>
        /\ NumberOrder[<<a[i], b[i]>>] = 0 <=> a[i] = b[i]
        /\ NumberOrder[<<a[i], b[i]>>] < 0 <=> a[i] < b[i]
  <2>1. ASSUME NEW x \in Nat, NEW y \in Nat
        PROVE  (NumberOrder[<<x, y>>] = 0 <=> x = y) /\ (NumberOrder[<<x, y>>] < 0 <=> x < y)
    <3>1. NumberOrder[<<x, y>>] = Order(x, y)
      BY NumberOrderIs DEF Order
    <3>2. QED
      BY <3>1 DEF Order, Sign
  <2>2. QED
    BY <2>1
<1>2. Agree(NumberOrder, a, b) <=> \A i \in 1..Len(a) : i <= Len(b) => a[i] = b[i]
  BY <1>1, Zenon DEF Agree
<1>3. ASSUME NEW i \in Nat
      PROVE  DifferAt(NumberOrder, a, b, i) /\ NumberOrder[<<a[i], b[i]>>] < 0
               <=> /\ i \in 1..Len(a) /\ i \in 1..Len(b) /\ a[i] < b[i]
                   /\ \A j \in 1..Len(a) : j < i => a[j] = b[j]
  <2>1. SUFFICES ASSUME i \in 1..Len(a), i \in 1..Len(b)
                 PROVE  (DifferAt(NumberOrder, a, b, i) /\ NumberOrder[<<a[i], b[i]>>] < 0)
                          <=> (a[i] < b[i] /\ \A j \in 1..Len(a) : j < i => a[j] = b[j])
    BY DEF DifferAt
  <2>2. Len(a) \in Nat /\ Len(b) \in Nat /\ i <= Len(a) /\ i <= Len(b)
        /\ a[i] \in Nat /\ b[i] \in Nat
    BY <2>1
  <2>3. /\ NumberOrder[<<a[i], b[i]>>] = 0 <=> a[i] = b[i]
        /\ NumberOrder[<<a[i], b[i]>>] < 0 <=> a[i] < b[i]
    BY <1>1, <2>1, <2>2, Zenon
  <2>4. \A j \in 1..Len(a) : j < i => (NumberOrder[<<a[j], b[j]>>] = 0 <=> a[j] = b[j])
    BY <1>1, <2>2
  <2>5. a[i] < b[i] => a[i] # b[i]
    BY <2>2
  <2>6. DifferAt(NumberOrder, a, b, i) <=>
          a[i] # b[i] /\ \A j \in 1..Len(a) : j < i => NumberOrder[<<a[j], b[j]>>] = 0
    BY <2>1, <2>3, Zenon DEF DifferAt
  <2>7. QED
    BY <2>3, <2>4, <2>5, <2>6, Zenon
<1>4. By(NumberOrder, a, b) <= 0 <=>
        \/ Agree(NumberOrder, a, b) /\ Len(a) <= Len(b)
        \/ \E i \in Nat : DifferAt(NumberOrder, a, b, i) /\ NumberOrder[<<a[i], b[i]>>] < 0
  BY NumberOrderIs, AtMost, Zenon
<1>5. QED
  BY <1>2, <1>3, <1>4, NumbersBy, Zenon

\* A later kernel is later against every bound.
LEMMA PaddedKeeps ==
  ASSUME NEW low \in Seq(Nat), NEW high \in Seq(Nat), NEW bound \in Seq(Nat),
         CompareNumbers(low, high) <= 0
  PROVE  CompareNumbers(Padded(low, bound), Padded(high, bound)) <= 0
<1> DEFINE p == Padded(low, bound)  q == Padded(high, bound)  n == Len(bound)
<1>1. /\ p \in Seq(Nat) /\ Len(p) = n /\ q \in Seq(Nat) /\ Len(q) = n /\ n \in Nat
      /\ \A i \in 1..n : p[i] = IF i <= Len(low) THEN low[i] ELSE 0
      /\ \A i \in 1..n : q[i] = IF i <= Len(high) THEN high[i] ELSE 0
  BY PaddedIs
<1> HIDE DEF p, q, n
<1>2. Len(low) \in Nat /\ Len(high) \in Nat
  OBVIOUS
<1>3. CASE Len(low) <= Len(high) /\ \A i \in 1..Len(low) : i <= Len(high) => low[i] = high[i]
  <2> DEFINE D == {i \in 1..n : p[i] # q[i]}
  <2>1. \A i \in 1..n : p[i] \in Nat /\ q[i] \in Nat /\ p[i] <= q[i]
    <3>1. \A i \in 1..n : p[i] \in Nat /\ q[i] \in Nat
      BY <1>1
    <3>2. ASSUME NEW i \in 1..n PROVE p[i] <= q[i]
      <4>1. CASE i <= Len(low)
        <5>1. i \in 1..Len(low) /\ i <= Len(high)
          BY <1>2, <1>3, <4>1
        <5>2. p[i] = low[i] /\ q[i] = high[i]
          BY <1>1, <4>1, <5>1
        <5>3. QED
          BY <1>3, <3>1, <5>1, <5>2
      <4>2. CASE ~(i <= Len(low))
        BY <1>1, <3>1, <4>2
      <4>3. QED
        BY <4>1, <4>2
    <3>3. QED
      BY <3>1, <3>2
  <2>2. CASE D = {}
    <3>1. Len(p) <= Len(q) /\ \A i \in 1..Len(p) : i <= Len(q) => p[i] = q[i]
      <4>1. \A i \in 1..n : p[i] = q[i]
        BY <2>2, Zenon
      <4>2. QED
        BY <1>1, <4>1
    <3>2. QED
      BY <1>1, <3>1, NumbersAtMost, Zenon DEF p, q
  <2>3. CASE D # {}
    <3>1. D \in SUBSET Nat
      OBVIOUS
    <3> HIDE DEF D
    <3>2. PICK i \in D : \A j \in D : i <= j
      BY <2>3, <3>1, SmallestNumber
    <3> USE DEF D
    <3>3. i \in Nat /\ i \in 1..Len(p) /\ i \in 1..Len(q) /\ p[i] < q[i]
      BY <1>1, <2>1, <3>2
    <3>4. \A j \in 1..Len(p) : j < i => p[j] = q[j]
      BY <1>1, <3>2
    <3>5. QED
      BY <1>1, <3>3, <3>4, NumbersAtMost, Zenon DEF p, q
  <2>4. QED
    BY <2>2, <2>3
<1>4. ASSUME NEW i \in Nat, i \in 1..Len(low), i \in 1..Len(high), low[i] < high[i],
             \A j \in 1..Len(low) : j < i => low[j] = high[j]
      PROVE  CompareNumbers(p, q) <= 0
  <2>1. ASSUME NEW j \in 1..n, j < i
        PROVE  p[j] = q[j]
    <3>1. j \in 1..Len(low) /\ j <= Len(low) /\ j <= Len(high)
      BY <1>1, <1>2, <1>4, <2>1
    <3>2. p[j] = low[j] /\ q[j] = high[j]
      BY <1>1, <3>1
    <3>3. QED
      BY <1>4, <2>1, <3>1, <3>2
  <2>2. CASE i <= n
    <3>1. i \in 1..Len(p) /\ i \in 1..Len(q) /\ p[i] < q[i]
      BY <1>1, <1>4, <2>2
    <3>2. QED
      BY <1>1, <2>1, <3>1, NumbersAtMost, ZenonT(30)
  <2>3. CASE n < i
    <3>1. \A j \in 1..Len(p) : j <= Len(q) => p[j] = q[j]
      BY <1>1, <2>1, <2>3
    <3>2. Len(p) <= Len(q)
      BY <1>1
    <3>3. QED
      BY <1>1, <3>1, <3>2, NumbersAtMost, Zenon
  <2>4. QED
    BY <1>1, <2>2, <2>3
<1>5. QED
  BY <1>3, <1>4, NumbersAtMost DEF p, q

\* Between two kernels a driver accepts there is none it does not accept, for
\* bounds and kernels with any number of components (matching.rs:360).
THEOREM RangesHaveNoGap ==
  ASSUME NEW min \in Seq(Nat), NEW max \in Seq(Nat),
         NEW low \in Seq(Nat), NEW middle \in Seq(Nat), NEW high \in Seq(Nat)
  PROVE  IsRange(min, max, low, middle, high)
<1>1. SUFFICES ASSUME CompareNumbers(low, middle) <= 0, CompareNumbers(middle, high) <= 0,
                      check_kernel_compatibility(low, min, max),
                      check_kernel_compatibility(high, min, max)
               PROVE  check_kernel_compatibility(middle, min, max)
  BY DEF IsRange
<1>2. \A kernel, bound : Against(kernel, bound) = CompareNumbers(Padded(kernel, bound), bound)
  BY DEF Against, Padded
<1>3. \A kernel, bound \in Seq(Nat) : Padded(kernel, bound) \in Seq(Nat)
  BY PaddedIs
<1>4. Against(middle, min) >= 0
  <2>1. CompareNumbers(min, Padded(low, min)) <= 0
    BY <1>1, <1>2, <1>3, NumbersTurn DEF check_kernel_compatibility
  <2>2. CompareNumbers(Padded(low, min), Padded(middle, min)) <= 0
    BY <1>1, PaddedKeeps
  <2>3. CompareNumbers(min, Padded(middle, min)) <= 0
    BY <1>3, <2>1, <2>2, NumbersChain
  <2>4. QED
    BY <1>2, <1>3, <2>3, NumbersTurn
<1>5. max # << >> => Against(middle, max) <= 0
  <2>1. SUFFICES ASSUME max # << >> PROVE Against(middle, max) <= 0
    OBVIOUS
  <2>2. CompareNumbers(Padded(high, max), max) <= 0
    BY <1>1, <1>2, <2>1 DEF check_kernel_compatibility
  <2>3. CompareNumbers(Padded(middle, max), Padded(high, max)) <= 0
    BY <1>1, PaddedKeeps
  <2>4. QED
    BY <1>2, <1>3, <2>2, <2>3, NumbersChain
<1>6. QED
  BY <1>4, <1>5 DEF check_kernel_compatibility

-----------------------------------------------------------------------------
(***************************************************************************)
(* Criteria applied one after the other.                                   *)
(***************************************************************************)
LEMMA KeyOrderIs ==
  ASSUME NEW S, NEW k \in [S -> Int]
  PROVE  IsComparison([p \in S \X S |-> Order(k[p[1]], k[p[2]])], S)
<1> DEFINE f == [p \in S \X S |-> Order(k[p[1]], k[p[2]])]
<1>1. \A x, y \in S : f[<<x, y>>] = Order(k[x], k[y])
  OBVIOUS
<1>2. \A x \in S : k[x] \in Int
  OBVIOUS
<1>3. f \in [S \X S -> Signs]
  <2>1. ASSUME NEW p \in S \X S PROVE Order(k[p[1]], k[p[2]]) \in Signs
    <3>1. k[p[1]] \in Int /\ k[p[2]] \in Int
      OBVIOUS
    <3>2. QED
      BY <3>1, OrderIs
  <2>2. QED
    BY <2>1
<1> HIDE DEF f
<1>4. ASSUME NEW x \in S, NEW y \in S
      PROVE  /\ f[<<x, y>>] = -f[<<y, x>>]
             /\ f[<<x, y>>] <= 0 <=> k[x] <= k[y]
  <2>1. Order(k[x], k[y]) = -Order(k[y], k[x]) /\ (Order(k[x], k[y]) <= 0 <=> k[x] <= k[y])
    BY <1>2, OrderIs
  <2>2. QED
    BY <1>1, <2>1
<1>5. ASSUME NEW x \in S, NEW y \in S, NEW z \in S, f[<<x, y>>] <= 0, f[<<y, z>>] <= 0
      PROVE  f[<<x, z>>] <= 0
  <2>1. k[x] <= k[y] /\ k[y] <= k[z]
    BY <1>4, <1>5, Zenon
  <2>2. k[x] <= k[z]
    BY <1>2, <2>1
  <2>3. QED
    BY <1>4, <2>2, Zenon
<1>6. QED
  BY <1>3, <1>4, <1>5, Zenon DEF IsComparison, f

LEMMA ThenByIs ==
  ASSUME NEW S, NEW f, NEW g, IsComparison(f, S), IsComparison(g, S)
  PROVE  IsComparison(ThenBy(f, g, S), S)
<1> DEFINE h == ThenBy(f, g, S)
<1>1. \A x, y \in S : h[<<x, y>>] = IF f[<<x, y>>] # 0 THEN f[<<x, y>>] ELSE g[<<x, y>>]
  BY DEF ThenBy
<1>2. h \in [S \X S -> Signs]
  BY DEF ThenBy, IsComparison
<1> HIDE DEF h
<1>3. ASSUME NEW x \in S, NEW y \in S
      PROVE  h[<<x, y>>] = -h[<<y, x>>]
  <2>1. /\ f[<<x, y>>] = -f[<<y, x>>] /\ f[<<x, y>>] \in Signs /\ f[<<y, x>>] \in Signs
        /\ g[<<x, y>>] = -g[<<y, x>>]
    BY DEF IsComparison
  <2>2. f[<<x, y>>] = 0 <=> f[<<y, x>>] = 0
    BY <2>1 DEF Signs
  <2>3. QED
    BY <1>1, <2>1, <2>2
<1>4. ASSUME NEW x \in S, NEW y \in S, NEW z \in S, h[<<x, y>>] <= 0, h[<<y, z>>] <= 0
      PROVE  h[<<x, z>>] <= 0
  <2>1. Chains(f, x, y, z)
    BY Chained
  <2>2. f[<<x, y>>] \in Signs /\ f[<<y, z>>] \in Signs /\ f[<<x, z>>] \in Signs
    BY DEF IsComparison
  <2>3. f[<<x, y>>] <= 0 /\ f[<<y, z>>] <= 0
    BY <1>1, <1>4, <2>2 DEF Signs
  <2>4. CASE f[<<x, y>>] < 0 \/ f[<<y, z>>] < 0
    <3>1. f[<<x, z>>] < 0
      BY <2>1, <2>2, <2>3, <2>4 DEF Chains, Signs
    <3>2. QED
      BY <1>1, <2>2, <3>1 DEF Signs
  <2>5. CASE f[<<x, y>>] = 0 /\ f[<<y, z>>] = 0
    <3>1. f[<<x, z>>] = 0
      BY <2>1, <2>5 DEF Chains
    <3>2. g[<<x, y>>] <= 0 /\ g[<<y, z>>] <= 0
      BY <1>1, <1>4, <2>5
    <3>3. g[<<x, z>>] <= 0
      BY <3>2 DEF IsComparison
    <3>4. QED
      BY <1>1, <3>1, <3>3
  <2>6. QED
    BY <2>2, <2>3, <2>4, <2>5 DEF Signs
<1>5. QED
  BY <1>2, <1>3, <1>4 DEF IsComparison, h

LEMMA DecideIs ==
  ASSUME NEW a, NEW b, NEW c, NEW d, NEW e, NEW f
  PROVE  Decide(<<a, b, c, d, e, f>>) =
           IF a # 0 THEN a ELSE IF b # 0 THEN b ELSE IF c # 0 THEN c
           ELSE IF d # 0 THEN d ELSE IF e # 0 THEN e ELSE IF f # 0 THEN f ELSE 0
<1> DEFINE s     == <<a, b, c, d, e, f>>
           apart == {i \in DOMAIN s : s[i] # 0}
<1>1. DOMAIN s = 1..6 /\ s[1] = a /\ s[2] = b /\ s[3] = c /\ s[4] = d /\ s[5] = e /\ s[6] = f
  OBVIOUS
<1>2. Decide(s) = IF apart = {} THEN 0 ELSE s[Min(apart)]
  BY DEF Decide
<1> HIDE DEF s
<1>3. apart = {i \in 1..6 : s[i] # 0}
  BY <1>1
<1> HIDE DEF apart
<1>4. apart # {} => Min(apart) \in apart /\ \A i \in apart : Min(apart) <= i
  <2>1. apart \in SUBSET Nat
    BY <1>3
  <2>2. QED
    BY <2>1, SmallestNumber, Zenon DEF Min
<1>5. \A i \in 1..6 : i \in {1, 2, 3, 4, 5, 6}
  OBVIOUS
<1>6. CASE a # 0
  <2>1. 1 \in apart
    BY <1>1, <1>3, <1>6
  <2>2. Min(apart) = 1
    BY <1>3, <1>4, <2>1
  <2>3. QED
    BY <1>1, <1>2, <1>6, <2>1, <2>2 DEF s
<1>7. CASE a = 0 /\ b # 0
  <2>1. 1 \notin apart /\ 2 \in apart
    BY <1>1, <1>3, <1>7
  <2>2. Min(apart) = 2
    BY <1>3, <1>4, <2>1
  <2>3. QED
    BY <1>1, <1>2, <1>7, <2>1, <2>2 DEF s
<1>8. CASE a = 0 /\ b = 0 /\ c # 0
  <2>1. 1 \notin apart /\ 2 \notin apart /\ 3 \in apart
    BY <1>1, <1>3, <1>8
  <2>2. Min(apart) = 3
    BY <1>3, <1>4, <2>1
  <2>3. QED
    BY <1>1, <1>2, <1>8, <2>1, <2>2 DEF s
<1>9. CASE a = 0 /\ b = 0 /\ c = 0 /\ d # 0
  <2>1. 1 \notin apart /\ 2 \notin apart /\ 3 \notin apart /\ 4 \in apart
    BY <1>1, <1>3, <1>9
  <2>2. Min(apart) = 4
    BY <1>3, <1>4, <2>1
  <2>3. QED
    BY <1>1, <1>2, <1>9, <2>1, <2>2 DEF s
<1>10. CASE a = 0 /\ b = 0 /\ c = 0 /\ d = 0 /\ e # 0
  <2>1. 1 \notin apart /\ 2 \notin apart /\ 3 \notin apart /\ 4 \notin apart /\ 5 \in apart
    BY <1>1, <1>3, <1>10
  <2>2. Min(apart) = 5
    BY <1>3, <1>4, <2>1
  <2>3. QED
    BY <1>1, <1>2, <1>10, <2>1, <2>2 DEF s
<1>11. CASE a = 0 /\ b = 0 /\ c = 0 /\ d = 0 /\ e = 0 /\ f # 0
  <2>1. 1 \notin apart /\ 2 \notin apart /\ 3 \notin apart /\ 4 \notin apart /\ 5 \notin apart
        /\ 6 \in apart
    BY <1>1, <1>3, <1>11
  <2>2. Min(apart) = 6
    BY <1>3, <1>4, <2>1
  <2>3. QED
    BY <1>1, <1>2, <1>11, <2>1, <2>2 DEF s
<1>12. CASE a = 0 /\ b = 0 /\ c = 0 /\ d = 0 /\ e = 0 /\ f = 0
  <2>1. apart = {}
    BY <1>1, <1>3, <1>5, <1>12
  <2>2. QED
    BY <1>2, <1>12, <2>1 DEF s
<1>13. QED
  BY <1>6, <1>7, <1>8, <1>9, <1>10, <1>11, <1>12

-----------------------------------------------------------------------------
(***************************************************************************)
(* Candidates of the selector, and the last greatest of a list.            *)
(***************************************************************************)
LEMMA PartOrderIs ==
  ASSUME NEW S, NEW V, NEW f, IsComparison(f, V), NEW k \in [S -> V]
  PROVE  IsComparison(PartOrder(f, k, S), S)
<1> DEFINE g == [p \in S \X S |-> f[<<k[p[1]], k[p[2]]>>]]
<1>1. \A x, y \in S : g[<<x, y>>] = f[<<k[x], k[y]>>]
  OBVIOUS
<1>2. \A x \in S : k[x] \in V
  OBVIOUS
<1>3. g \in [S \X S -> Signs]
  <2>1. ASSUME NEW p \in S \X S PROVE f[<<k[p[1]], k[p[2]]>>] \in Signs
    <3>1. k[p[1]] \in V /\ k[p[2]] \in V
      OBVIOUS
    <3>2. QED
      BY <3>1 DEF IsComparison
  <2>2. QED
    BY <2>1
<1> HIDE DEF g
<1>4. ASSUME NEW x \in S, NEW y \in S
      PROVE  g[<<x, y>>] = -g[<<y, x>>]
  <2>1. f[<<k[x], k[y]>>] = -f[<<k[y], k[x]>>]
    BY <1>2 DEF IsComparison
  <2>2. QED
    BY <1>1, <2>1
<1>5. ASSUME NEW x \in S, NEW y \in S, NEW z \in S, g[<<x, y>>] <= 0, g[<<y, z>>] <= 0
      PROVE  g[<<x, z>>] <= 0
  <2>1. f[<<k[x], k[y]>>] <= 0 /\ f[<<k[y], k[z]>>] <= 0
    BY <1>1, <1>5
  <2>2. f[<<k[x], k[z]>>] <= 0
    BY <1>2, <2>1 DEF IsComparison
  <2>3. QED
    BY <1>1, <2>2
<1>6. QED
  BY <1>3, <1>4, <1>5 DEF IsComparison, PartOrder, g

LEMMA CandidatesCompare ==
  ASSUME NEW registry, NEW verified, NEW C, \A c \in C : IsCandidate(registry, c)
  PROVE  IsComparison(CandidateOrder(registry, verified, C), C)
<1> DEFINE trusted  == [c \in C |-> Bit(c.trusted)]
           manifest == [c \in C |-> manifest_trust_score(verified, c.source)]
           score    == [c \in C |-> c.score]
           priority == [c \in C |-> source_priority(registry, c.source)]
           version  == [c \in C |-> c.package.version]
           name     == [c \in C |-> c.driver.name]
           V        == {c.package.version : c \in C}
           versions == [p \in V \X V |-> DriverVersionCmp(p[1], p[2])]
           texts    == ListOrder(CharacterOrder, Characters)
           f1 == [p \in C \X C |-> Order(trusted[p[1]], trusted[p[2]])]
           f2 == [p \in C \X C |-> Order(manifest[p[1]], manifest[p[2]])]
           f3 == [p \in C \X C |-> Order(score[p[1]], score[p[2]])]
           f4 == [p \in C \X C |-> Order(-priority[p[1]], -priority[p[2]])]
           f5 == [p \in C \X C |-> versions[<<version[p[1]], version[p[2]]>>]]
           f6 == [p \in C \X C |-> texts[<<name[p[1]], name[p[2]]>>]]
<1>1. IsComparison(f1, C)
  <2>1. trusted \in [C -> Int]
    BY DEF Bit
  <2> HIDE DEF trusted
  <2>2. QED
    BY <2>1, KeyOrderIs, Zenon
<1>2. IsComparison(f2, C)
  <2>1. manifest \in [C -> Int]
    BY DEF manifest_trust_score
  <2> HIDE DEF manifest
  <2>2. QED
    BY <2>1, KeyOrderIs, Zenon
<1>3. IsComparison(f3, C)
  <2>1. score \in [C -> Int]
    BY DEF IsCandidate
  <2> HIDE DEF score
  <2>2. QED
    BY <2>1, KeyOrderIs, Zenon
<1>4. IsComparison(f4, C)
  <2> DEFINE low == [c \in C |-> -source_priority(registry, c.source)]
  <2>1. low \in [C -> Int]
    BY DEF IsCandidate
  <2>2. f4 = [p \in C \X C |-> Order(low[p[1]], low[p[2]])]
    <3>1. \A p \in C \X C : p[1] \in C /\ p[2] \in C
      OBVIOUS
    <3>2. QED
      BY <3>1
  <2> HIDE DEF low, f4
  <2>3. QED
    BY <2>1, <2>2, KeyOrderIs, Zenon
<1>5. IsComparison(f5, C)
  <2>1. version \in [C -> V]
    OBVIOUS
  <2>2. \A v \in V : IsDriverVersion(v)
    BY DEF IsCandidate
  <2> HIDE DEF V, version
  <2>3. IsComparison(versions, V)
    BY <2>2, DriverVersionsCompare
  <2> HIDE DEF versions
  <2>4. IsComparison(PartOrder(versions, version, C), C)
    BY <2>1, <2>3, PartOrderIs
  <2>5. QED
    BY <2>4 DEF PartOrder
<1>6. IsComparison(f6, C)
  <2>1. name \in [C -> Strings]
    BY DEF IsCandidate
  <2>2. IsComparison(texts, Strings)
    BY CharacterOrderIs, ListOrderIs DEF Strings
  <2> HIDE DEF name, texts
  <2>3. IsComparison(PartOrder(texts, name, C), C)
    BY <2>1, <2>2, PartOrderIs
  <2>4. QED
    BY <2>3 DEF PartOrder
<1> DEFINE h == ThenBy(f1, ThenBy(f2, ThenBy(f3, ThenBy(f4, ThenBy(f5, f6, C), C), C), C), C)
<1>7. IsComparison(h, C)
  <2> HIDE DEF f1, f2, f3, f4, f5, f6
  <2>1. IsComparison(ThenBy(f5, f6, C), C)
    BY <1>5, <1>6, ThenByIs
  <2>2. IsComparison(ThenBy(f4, ThenBy(f5, f6, C), C), C)
    BY <1>4, <2>1, ThenByIs
  <2>3. IsComparison(ThenBy(f3, ThenBy(f4, ThenBy(f5, f6, C), C), C), C)
    BY <1>3, <2>2, ThenByIs
  <2>4. IsComparison(ThenBy(f2, ThenBy(f3, ThenBy(f4, ThenBy(f5, f6, C), C), C), C), C)
    BY <1>2, <2>3, ThenByIs
  <2>5. QED
    BY <1>1, <2>4, ThenByIs
<1>8. ASSUME NEW p \in C \X C
      PROVE  h[p] = CompareCandidates(registry, verified, p[1], p[2])
  <2> DEFINE a == p[1]  b == p[2]
  <2>1. a \in C /\ b \in C /\ p = <<a, b>>
    OBVIOUS
  <2>2. h[p] = IF f1[p] # 0 THEN f1[p] ELSE IF f2[p] # 0 THEN f2[p] ELSE IF f3[p] # 0 THEN f3[p]
               ELSE IF f4[p] # 0 THEN f4[p] ELSE IF f5[p] # 0 THEN f5[p] ELSE f6[p]
    <3> HIDE DEF f1, f2, f3, f4, f5, f6
    <3>1. QED
      BY DEF ThenBy
  <2>3. f1[p] = Sign(Bit(a.trusted) - Bit(b.trusted))
    BY <2>1 DEF Order
  <2>4. f2[p] = Sign(manifest_trust_score(verified, a.source)
                       - manifest_trust_score(verified, b.source))
    BY <2>1 DEF Order
  <2>5. f3[p] = Sign(a.score - b.score)
    BY <2>1 DEF Order
  <2>6. f4[p] = Sign(source_priority(registry, b.source) - source_priority(registry, a.source))
    <3>1. source_priority(registry, a.source) \in Int /\ source_priority(registry, b.source) \in Int
      BY <2>1 DEF IsCandidate
    <3>2. f4[p] = Sign((-source_priority(registry, a.source)) - (-source_priority(registry, b.source)))
      BY <2>1 DEF Order
    <3>3. \A m, n \in Int : (-m) - (-n) = n - m
      OBVIOUS
    <3>4. QED
      BY <3>1, <3>2, <3>3
  <2>7. f5[p] = DriverVersionCmp(a.package.version, b.package.version)
    BY <2>1
  <2>8. f6[p] = CompareText(a.driver.name, b.driver.name)
    <3>1. a.driver.name \in Seq(Characters) /\ b.driver.name \in Seq(Characters)
      BY <2>1 DEF IsCandidate, Strings
    <3>2. f6[p] = texts[<<a.driver.name, b.driver.name>>]
      BY <2>1
    <3>3. QED
      BY <3>1, <3>2, CharacterOrderIs, ListOrderIs, TextBy
  <2> HIDE DEF f1, f2, f3, f4, f5, f6, h
  <2>9. CompareCandidates(registry, verified, a, b) = Decide(<<f1[p], f2[p], f3[p], f4[p], f5[p], f6[p]>>)
    BY <2>3, <2>4, <2>5, <2>6, <2>7, <2>8 DEF CompareCandidates
  <2>10. CompareCandidates(registry, verified, a, b) =
           IF f1[p] # 0 THEN f1[p] ELSE IF f2[p] # 0 THEN f2[p] ELSE IF f3[p] # 0 THEN f3[p]
           ELSE IF f4[p] # 0 THEN f4[p] ELSE IF f5[p] # 0 THEN f5[p]
           ELSE IF f6[p] # 0 THEN f6[p] ELSE 0
    BY <2>9, DecideIs
  <2>11. QED
    BY <2>2, <2>10
<1>9. h = CandidateOrder(registry, verified, C)
  <2>1. h = [p \in C \X C |-> h[p]]
    BY ZenonT(30) DEF ThenBy
  <2> HIDE DEF h
  <2>2. QED
    BY <1>8, <2>1 DEF CandidateOrder
<1>10. QED
  BY <1>7, <1>9

\* Sorting and max_by can rely on the comparison of candidates.
THEOREM CandidatesHaveAnOrder ==
  ASSUME NEW registry, NEW verified, NEW a, NEW b, NEW c,
         IsCandidate(registry, a), IsCandidate(registry, b), IsCandidate(registry, c)
  PROVE  /\ CompareCandidates(registry, verified, a, b) = -CompareCandidates(registry, verified, b, a)
         /\ /\ CompareCandidates(registry, verified, a, b) <= 0
            /\ CompareCandidates(registry, verified, b, c) <= 0
            => CompareCandidates(registry, verified, a, c) <= 0
<1> DEFINE C == {a, b, c}
           h == CandidateOrder(registry, verified, C)
<1>1. a \in C /\ b \in C /\ c \in C /\ \A x \in C : IsCandidate(registry, x)
  OBVIOUS
<1>2. \A x, y \in C : h[<<x, y>>] = CompareCandidates(registry, verified, x, y)
  BY DEF CandidateOrder
<1> HIDE DEF C
<1>3. IsComparison(h, C)
  BY <1>1, CandidatesCompare
<1> HIDE DEF h
<1>4. /\ h[<<a, b>>] = -h[<<b, a>>]
      /\ h[<<a, b>>] <= 0 /\ h[<<b, c>>] <= 0 => h[<<a, c>>] <= 0
  BY <1>1, <1>3, OrderedBy
<1>5. QED
  BY <1>1, <1>2, <1>4

\* The first k elements, the greatest of them last.
LEMMA PrefixTop ==
  ASSUME NEW k \in Nat, k # 0
  PROVE  1..k # {} /\ Max(1..k) = k /\ (1..k) \ {k} = 1..(k - 1)
<1>1. 1..k # {} /\ k \in 1..k
  OBVIOUS
<1>2. Max(1..k) \in 1..k /\ \A j \in 1..k : j <= Max(1..k)
  BY <1>1, GreatestNumber, Zenon
<1>3. Max(1..k) = k
  BY <1>1, <1>2
<1>4. (1..k) \ {k} = 1..(k - 1)
  OBVIOUS
<1>5. QED
  BY <1>1, <1>3, <1>4

LEMMA MaxByIs ==
  ASSUME NEW registry, NEW verified, NEW list
  PROVE  max_by(registry, verified, list)
           = (CHOOSE it : Choosing(registry, verified, list, it))[DOMAIN Tail(list)]
BY DEF max_by, FoldLeft, MapThenFoldSet, Choosing

\* Iterator::max_by gives one of the greatest of its list, and the last of
\* these, however long the list is (selector.rs:257).
THEOREM MaxByIsLastGreatest ==
  ASSUME NEW registry, NEW verified, NEW C, \A c \in C : IsCandidate(registry, c),
         NEW list \in Seq(C), list # << >>
  PROVE  \E i \in 1..Len(list) :
           /\ max_by(registry, verified, list) = list[i]
           /\ IsLastGreatest(CandidateOrder(registry, verified, C), list, Len(list), i)
<1> DEFINE order == CandidateOrder(registry, verified, C)
           s == Tail(list)
           n == Len(s)
           f == [p \in C \X C |-> IF order[p] > 0 THEN p[1] ELSE p[2]]
           Compare(a, b) == CompareCandidates(registry, verified, a, b)
<1>1. IsComparison(order, C) /\ \A a, b \in C : order[<<a, b>>] = Compare(a, b)
  BY CandidatesCompare, Zenon DEF CandidateOrder
<1>2. /\ s \in Seq(C) /\ n \in Nat /\ DOMAIN s = 1..n /\ Len(list) = n + 1
      /\ Head(list) = list[1] /\ Head(list) \in C
      /\ \A i \in 1..n : s[i] \in C /\ s[i] = list[i + 1]
  OBVIOUS
<1>3. f \in [C \X C -> C] /\ \A a, b \in C : f[<<a, b>>] = IF Compare(a, b) > 0 THEN a ELSE b
  <2>1. f \in [C \X C -> C]
    OBVIOUS
  <2>2. QED
    BY <1>1, <2>1
<1> HIDE DEF f, order, Compare, s, n
<1>4. PICK it \in [SUBSET (1..n) -> C] : RunsOver(it, f, Head(list), s, n)
  <2>1. Reaches(C, f, Head(list), s, n)
    BY <1>2, <1>3, RunExists, Zenon DEF n
  <2>2. QED
    BY <2>1 DEF Reaches
<1>5. Choosing(registry, verified, list, it)
  <2>1. ASSUME NEW T \in SUBSET (1..n)
        PROVE  it[T] = IF T = {} THEN Head(list)
                       ELSE IF Compare(it[T \ {Max(T)}], s[Max(T)]) > 0
                            THEN it[T \ {Max(T)}] ELSE s[Max(T)]
    <3>1. it[T] = IF T = {} THEN Head(list) ELSE f[<<it[T \ {Max(T)}], s[Max(T)]>>]
      BY <1>4, Zenon DEF RunsOver
    <3>2. CASE T # {}
      <4>1. Max(T) \in 1..n /\ T \ {Max(T)} \in SUBSET (1..n)
        BY <1>2, <3>2, GreatestNumber, Zenon
      <4>2. it[T \ {Max(T)}] \in C /\ s[Max(T)] \in C
        BY <1>2, <1>4, <4>1
      <4>3. QED
        BY <1>3, <3>1, <3>2, <4>2
    <3>3. QED
      BY <3>1, <3>2
  <2>2. it = [T \in SUBSET (1..n) |-> IF T = {} THEN Head(list)
                       ELSE IF Compare(it[T \ {Max(T)}], s[Max(T)]) > 0
                            THEN it[T \ {Max(T)}] ELSE s[Max(T)]]
    BY <2>1, Zenon
  <2>3. QED
    BY <1>2, <2>2, Zenon DEF Choosing, s, Compare
<1> DEFINE best == CHOOSE g : Choosing(registry, verified, list, g)
<1>6. Choosing(registry, verified, list, best)
  BY <1>5
<1> HIDE DEF best
<1>7. ASSUME NEW T \in SUBSET (1..n)
      PROVE  best[T] = IF T = {} THEN Head(list)
                       ELSE IF Compare(best[T \ {Max(T)}], s[Max(T)]) > 0
                            THEN best[T \ {Max(T)}] ELSE s[Max(T)]
  BY <1>2, <1>6, Zenon DEF Choosing, s, Compare
<1> DEFINE Good(k) == \E i \in 1..(k + 1) :
                        best[1..k] = list[i] /\ IsLastGreatest(order, list, k + 1, i)
           K == {k \in Nat : k <= n /\ ~Good(k)}
<1>8. \A i \in 1..(n + 1) : list[i] \in C
  BY <1>2
<1>9. Good(0)
  <2>1. 1..0 = {} /\ 1..0 \in SUBSET (1..n)
    OBVIOUS
  <2>2. best[1..0] = list[1]
    BY <1>2, <1>7, <2>1, Zenon
  <2>3. order[<<list[1], list[1]>>] <= 0
    <3>1. list[1] \in C
      BY <1>2
    <3>2. order[<<list[1], list[1]>>] \in Signs
          /\ order[<<list[1], list[1]>>] = -order[<<list[1], list[1]>>]
      BY <1>1, <3>1 DEF IsComparison
    <3>3. QED
      BY <3>2 DEF Signs
  <2>4. 0 + 1 = 1 /\ 1..1 = {1}
    OBVIOUS
  <2>5. IsLastGreatest(order, list, 1, 1)
    BY <2>3, <2>4 DEF IsLastGreatest
  <2>6. QED
    BY <2>2, <2>4, <2>5
<1>10. ASSUME NEW k \in Nat, k # 0, k <= n, Good(k - 1)
       PROVE  Good(k)
  <2>1. PICK i \in 1..k : best[1..(k - 1)] = list[i] /\ IsLastGreatest(order, list, k, i)
    BY <1>10
  <2>2. best[1..k] = IF Compare(list[i], list[k + 1]) > 0 THEN list[i] ELSE list[k + 1]
    <3>1. 1..k \in SUBSET (1..n) /\ k \in 1..n /\ s[k] = list[k + 1]
      BY <1>2, <1>10
    <3>2. QED
      BY <1>7, <1>10, <2>1, <3>1, PrefixTop, ZenonT(30)
  <2>3. \A j \in 1..(k + 1) : list[j] \in C /\ (j \in 1..k \/ j = k + 1)
    BY <1>2, <1>8, <1>10
  <2>4. \A a, b \in C : order[<<a, b>>] \in Signs /\ order[<<a, b>>] = -order[<<b, a>>]
    BY <1>1, Zenon DEF IsComparison
  <2>5. i \in 1..(k + 1) /\ k + 1 \in 1..(k + 1) /\ list[i] \in C /\ list[k + 1] \in C
    BY <2>3
  <2>6. CASE Compare(list[i], list[k + 1]) > 0
    <3>1. order[<<list[i], list[k + 1]>>] > 0 /\ order[<<list[k + 1], list[i]>>] <= 0
      BY <1>1, <2>4, <2>5, <2>6 DEF Signs
    <3>2. IsLastGreatest(order, list, k + 1, i)
      BY <2>1, <2>3, <2>5, <3>1, Zenon DEF IsLastGreatest
    <3>3. QED
      BY <2>2, <2>5, <2>6, <3>2
  <2>7. CASE ~(Compare(list[i], list[k + 1]) > 0)
    <3>1. order[<<list[i], list[k + 1]>>] <= 0
      <4>1. ~(order[<<list[i], list[k + 1]>>] > 0)
        BY <1>1, <2>5, <2>7
      <4>2. order[<<list[i], list[k + 1]>>] \in Signs
        BY <2>4, <2>5, Zenon
      <4>3. QED
        BY <4>1, <4>2 DEF Signs
    <3>2. \A j \in 1..k : order[<<list[j], list[k + 1]>>] <= 0
      <4>1. SUFFICES ASSUME NEW j \in 1..k PROVE order[<<list[j], list[k + 1]>>] <= 0
        OBVIOUS
      <4>2. order[<<list[j], list[i]>>] <= 0 /\ list[j] \in C
        BY <2>1, <2>3 DEF IsLastGreatest
      <4>3. QED
        BY <1>1, <2>5, <3>1, <4>2 DEF IsComparison
    <3>3. order[<<list[k + 1], list[k + 1]>>] <= 0
      BY <2>4, <2>5 DEF Signs
    <3>4. \A j \in 1..(k + 1) : ~(k + 1 < j)
      OBVIOUS
    <3>5. IsLastGreatest(order, list, k + 1, k + 1)
      BY <2>3, <2>5, <3>2, <3>3, <3>4, Zenon DEF IsLastGreatest
    <3>6. QED
      BY <2>2, <2>5, <2>7, <3>5
  <2>8. QED
    BY <2>6, <2>7
<1>11. K = {}
  <2>1. SUFFICES ASSUME K # {} PROVE FALSE
    OBVIOUS
  <2>2. K \in SUBSET Nat /\ \A k \in K : k \in Nat /\ k <= n /\ ~Good(k)
    OBVIOUS
  <2>3. \A k \in Nat : k <= n /\ ~Good(k) => k \in K
    OBVIOUS
  <2> HIDE DEF K, Good
  <2>4. PICK k \in K : \A j \in K : k <= j
    BY <2>1, <2>2, SmallestNumber
  <2>5. k # 0
    BY <1>9, <2>2
  <2>6. k - 1 \in Nat /\ k - 1 <= n /\ ~(k <= k - 1)
    BY <1>2, <2>2, <2>5
  <2>7. Good(k - 1)
    BY <2>3, <2>4, <2>6
  <2>8. QED
    BY <1>10, <2>2, <2>5, <2>7
<1>12. Good(n)
  BY <1>2, <1>11
<1>13. PICK i \in 1..(n + 1) : best[1..n] = list[i] /\ IsLastGreatest(order, list, n + 1, i)
  BY <1>12
<1>14. max_by(registry, verified, list) = best[1..n]
  BY <1>2, MaxByIs DEF best, s
<1>15. QED
  BY <1>2, <1>13, <1>14 DEF order

-----------------------------------------------------------------------------
(***************************************************************************)
(* Lists: what filter, flattening and reversing leave of the members of a  *)
(* list, by going up its prefixes.                                         *)
(***************************************************************************)
\* What holds of 0, and of each number up to n after the one before, holds of
\* all of them.
LEMMA UpTo ==
  ASSUME NEW n \in Nat, NEW G, 0 \in G, \A k \in 1..n : k - 1 \in G => k \in G
  PROVE  \A k \in 0..n : k \in G
<1> DEFINE K == {k \in Nat : k <= n /\ k \notin G}
<1>1. SUFFICES ASSUME K # {} PROVE FALSE
  BY DEF K
<1>2. K \in SUBSET Nat
  BY DEF K
<1> HIDE DEF K
<1>3. PICK k \in K : \A j \in K : k <= j
  BY <1>1, <1>2, SmallestNumber
<1>4. k \in 1..n /\ k \notin G
  BY <1>3 DEF K
<1>5. k - 1 \notin K
  BY <1>3, <1>4
<1>6. k - 1 \in G
  BY <1>4, <1>5 DEF K
<1>7. QED
  BY <1>4, <1>6

LEMMA StepsAre ==
  ASSUME NEW A, NEW E, NEW s \in Seq(E), NEW f \in [A \X E -> A], NEW base \in A,
         NEW it, RunsWithin(it, A, f, base, s),
         NEW g, g = [k \in 0..Len(s) |-> it[1..k]]
  PROVE  Steps(A, f, base, s, g)
<1> DEFINE n == Len(s)
           G == {k \in 0..n : g[k] \in A}
<1>1. n \in Nat /\ DOMAIN s = 1..n /\ \A i \in 1..n : s[i] \in E
  OBVIOUS
<1>2. g[0] = base
  <2>1. 1..0 = {} /\ 1..0 \in SUBSET (1..n) /\ 0 \in 0..n
    BY <1>1
  <2>2. QED
    BY <2>1 DEF RunsWithin
<1>3. ASSUME NEW k \in 1..n, g[k - 1] \in A PROVE g[k] = f[<<g[k - 1], s[k]>>]
  <2>1. k \in Nat /\ k # 0 /\ k \in 0..n /\ k - 1 \in 0..n
    BY <1>1
  <2>2. \A j \in 1..k : j \in 1..n
    BY <1>1
  <2>3. 1..k \in SUBSET (1..n) /\ 1..k # {}
    <3>1. k \in 1..k
      BY <2>1
    <3>2. QED
      BY <2>2, <3>1
  <2>4. Max(1..k) = k /\ (1..k) \ {k} = 1..(k - 1)
    BY <2>1, PrefixTop
  <2>5. g[k - 1] = it[1..(k - 1)] /\ g[k] = it[1..k]
    BY <2>1
  <2> HIDE DEF G, n
  <2>6. it[1..(k - 1)] \in A => it[1..k] = f[<<it[1..(k - 1)], s[k]>>]
    BY <2>3, <2>4 DEF RunsWithin, n
  <2>7. QED
    BY <1>3, <2>5, <2>6
<1>4. DOMAIN g = 0..n /\ g = [k \in 0..n |-> g[k]]
  OBVIOUS
<1>5. 0 \in G
  BY <1>1, <1>2
<1>6. ASSUME NEW k \in 1..n, k - 1 \in G PROVE k \in G
  <2>1. g[k - 1] \in A /\ s[k] \in E /\ k \in 0..n
    BY <1>1, <1>6
  <2>2. g[k] \in A
    BY <1>3, <2>1
  <2>3. QED
    BY <2>1, <2>2
<1>7. \A k \in 0..n : k \in G
  <2> HIDE DEF G
  <2>1. \A k \in 1..n : k - 1 \in G => k \in G
    BY <1>6
  <2>2. QED
    BY <1>1, <1>5, <2>1, UpTo
<1>8. \A k \in 0..n : g[k] \in A
  BY <1>7
<1>9. g \in [0..n -> A]
  BY <1>4, <1>8
<1>10. ASSUME NEW k \in 1..n PROVE g[k] = f[<<g[k - 1], s[k]>>]
  <2>1. k - 1 \in 0..n
    BY <1>1
  <2>2. QED
    BY <1>3, <1>8, <2>1
<1>11. QED
  BY <1>2, <1>9, <1>10 DEF Steps

LEMMA FilteringIs ==
  ASSUME NEW list, NEW set
  PROVE  filter(list, set) = (CHOOSE h : Filtering(list, set, h))[DOMAIN list]
BY DEF filter, FoldLeft, MapThenFoldSet, Filtering

LEMMA FilterRuns ==
  ASSUME NEW S, NEW list \in Seq(S), NEW set
  PROVE  Filters(S, list, set)
<1> DEFINE n == Len(list)
           A == Seq(S)
           base == << >>
           f == [p \in A \X S |-> IF p[2] \in set THEN Append(p[1], p[2]) ELSE p[1]]
<1>1. n \in Nat /\ DOMAIN list = 1..n /\ \A i \in 1..n : list[i] \in S
  OBVIOUS
<1>2. base \in A
  OBVIOUS
<1>3. f \in [A \X S -> A]
      /\ \A t \in A, x \in S : f[<<t, x>>] = IF x \in set THEN Append(t, x) ELSE t
  OBVIOUS
<1> HIDE DEF A, f, base
<1>4. PICK it \in [SUBSET (1..n) -> A] : RunsOver(it, f, base, list, n)
  <2>1. Reaches(A, f, base, list, n)
    BY <1>2, <1>3, RunExists
  <2> HIDE DEF n
  <2>2. QED
    BY <2>1 DEF Reaches
<1> HIDE DEF n
<1>5. Filtering(list, set, it)
  <2>1. ASSUME NEW T \in SUBSET (1..n)
        PROVE  it[T] = IF T = {} THEN base
                       ELSE IF list[Max(T)] \in set THEN Append(it[T \ {Max(T)}], list[Max(T)])
                            ELSE it[T \ {Max(T)}]
    <3>1. it[T] = IF T = {} THEN base ELSE f[<<it[T \ {Max(T)}], list[Max(T)]>>]
      BY <1>4 DEF RunsOver
    <3>2. CASE T # {}
      <4>1. Max(T) \in 1..n /\ T \ {Max(T)} \in SUBSET (1..n)
        BY <1>1, <3>2, GreatestNumber
      <4>2. it[T \ {Max(T)}] \in A /\ list[Max(T)] \in S
        BY <1>1, <1>4, <4>1
      <4>3. QED
        BY <1>3, <3>1, <3>2, <4>2
    <3>3. QED
      BY <3>1, <3>2
  <2>2. it = [T \in SUBSET (1..n) |->
                IF T = {} THEN base
                ELSE IF list[Max(T)] \in set THEN Append(it[T \ {Max(T)}], list[Max(T)])
                            ELSE it[T \ {Max(T)}]]
    BY <2>1
  <2>3. QED
    BY <1>1, <2>2 DEF Filtering, base
<1> DEFINE made == CHOOSE h : Filtering(list, set, h)
<1>6. Filtering(list, set, made)
  BY <1>5
<1> HIDE DEF made
<1>7. RunsWithin(made, A, f, base, list)
  <2>1. ASSUME NEW T \in SUBSET (1..n), T # {}, made[T \ {Max(T)}] \in A
        PROVE  made[T] = f[<<made[T \ {Max(T)}], list[Max(T)]>>]
    <3>1. list[Max(T)] \in S
      BY <1>1, <2>1, GreatestNumber
    <3>2. made[T] = IF list[Max(T)] \in set THEN Append(made[T \ {Max(T)}], list[Max(T)])
                            ELSE made[T \ {Max(T)}]
      BY <1>1, <1>6, <2>1 DEF Filtering
    <3>3. QED
      BY <1>3, <2>1, <3>1, <3>2
  <2>2. made[{}] = base
    BY <1>6 DEF Filtering, base
  <2>3. QED
    BY <2>1, <2>2 DEF RunsWithin, n
<1> DEFINE g == [k \in 0..n |-> made[1..k]]
<1>8. g = [k \in 0..Len(list) |-> made[1..k]] /\ g[n] = made[1..n]
  BY <1>1 DEF n
<1> HIDE DEF g
<1>9. Steps(A, f, base, list, g)
  BY <1>2, <1>3, <1>7, <1>8, StepsAre
<1>10. filter(list, set) = g[n]
  BY <1>1, <1>8, FilteringIs DEF made
<1>11. ASSUME NEW k \in 1..n
       PROVE  g[k] = IF list[k] \in set THEN Append(g[k - 1], list[k]) ELSE g[k - 1]
  <2>1. k - 1 \in 0..n /\ list[k] \in S
    BY <1>1
  <2>2. QED
    BY <1>3, <1>9, <2>1 DEF Steps, n
<1>12. FilterSteps(S, list, set, g)
  BY <1>9, <1>10, <1>11 DEF FilterSteps, Steps, A, base, n
<1>13. QED
  BY <1>12 DEF Filters

LEMMA AppendIs ==
  ASSUME NEW S, NEW t \in Seq(S), NEW x \in S
  PROVE  /\ Append(t, x) \in Seq(S) /\ Range(Append(t, x)) = Range(t) \union {x}
         /\ Len(Append(t, x)) = Len(t) + 1 /\ Append(t, x)[Len(t) + 1] = x
         /\ \A i \in 1..Len(t) : Append(t, x)[i] = t[i]
<1>1. /\ Len(t) \in Nat /\ Len(Append(t, x)) = Len(t) + 1
      /\ DOMAIN t = 1..Len(t) /\ DOMAIN Append(t, x) = 1..(Len(t) + 1)
      /\ \A i \in 1..Len(t) : Append(t, x)[i] = t[i]
      /\ Append(t, x)[Len(t) + 1] = x
  OBVIOUS
<1>2. \A i : i \in 1..(Len(t) + 1) <=> i \in 1..Len(t) \/ i = Len(t) + 1
  BY <1>1
<1>3. Range(Append(t, x)) = Range(t) \union {x}
  BY <1>1, <1>2 DEF Range
<1>4. Append(t, x) \in Seq(S)
  OBVIOUS
<1>5. QED
  BY <1>1, <1>3, <1>4

\* A list filtered has the members of the list that are in the set.
LEMMA FilterIs ==
  ASSUME NEW S, NEW list \in Seq(S), NEW set
  PROVE  filter(list, set) \in Seq(S) /\ Range(filter(list, set)) = Range(list) \cap set
<1> DEFINE n == Len(list)
<1>1. n \in Nat /\ DOMAIN list = 1..n /\ \A i \in 1..n : list[i] \in S
  OBVIOUS
<1>2. PICK g : FilterSteps(S, list, set, g)
  BY FilterRuns, Zenon DEF Filters
<1> DEFINE G == {k \in 0..n : Range(g[k]) = {list[i] : i \in 1..k} \cap set}
<1>3. 0 \in G
  <2>1. g[0] = << >> /\ Range(<< >>) = {}
    BY <1>2 DEF FilterSteps, Range
  <2>2. {list[i] : i \in 1..0} = {}
    OBVIOUS
  <2>3. QED
    BY <1>1, <2>1, <2>2
<1>4. ASSUME NEW k \in 1..n, k - 1 \in G PROVE k \in G
  <2> DEFINE t == g[k - 1]  x == list[k]
  <2>1. k \in 0..n /\ k - 1 \in 0..n /\ x \in S
    BY <1>1
  <2>2. t \in Seq(S) /\ Range(t) = {list[i] : i \in 1..(k - 1)} \cap set
        /\ g[k] = IF x \in set THEN Append(t, x) ELSE t
    BY <1>2, <1>4, <2>1, Zenon DEF FilterSteps
  <2>3. {list[i] : i \in 1..k} = {list[i] : i \in 1..(k - 1)} \union {x}
    <3>1. \A i : i \in 1..k <=> i \in 1..(k - 1) \/ i = k
      BY <1>1
    <3>2. QED
      BY <3>1
  <2> HIDE DEF t, x
  <2>4. Range(Append(t, x)) = Range(t) \union {x}
    BY <2>1, <2>2, AppendIs
  <2>5. Range(g[k]) = {list[i] : i \in 1..k} \cap set
    <3>1. CASE x \in set
      BY <2>2, <2>3, <2>4, <3>1, Zenon
    <3>2. CASE x \notin set
      BY <2>2, <2>3, <3>2, Zenon
    <3>3. QED
      BY <3>1, <3>2
  <2>6. QED
    BY <2>1, <2>5
<1>5. n \in G
  <2> HIDE DEF G
  <2>1. \A k \in 1..n : k - 1 \in G => k \in G
    BY <1>4
  <2>2. \A k \in 0..n : k \in G
    BY <1>1, <1>3, <2>1, UpTo, Zenon
  <2>3. QED
    BY <1>1, <2>2
<1>6. Range(list) = {list[i] : i \in 1..n}
  BY <1>1 DEF Range
<1>7. filter(list, set) = g[n] /\ g[n] \in Seq(S)
  BY <1>1, <1>2 DEF FilterSteps
<1>8. QED
  BY <1>5, <1>6, <1>7

LEMMA FilterKeepsOrder ==
  ASSUME NEW S, NEW list \in Seq(S), NEW set, NEW pos \in [S -> Int], Ascends(list, pos)
  PROVE  Ascends(filter(list, set), pos)
<1> DEFINE n == Len(list)
<1>1. n \in Nat /\ DOMAIN list = 1..n /\ \A i \in 1..n : list[i] \in S
  OBVIOUS
<1>2. PICK g : FilterSteps(S, list, set, g)
  BY FilterRuns, Zenon DEF Filters
<1> DEFINE Good(k) == /\ Ascends(g[k], pos)
                      /\ \A i \in 1..Len(g[k]) : \E j \in 1..k : g[k][i] = list[j]
           G == {k \in 0..n : Good(k)}
<1>3. 0 \in G
  <2>1. g[0] = << >> /\ Len(<< >>) = 0 /\ 1..0 = {}
    BY <1>2 DEF FilterSteps
  <2>2. QED
    BY <1>1, <2>1 DEF Ascends
<1>4. ASSUME NEW k \in 1..n, k - 1 \in G PROVE k \in G
  <2> DEFINE t == g[k - 1]  x == list[k]
  <2>1. k \in 0..n /\ k - 1 \in 0..n /\ x \in S /\ k \in Nat
    BY <1>1
  <2>2. t \in Seq(S) /\ g[k] = IF x \in set THEN Append(t, x) ELSE t
    BY <1>2, <2>1, Zenon DEF FilterSteps
  <2>3. Ascends(t, pos) /\ \A i \in 1..Len(t) : \E j \in 1..(k - 1) : t[i] = list[j]
    BY <1>4, Zenon
  <2>4. \A i \in 1..Len(t) : pos[t[i]] < pos[x]
    <3>1. \A j \in 1..(k - 1) : j \in 1..n /\ k \in 1..n /\ j < k
      BY <1>1
    <3>2. \A j \in 1..(k - 1) : pos[list[j]] < pos[list[k]]
      BY <3>1 DEF Ascends
    <3>3. QED
      BY <2>3, <3>2, Zenon
  <2>5. \A i \in 1..(k - 1) : i \in 1..k
    BY <1>1
  <2> HIDE DEF t
  <2>6. Good(k)
    <3>1. CASE x \in set
      <4> DEFINE u == Append(t, x)
      <4>1. Len(t) \in Nat /\ Len(u) = Len(t) + 1 /\ u[Len(t) + 1] = x
            /\ \A i \in 1..Len(t) : u[i] = t[i]
        BY <2>1, <2>2, AppendIs
      <4>2. g[k] = u
        BY <2>2, <3>1
      <4> HIDE DEF u
      <4>3. \A i \in 1..Len(u) : i \in 1..Len(t) \/ i = Len(t) + 1
        BY <4>1
      <4>4. Ascends(u, pos)
        <5>1. SUFFICES ASSUME NEW i \in 1..Len(u), NEW j \in 1..Len(u), i < j
                       PROVE  pos[u[i]] < pos[u[j]]
          BY DEF Ascends
        <5>2. i \in 1..Len(t) /\ u[i] = t[i]
          BY <4>1, <4>3, <5>1
        <5>3. CASE j \in 1..Len(t)
          BY <2>3, <4>1, <5>1, <5>2, <5>3, Zenon DEF Ascends
        <5>4. CASE j = Len(t) + 1
          BY <2>4, <4>1, <5>2, <5>4
        <5>5. QED
          BY <4>3, <5>3, <5>4
      <4>5. \A i \in 1..Len(u) : \E j \in 1..k : u[i] = list[j]
        <5>1. k \in 1..k
          BY <2>1, <1>1
        <5>2. QED
          BY <2>3, <2>5, <4>1, <4>3, <5>1, Zenon
      <4>6. QED
        BY <4>2, <4>4, <4>5
    <3>2. CASE x \notin set
      <4>1. g[k] = t
        BY <2>2, <3>2
      <4>2. QED
        BY <2>3, <2>5, <4>1
    <3>3. QED
      BY <3>1, <3>2, Zenon
  <2> HIDE DEF Good
  <2>7. QED
    BY <2>1, <2>6
<1>5. n \in G
  <2> HIDE DEF G
  <2>1. \A k \in 1..n : k - 1 \in G => k \in G
    BY <1>4
  <2>2. \A k \in 0..n : k \in G
    BY <1>1, <1>3, <2>1, UpTo, Zenon
  <2>3. QED
    BY <1>1, <2>2
<1>6. filter(list, set) = g[n]
  BY <1>2 DEF FilterSteps
<1>7. QED
  BY <1>5, <1>6

LEMMA FlatteningIs ==
  ASSUME NEW seqs, Len(seqs) # 0
  PROVE  FlattenSeq(seqs) = (CHOOSE g : Flattening(seqs, g))[Len(seqs)]
BY DEF FlattenSeq, Flattening

LEMMA JoinedRange ==
  ASSUME NEW S, NEW s \in Seq(S), NEW t \in Seq(S)
  PROVE  s \o t \in Seq(S) /\ Range(s \o t) = Range(s) \union Range(t)
<1>1. /\ Len(s) \in Nat /\ Len(t) \in Nat /\ Len(s \o t) = Len(s) + Len(t)
      /\ DOMAIN s = 1..Len(s) /\ DOMAIN t = 1..Len(t) /\ DOMAIN (s \o t) = 1..(Len(s) + Len(t))
      /\ \A i \in 1..Len(s) : (s \o t)[i] = s[i]
      /\ \A i \in 1..Len(t) : (s \o t)[Len(s) + i] = t[i]
  <2>1. s \o t \in Seq(S) /\ Len(s \o t) = Len(s) + Len(t)
    OBVIOUS
  <2>2. DOMAIN s = 1..Len(s) /\ DOMAIN t = 1..Len(t) /\ Len(s) \in Nat /\ Len(t) \in Nat
    OBVIOUS
  <2>3. DOMAIN (s \o t) = 1..(Len(s) + Len(t))
    BY <2>1
  <2>4. ASSUME NEW i \in 1..Len(s) PROVE (s \o t)[i] = s[i]
    BY <2>2
  <2>5. ASSUME NEW i \in 1..Len(t) PROVE (s \o t)[Len(s) + i] = t[i]
    BY <2>2
  <2>6. QED
    BY <2>1, <2>2, <2>3, <2>4, <2>5
<1>2. \A i \in 1..(Len(s) + Len(t)) :
        i \in 1..Len(s) \/ (i - Len(s) \in 1..Len(t) /\ i = Len(s) + (i - Len(s)))
  BY <1>1
<1>3. \A i \in 1..Len(t) : Len(s) + i \in 1..(Len(s) + Len(t))
  BY <1>1
<1>4. \A i \in 1..Len(s) : i \in 1..(Len(s) + Len(t))
  BY <1>1
<1>5. Range(s \o t) \subseteq Range(s) \union Range(t)
  BY <1>1, <1>2 DEF Range
<1>6. Range(s) \subseteq Range(s \o t) /\ Range(t) \subseteq Range(s \o t)
  BY <1>1, <1>3, <1>4, Zenon DEF Range
<1>7. QED
  BY <1>5, <1>6

\* A list of lists flattened has the members of them all.
LEMMA FlattenIs ==
  ASSUME NEW S, NEW seqs \in Seq(Seq(S))
  PROVE  /\ FlattenSeq(seqs) \in Seq(S)
         /\ Range(FlattenSeq(seqs)) = UNION {Range(seqs[i]) : i \in DOMAIN seqs}
<1> DEFINE n == Len(seqs)
           f == [p \in Seq(S) \X Seq(S) |-> p[1] \o p[2]]
<1>1. n \in Nat /\ DOMAIN seqs = 1..n /\ \A i \in 1..n : seqs[i] \in Seq(S)
  OBVIOUS
<1>2. CASE n = 0
  <2>1. seqs = << >>
    BY <1>2
  <2>2. FlattenSeq(seqs) = << >>
    BY <1>2, <2>1 DEF FlattenSeq
  <2>3. << >> \in Seq(S) /\ Range(<< >>) = {}
    BY DEF Range
  <2>4. DOMAIN seqs = {}
    BY <1>1, <1>2
  <2>5. QED
    BY <2>2, <2>3, <2>4
<1>3. CASE n # 0
  <2>1. f \in [Seq(S) \X Seq(S) -> Seq(S)] /\ << >> \in Seq(S)
        /\ \A t, u \in Seq(S) : f[<<t, u>>] = t \o u
    <3>1. \A t, u \in Seq(S) : t \o u \in Seq(S)
      BY JoinedRange
    <3>2. \A p \in Seq(S) \X Seq(S) : p[1] \o p[2] \in Seq(S)
      BY <3>1
    <3>3. f \in [Seq(S) \X Seq(S) -> Seq(S)] /\ << >> \in Seq(S)
      BY <3>2
    <3>4. QED
      BY <3>3, Zenon
  <2> HIDE DEF n, f
  <2>2. PICK it \in [SUBSET (1..n) -> Seq(S)] : RunsOver(it, f, << >>, seqs, n)
    <3>1. Reaches(Seq(S), f, << >>, seqs, n)
      BY <1>1, <2>1, RunExists, Zenon DEF n
    <3>2. QED
      BY <3>1 DEF Reaches
  <2> DEFINE h == [i \in 1..n |-> it[1..i]]
  <2>3. ASSUME NEW i \in 1..n
        PROVE  h[i] = IF i = 1 THEN seqs[i] ELSE h[i - 1] \o seqs[i]
    <3>1. i \in Nat /\ i # 0
      BY <1>1
    <3>2. \A j \in 1..i : j \in 1..n
      BY <1>1
    <3>3. 1..i \in SUBSET (1..n) /\ 1..(i - 1) \in SUBSET (1..n)
      BY <3>2
    <3>4. it[1..i] = f[<<it[1..(i - 1)], seqs[i]>>]
      BY <2>2, <3>1, <3>3, PrefixTop, Zenon DEF RunsOver
    <3>5. it[1..i] = it[1..(i - 1)] \o seqs[i]
      BY <1>1, <2>1, <2>2, <3>3, <3>4, Zenon
    <3>6. CASE i = 1
      <4>1. 1..(i - 1) = {}
        BY <3>6
      <4>2. it[1..(i - 1)] = << >>
        BY <2>2, <3>3, <4>1, Zenon DEF RunsOver
      <4>3. << >> \o seqs[i] = seqs[i]
        <5>1. seqs[i] \in Seq(S)
          BY <1>1
        <5>2. QED
          BY <5>1
      <4>4. QED
        BY <3>5, <3>6, <4>2, <4>3
    <3>7. CASE i # 1
      <4>1. i - 1 \in 1..n
        BY <1>1, <3>7
      <4>2. QED
        BY <3>5, <3>7, <4>1, Zenon
    <3>8. QED
      BY <3>6, <3>7
  <2>4. h = [i \in 1..n |-> IF i = 1 THEN seqs[i] ELSE h[i - 1] \o seqs[i]]
    <3>1. h = [i \in 1..n |-> h[i]]
      OBVIOUS
    <3> HIDE DEF h
    <3>2. QED
      BY <2>3, <3>1, Zenon
  <2> HIDE DEF h
  <2>5. Flattening(seqs, h)
    BY <2>4, Zenon DEF Flattening, n
  <2> DEFINE flat == CHOOSE g : Flattening(seqs, g)
  <2>6. Flattening(seqs, flat)
    BY <2>5
  <2> HIDE DEF flat
  <2>7. \A i \in 1..n : flat[i] = IF i = 1 THEN seqs[i] ELSE flat[i - 1] \o seqs[i]
    BY <2>6, Zenon DEF Flattening, n
  <2> DEFINE Good(k) == /\ flat[k] \in Seq(S)
                        /\ Range(flat[k]) = UNION {Range(seqs[i]) : i \in 1..k}
             G == {k \in 0..n : k = 0 \/ Good(k)}
  <2>8. 0 \in G
    BY <1>1
  <2>9. ASSUME NEW k \in 1..n, k - 1 \in G PROVE k \in G
    <3>1. seqs[k] \in Seq(S) /\ flat[k] = IF k = 1 THEN seqs[k] ELSE flat[k - 1] \o seqs[k]
      BY <1>1, <2>7, Zenon
    <3>2. CASE k = 1
      <4>1. 1..k = {k}
        BY <3>2
      <4>2. UNION {Range(seqs[i]) : i \in 1..k} = Range(seqs[k])
        BY <4>1
      <4>3. Good(k)
        BY <3>1, <3>2, <4>2
      <4> HIDE DEF Good
      <4>4. QED
        BY <1>1, <4>3
    <3>3. CASE k # 1
      <4>1. Good(k - 1)
        BY <1>1, <2>9, <3>3
      <4>2. flat[k] \in Seq(S) /\ Range(flat[k]) = Range(flat[k - 1]) \union Range(seqs[k])
        BY <3>1, <3>3, <4>1, JoinedRange
      <4>3. \A i : i \in 1..k <=> i \in 1..(k - 1) \/ i = k
        BY <1>1
      <4> DEFINE before == UNION {Range(seqs[i]) : i \in 1..(k - 1)}
                 upto   == UNION {Range(seqs[i]) : i \in 1..k}
      <4>4. upto = before \union Range(seqs[k])
        <5>1. \A x : x \in upto <=> \E i \in 1..k : x \in Range(seqs[i])
          OBVIOUS
        <5>2. \A x : x \in before <=> \E i \in 1..(k - 1) : x \in Range(seqs[i])
          OBVIOUS
        <5> HIDE DEF upto, before
        <5>3. \A x : x \in upto <=> x \in before \/ x \in Range(seqs[k])
          BY <4>3, <5>1, <5>2
        <5>4. QED
          BY <5>3
      <4>5. Good(k)
        <5>1. Range(flat[k - 1]) = before
          BY <4>1
        <5>2. Range(flat[k]) = upto
          <6> HIDE DEF upto, before
          <6>1. QED
            BY <4>2, <4>4, <5>1
        <5>3. QED
          BY <4>2, <5>2
      <4> HIDE DEF Good
      <4>6. QED
        BY <1>1, <4>5
    <3>4. QED
      BY <3>2, <3>3
  <2>10. n \in G
    <3> HIDE DEF G
    <3>1. \A k \in 1..n : k - 1 \in G => k \in G
      BY <2>9
    <3>2. \A k \in 0..n : k \in G
      BY <1>1, <2>8, <3>1, UpTo, Zenon
    <3>3. QED
      BY <1>1, <3>2
  <2>11. FlattenSeq(seqs) = flat[n]
    BY <1>3, FlatteningIs DEF flat, n
  <2>12. QED
    BY <1>1, <1>3, <2>10, <2>11
<1>4. QED
  BY <1>2, <1>3

\* A list of some values is one of its own members.
LEMMA ListIsOfItsRange ==
  ASSUME NEW S, NEW list \in Seq(S)
  PROVE  /\ list \in Seq(Range(list)) /\ Range(list) \subseteq S
         /\ (list = << >> <=> Range(list) = {})
<1>1. Len(list) \in Nat /\ DOMAIN list = 1..Len(list) /\ \A i \in 1..Len(list) : list[i] \in S
  OBVIOUS
<1>2. Range(list) \subseteq S
  BY <1>1 DEF Range
<1>3. list \in Seq(Range(list))
  <2>1. \A i \in 1..Len(list) : list[i] \in Range(list)
    BY <1>1 DEF Range
  <2> DEFINE R == Range(list)
  <2>2. list \in [1..Len(list) -> R]
    BY <1>1, <2>1
  <2> HIDE DEF R
  <2>3. list \in Seq(R)
    BY <1>1, <2>2
  <2>4. QED
    BY <2>3 DEF R
<1>4. list = << >> <=> Range(list) = {}
  <2>1. list = << >> => Range(list) = {}
    BY DEF Range
  <2>2. ASSUME list # << >> PROVE Range(list) # {}
    <3>1. 1 \in 1..Len(list)
      BY <2>2
    <3>2. list[1] \in Range(list)
      BY <1>1, <3>1 DEF Range
    <3>3. QED
      BY <3>2
  <2>3. QED
    BY <2>1, <2>2
<1>5. QED
  BY <1>2, <1>3, <1>4

\* A list turned round has the same members.
LEMMA ReverseIs ==
  ASSUME NEW S, NEW list \in Seq(S)
  PROVE  Reverse(list) \in Seq(S) /\ Range(Reverse(list)) = Range(list)
<1> DEFINE n == Len(list)
<1>1. n \in Nat /\ DOMAIN list = 1..n /\ \A i \in 1..n : list[i] \in S
  OBVIOUS
<1>2. Reverse(list) = [i \in 1..n |-> list[(n - i) + 1]]
  BY DEF Reverse
<1> HIDE DEF n
<1>3. \A i \in 1..n : (n - i) + 1 \in 1..n /\ i = (n - ((n - i) + 1)) + 1
  BY <1>1
<1>4. Reverse(list) \in [1..n -> S]
  BY <1>1, <1>2, <1>3
<1>5. Reverse(list) \in Seq(S)
  BY <1>1, <1>4
<1>6. Range(Reverse(list)) \subseteq Range(list)
  BY <1>1, <1>2, <1>3 DEF Range
<1>7. ASSUME NEW x \in Range(list) PROVE x \in Range(Reverse(list))
  <2>1. PICK i \in 1..n : x = list[i]
    BY <1>1 DEF Range
  <2> DEFINE j == (n - i) + 1
  <2>2. j \in 1..n /\ i = (n - j) + 1
    BY <1>3
  <2> HIDE DEF j
  <2>3. Reverse(list)[j] = x /\ DOMAIN Reverse(list) = 1..n
    BY <1>2, <2>1, <2>2
  <2>4. QED
    BY <2>2, <2>3 DEF Range
<1>8. QED
  BY <1>5, <1>6, <1>7, Zenon

LEMMA JoinedIs ==
  ASSUME NEW S, NEW s \in Seq(S), NEW t \in Seq(S)
  PROVE  Joined(S, s, t, s \o t)
<1>1. s \o t \in Seq(S) /\ Len(s \o t) = Len(s) + Len(t)
  OBVIOUS
<1>2. DOMAIN s = 1..Len(s) /\ DOMAIN t = 1..Len(t) /\ Len(s) \in Nat /\ Len(t) \in Nat
  OBVIOUS
<1>3. ASSUME NEW i \in 1..Len(s) PROVE (s \o t)[i] = s[i]
  BY <1>2
<1>4. ASSUME NEW i \in 1..Len(t) PROVE (s \o t)[Len(s) + i] = t[i]
  BY <1>2
<1>5. QED
  BY <1>1, <1>3, <1>4 DEF Joined

LEMMA PartIs ==
  ASSUME NEW S, NEW s \in Seq(S), NEW m \in 0..Len(s)
  PROVE  /\ SubSeq(s, 1, m) \in Seq(S) /\ Len(SubSeq(s, 1, m)) = m
         /\ \A i \in 1..m : SubSeq(s, 1, m)[i] = s[i]
         /\ SubSeq(s, m + 1, Len(s)) \in Seq(S) /\ Len(SubSeq(s, m + 1, Len(s))) = Len(s) - m
         /\ \A i \in 1..(Len(s) - m) : SubSeq(s, m + 1, Len(s))[i] = s[m + i]
<1> DEFINE n == Len(s)
<1>1. n \in Nat /\ m \in Nat /\ m <= n /\ DOMAIN s = 1..n /\ \A i \in 1..n : s[i] \in S
  OBVIOUS
<1>2. SubSeq(s, 1, m) \in Seq(S) /\ Len(SubSeq(s, 1, m)) = m
  BY <1>1
<1>3. \A i \in 1..m : SubSeq(s, 1, m)[i] = s[i]
  BY <1>1
<1>4. SubSeq(s, m + 1, n) \in Seq(S)
  <2> DEFINE k == m + 1
  <2>1. k \in Int /\ \A i \in k..n : i \in 1..n
    BY <1>1
  <2> HIDE DEF k, n
  <2>2. SubSeq(s, k, n) \in Seq(S)
    BY <1>1, <2>1
  <2>3. QED
    BY <2>2 DEF k
<1>5. Len(SubSeq(s, m + 1, n)) = n - m
  <2>1. CASE m = n
    BY <1>1, <2>1
  <2>2. CASE m < n
    <3>1. m + 1 <= n /\ (n - (m + 1)) + 1 = n - m
      BY <1>1, <2>2
    <3> HIDE DEF n
    <3>2. QED
      BY <1>1, <3>1
  <2>3. m = n \/ m < n
    <3> HIDE DEF n
    <3>1. QED
      BY <1>1
  <2>4. QED
    BY <2>1, <2>2, <2>3
<1>6. ASSUME NEW i \in 1..(n - m) PROVE SubSeq(s, m + 1, n)[i] = s[m + i]
  <2>1. i \in 1..(n - (m + 1) + 1) /\ (m + 1) + i - 1 = m + i
    BY <1>1
  <2>2. QED
    BY <1>1, <2>1
<1>7. QED
  BY <1>2, <1>3, <1>4, <1>5, <1>6

\* The place for a member: behind the last one whose key is not greater.
LEMMA PlaceIs ==
  ASSUME NEW S, NEW key \in [S -> Int], NEW t \in Seq(S), NEW x \in S
  PROVE  LET M == {0} \union {i \in DOMAIN t : key[t[i]] <= key[x]}
             m == Max(M)
         IN  /\ Place(t, key, x) = m + 1
             /\ m \in M /\ m \in 0..Len(t) /\ \A j \in M : j <= m
             /\ Place(t, key, x) \in 1..(Len(t) + 1)
<1> DEFINE n == Len(t)
           M == {0} \union {i \in DOMAIN t : key[t[i]] <= key[x]}
           m == Max(M)
<1>1. n \in Nat /\ DOMAIN t = 1..n /\ \A i \in 1..n : t[i] \in S
  OBVIOUS
<1>2. m \in M /\ \A j \in M : j <= m
  <2>1. M \in SUBSET (0..n) /\ M # {} /\ 0 \in M
    BY <1>1
  <2> HIDE DEF M
  <2>2. CASE M = {0}
    BY <2>2 DEF Max
  <2>3. CASE M # {0}
    <3>1. M \ {0} # {} /\ M \ {0} \in SUBSET (1..n)
      BY <1>1, <2>1, <2>3
    <3> DEFINE T == M \ {0}
    <3>2. Max(T) \in T /\ \A j \in T : j <= Max(T)
      <4> HIDE DEF T
      <4>1. T # {} /\ T \in SUBSET (1..n)
        BY <3>1 DEF T
      <4>2. QED
        BY <1>1, <4>1, GreatestNumber, Zenon
    <3> DEFINE top == Max(T)
    <3>3. top \in M /\ \A j \in M : top >= j
      <4> HIDE DEF top
      <4>1. top \in T /\ \A j \in T : j <= top
        BY <3>2, Zenon DEF top
      <4>2. top \in 1..n
        BY <3>1, <4>1
      <4>3. QED
        BY <1>1, <2>1, <4>1, <4>2
    <3> HIDE DEF top
    <3>4. QED
      BY <1>1, <2>1, <3>3, Zenon DEF Max
  <2>4. QED
    BY <2>2, <2>3
<1>3. m \in 0..n
  BY <1>1, <1>2
<1>4. Place(t, key, x) = m + 1
  BY DEF Place
<1> HIDE DEF m, M
<1>5. m + 1 \in 1..(n + 1)
  BY <1>1, <1>3
<1>6. QED
  BY <1>2, <1>3, <1>4, <1>5 DEF m, M

\* It comes to its place.
LEMMA PlacedIs ==
  ASSUME NEW S, NEW key \in [S -> Int], NEW pos \in [S -> Int],
         NEW t \in Seq(S), Ranked(t, key, pos),
         NEW x \in S, Follows(x, t, pos)
  PROVE  Placed(S, t, key, pos, x, InsertAt(t, Place(t, key, x), x))
<1> DEFINE n == Len(t)
           M == {0} \union {i \in DOMAIN t : key[t[i]] <= key[x]}
           m == Max(M)
           u == InsertAt(t, Place(t, key, x), x)
<1>1. n \in Nat /\ DOMAIN t = 1..n /\ \A i \in 1..n : t[i] \in S
  OBVIOUS
<1>2. m \in M /\ \A j \in M : j <= m
  BY PlaceIs, Zenon
<1>3. m \in 0..n
  BY <1>1, <1>2
<1>4. u = SubSeq(t, 1, m) \o <<x>> \o SubSeq(t, m + 1, n)
  <2> HIDE DEF m
  <2>1. Place(t, key, x) = m + 1
    BY DEF Place, m
  <2>2. (m + 1) - 1 = m
    BY <1>3
  <2>3. QED
    BY <2>1, <2>2, Zenon DEF InsertAt
<1>5. \A i \in 1..n : i <= m => key[t[i]] <= key[x]
  <2> SUFFICES ASSUME NEW i \in 1..n, i <= m PROVE key[t[i]] <= key[x]
    OBVIOUS
  <2>1. m \in 1..n /\ key[t[m]] <= key[x]
    BY <1>1, <1>2, <1>3
  <2>2. t[i] \in S /\ t[m] \in S /\ (i = m \/ i < m)
    BY <1>1, <1>3, <2>1
  <2> HIDE DEF m
  <2>3. key[t[i]] <= key[t[m]]
    BY <2>1, <2>2 DEF Ranked
  <2>4. QED
    BY <2>1, <2>2, <2>3
<1>6. \A i \in 1..n : i > m => key[x] < key[t[i]]
  <2> SUFFICES ASSUME NEW i \in 1..n, i > m PROVE key[x] < key[t[i]]
    OBVIOUS
  <2>1. i \notin M
    <3>1. ~(i <= m)
      BY <1>3
    <3> HIDE DEF M, m
    <3>2. QED
      BY <1>2, <3>1
  <2>2. t[i] \in S /\ ~(key[t[i]] <= key[x])
    BY <1>1, <2>1
  <2>3. QED
    BY <2>2
<1> HIDE DEF m, M, u, n
<1>7. /\ u \in Seq(S) /\ Len(u) = n + 1
      /\ \A i \in 1..m : u[i] = t[i]
      /\ u[m + 1] = x
      /\ \A i \in (m + 1)..n : u[i + 1] = t[i]
  <2> DEFINE a == SubSeq(t, 1, m)
             b == SubSeq(t, m + 1, n)
  <2>1. a \in Seq(S) /\ Len(a) = m /\ \A i \in 1..m : a[i] = t[i]
    BY <1>3, PartIs DEF n
  <2>2. b \in Seq(S) /\ Len(b) = n - m /\ \A i \in 1..(n - m) : b[i] = t[m + i]
    BY <1>3, PartIs DEF n
  <2>3. u = (a \o <<x>>) \o b
    BY <1>4
  <2> HIDE DEF a, b
  <2> DEFINE c == a \o <<x>>
  <2>4. c \in Seq(S) /\ Len(c) = m + 1 /\ c[m + 1] = x /\ \A i \in 1..m : c[i] = t[i]
    <3>1. <<x>> \in Seq(S) /\ Len(<<x>>) = 1 /\ <<x>>[1] = x /\ 1 \in 1..1
      OBVIOUS
    <3>2. Joined(S, a, <<x>>, c)
      BY <2>1, <3>1, JoinedIs, Zenon
    <3> HIDE DEF c
    <3>3. QED
      BY <1>3, <2>1, <3>1, <3>2, Zenon DEF Joined
  <2> HIDE DEF c
  <2>5. u = c \o b
    BY <2>3 DEF c
  <2>6. /\ u \in Seq(S) /\ Len(u) = (m + 1) + (n - m)
        /\ \A i \in 1..(m + 1) : u[i] = c[i]
        /\ \A i \in 1..(n - m) : u[(m + 1) + i] = b[i]
    <3>1. Joined(S, c, b, u)
      BY <2>2, <2>4, <2>5, JoinedIs
    <3>2. Len(c) = m + 1 /\ Len(b) = n - m
      BY <2>2, <2>4
    <3>3. QED
      BY <3>1, <3>2 DEF Joined
  <2>7. \A i \in 1..(m + 1) : u[i] = c[i]
    BY <2>6
  <2>8. \A i \in 1..(n - m) : u[(m + 1) + i] = b[i]
    BY <2>6
  <2>9. \A i \in 1..m : u[i] = t[i]
    BY <1>3, <2>4, <2>7
  <2>10. u[m + 1] = x
    BY <1>3, <2>4, <2>7
  <2>11. ASSUME NEW i \in (m + 1)..n PROVE u[i + 1] = t[i]
    <3>1. i - m \in 1..(n - m) /\ (m + 1) + (i - m) = i + 1 /\ m + (i - m) = i
      BY <1>1, <1>3
    <3>2. u[(m + 1) + (i - m)] = b[i - m] /\ b[i - m] = t[m + (i - m)]
      BY <2>2, <2>8, <3>1, Zenon
    <3>3. QED
      BY <3>1, <3>2
  <2>12. Len(u) = n + 1
    BY <1>1, <1>3, <2>6
  <2>13. QED
    BY <2>6, <2>9, <2>10, <2>11, <2>12
<1>8. ASSUME NEW i \in 1..(n + 1)
      PROVE  \/ i \in 1..m /\ i \in 1..n /\ u[i] = t[i]
             \/ i = m + 1 /\ u[i] = x
             \/ i - 1 \in (m + 1)..n /\ i - 1 \in 1..n /\ u[i] = t[i - 1]
  <2>1. i \in 1..m \/ i = m + 1 \/ (i - 1 \in (m + 1)..n /\ i = (i - 1) + 1)
    BY <1>1, <1>3
  <2>2. \A j \in 1..m : j \in 1..n
    BY <1>1, <1>3
  <2>3. \A j \in (m + 1)..n : j \in 1..n
    BY <1>1, <1>3
  <2>4. QED
    BY <1>7, <2>1, <2>2, <2>3, Zenon
<1>9. Range(u) = Range(t) \union {x}
  <2>1. DOMAIN u = 1..(n + 1) /\ DOMAIN t = 1..n
    BY <1>1, <1>7
  <2>2. Range(u) \subseteq Range(t) \union {x}
    BY <1>8, <2>1, Zenon DEF Range
  <2>3. x \in Range(u)
    <3>1. m + 1 \in 1..(n + 1)
      BY <1>1, <1>3
    <3>2. QED
      BY <1>7, <2>1, <3>1 DEF Range
  <2>4. ASSUME NEW i \in 1..n PROVE t[i] \in Range(u)
    <3>1. i \in 1..m \/ i \in (m + 1)..n
      BY <1>1, <1>3
    <3>2. i \in 1..(n + 1) /\ i + 1 \in 1..(n + 1)
      BY <1>1
    <3>3. QED
      BY <1>7, <2>1, <3>1, <3>2, Zenon DEF Range
  <2>5. Range(t) \subseteq Range(u)
    BY <2>1, <2>4 DEF Range
  <2>6. QED
    BY <2>2, <2>3, <2>5
<1>10. Ranked(u, key, pos)
  <2>1. SUFFICES ASSUME NEW i \in 1..(n + 1), NEW j \in 1..(n + 1), i < j
                 PROVE  \/ key[u[i]] < key[u[j]]
                        \/ key[u[i]] = key[u[j]] /\ pos[u[i]] < pos[u[j]]
    BY <1>7, Zenon DEF Ranked
  <2>2. \A k, l \in 1..n : k < l =>
          \/ key[t[k]] < key[t[l]]
          \/ key[t[k]] = key[t[l]] /\ pos[t[k]] < pos[t[l]]
    BY DEF Ranked, n
  <2>3. key[x] \in Int /\ \A k \in 1..n : key[t[k]] \in Int /\ pos[t[k]] < pos[x]
    BY <1>1 DEF n, Follows
  <2>4. CASE i \in 1..m /\ i \in 1..n /\ u[i] = t[i]
    <3>1. key[t[i]] <= key[x]
      BY <1>3, <1>5, <2>4
    <3>2. CASE j \in 1..m /\ j \in 1..n /\ u[j] = t[j]
      BY <2>1, <2>2, <2>4, <3>2, Zenon
    <3>3. CASE j = m + 1 /\ u[j] = x
      BY <2>3, <2>4, <3>1, <3>3
    <3>4. CASE j - 1 \in (m + 1)..n /\ j - 1 \in 1..n /\ u[j] = t[j - 1]
      <4>1. j - 1 > m
        BY <1>3, <3>4
      <4>2. key[x] < key[t[j - 1]]
        BY <1>6, <3>4, <4>1
      <4>3. QED
        BY <2>3, <2>4, <3>1, <3>4, <4>2
    <3>5. QED
      BY <1>8, <3>2, <3>3, <3>4
  <2>5. CASE i = m + 1 /\ u[i] = x
    <3>1. j - 1 \in (m + 1)..n /\ j - 1 \in 1..n /\ u[j] = t[j - 1]
      BY <1>3, <1>8, <2>1, <2>5
    <3>2. j - 1 > m
      BY <1>3, <3>1
    <3>3. key[x] < key[t[j - 1]]
      BY <1>6, <3>1, <3>2
    <3>4. QED
      BY <2>5, <3>1, <3>3
  <2>6. CASE i - 1 \in (m + 1)..n /\ i - 1 \in 1..n /\ u[i] = t[i - 1]
    <3>1. i - 1 >= m + 1 /\ i - 1 < j - 1
      BY <1>3, <2>1, <2>6
    <3>2. j \notin 1..m /\ j # m + 1
      BY <1>3, <2>1, <3>1
    <3>3. j - 1 \in 1..n /\ u[j] = t[j - 1]
      BY <1>8, <3>2
    <3>4. \/ key[t[i - 1]] < key[t[j - 1]]
          \/ key[t[i - 1]] = key[t[j - 1]] /\ pos[t[i - 1]] < pos[t[j - 1]]
      BY <2>2, <2>6, <3>1, <3>3, Zenon
    <3>5. QED
      BY <2>6, <3>3, <3>4, Zenon
  <2>7. QED
    BY <1>8, <2>4, <2>5, <2>6
<1>11. QED
  BY <1>7, <1>9, <1>10 DEF u, Placed

LEMMA SortingIs ==
  ASSUME NEW list, NEW key
  PROVE  sort_by_key(list, key) = (CHOOSE h : Sorting(list, key, h))[DOMAIN list]
BY DEF sort_by_key, FoldLeft, MapThenFoldSet, Sorting

LEMMA InsertedIs ==
  ASSUME NEW S, NEW t \in Seq(S), NEW key \in [S -> Int], NEW x \in S
  PROVE  InsertAt(t, Place(t, key, x), x) \in Seq(S)
<1> DEFINE i == Place(t, key, x)
<1>1. i \in 1..(Len(t) + 1)
  BY PlaceIs, Zenon
<1> HIDE DEF i
<1>2. SubSeq(t, 1, i - 1) \in Seq(S) /\ SubSeq(t, i, Len(t)) \in Seq(S)
  <2> DEFINE m == i - 1
  <2>1. m \in 0..Len(t) /\ m + 1 = i
    BY <1>1
  <2> HIDE DEF m
  <2>2. SubSeq(t, 1, m) \in Seq(S) /\ SubSeq(t, m + 1, Len(t)) \in Seq(S)
    BY <2>1, PartIs
  <2>3. QED
    BY <2>1, <2>2 DEF m
<1>3. <<x>> \in Seq(S)
  OBVIOUS
<1> DEFINE a == SubSeq(t, 1, i - 1)  b == SubSeq(t, i, Len(t))  c == a \o <<x>>
<1>4. InsertAt(t, i, x) = c \o b
  BY DEF InsertAt
<1> HIDE DEF a, b
<1>5. c \in Seq(S)
  BY <1>2, <1>3 DEF a
<1> HIDE DEF c
<1>6. c \o b \in Seq(S)
  BY <1>2, <1>5 DEF b
<1>7. QED
  BY <1>4, <1>6 DEF i

LEMMA SortRuns ==
  ASSUME NEW S, NEW list \in Seq(S), NEW key \in [S -> Int]
  PROVE  Sorts(S, list, key)
<1> DEFINE n == Len(list)
           A == Seq(S)
           base == << >>
           f == [p \in A \X S |-> InsertAt(p[1], Place(p[1], key, p[2]), p[2])]
<1>1. n \in Nat /\ DOMAIN list = 1..n /\ \A i \in 1..n : list[i] \in S
  OBVIOUS
<1>2. base \in A
  OBVIOUS
<1>3. f \in [A \X S -> A] /\ \A t \in A, x \in S : f[<<t, x>>] = InsertAt(t, Place(t, key, x), x)
  <2>1. \A t \in A, x \in S : InsertAt(t, Place(t, key, x), x) \in A
    BY InsertedIs
  <2>2. QED
    BY <2>1
<1> HIDE DEF A, f, base
<1>4. PICK it \in [SUBSET (1..n) -> A] : RunsOver(it, f, base, list, n)
  <2>1. Reaches(A, f, base, list, n)
    BY <1>2, <1>3, RunExists
  <2> HIDE DEF n
  <2>2. QED
    BY <2>1 DEF Reaches
<1> HIDE DEF n
<1>5. Sorting(list, key, it)
  <2>1. ASSUME NEW T \in SUBSET (1..n)
        PROVE  it[T] = IF T = {} THEN base
                       ELSE InsertAt(it[T \ {Max(T)}], Place(it[T \ {Max(T)}], key, list[Max(T)]),
                                     list[Max(T)])
    <3>1. it[T] = IF T = {} THEN base ELSE f[<<it[T \ {Max(T)}], list[Max(T)]>>]
      BY <1>4 DEF RunsOver
    <3>2. CASE T # {}
      <4>1. Max(T) \in 1..n /\ T \ {Max(T)} \in SUBSET (1..n)
        BY <1>1, <3>2, GreatestNumber
      <4>2. it[T \ {Max(T)}] \in A /\ list[Max(T)] \in S
        BY <1>1, <1>4, <4>1
      <4>3. QED
        BY <1>3, <3>1, <3>2, <4>2
    <3>3. QED
      BY <3>1, <3>2
  <2>2. it = [T \in SUBSET (1..n) |->
                IF T = {} THEN base
                ELSE InsertAt(it[T \ {Max(T)}], Place(it[T \ {Max(T)}], key, list[Max(T)]),
                                     list[Max(T)])]
    BY <2>1
  <2>3. QED
    BY <1>1, <2>2 DEF Sorting, base
<1> DEFINE made == CHOOSE h : Sorting(list, key, h)
<1>6. Sorting(list, key, made)
  BY <1>5
<1> HIDE DEF made
<1>7. RunsWithin(made, A, f, base, list)
  <2>1. ASSUME NEW T \in SUBSET (1..n), T # {}, made[T \ {Max(T)}] \in A
        PROVE  made[T] = f[<<made[T \ {Max(T)}], list[Max(T)]>>]
    <3>1. list[Max(T)] \in S
      BY <1>1, <2>1, GreatestNumber
    <3>2. made[T] = InsertAt(made[T \ {Max(T)}], Place(made[T \ {Max(T)}], key, list[Max(T)]),
                                     list[Max(T)])
      BY <1>1, <1>6, <2>1 DEF Sorting
    <3>3. QED
      BY <1>3, <2>1, <3>1, <3>2
  <2>2. made[{}] = base
    BY <1>6 DEF Sorting, base
  <2>3. QED
    BY <2>1, <2>2 DEF RunsWithin, n
<1> DEFINE g == [k \in 0..n |-> made[1..k]]
<1>8. g = [k \in 0..Len(list) |-> made[1..k]] /\ g[n] = made[1..n]
  BY <1>1 DEF n
<1> HIDE DEF g
<1>9. Steps(A, f, base, list, g)
  BY <1>2, <1>3, <1>7, <1>8, StepsAre
<1>10. sort_by_key(list, key) = g[n]
  BY <1>1, <1>8, SortingIs DEF made
<1>11. ASSUME NEW k \in 1..n
       PROVE  g[k] = InsertAt(g[k - 1], Place(g[k - 1], key, list[k]), list[k])
  <2>1. k - 1 \in 0..n /\ list[k] \in S
    BY <1>1
  <2>2. QED
    BY <1>3, <1>9, <2>1 DEF Steps, n
<1>12. SortSteps(S, list, key, g)
  BY <1>9, <1>10, <1>11 DEF SortSteps, Steps, A, base, n
<1>13. QED
  BY <1>12 DEF Sorts

\* A list whose members stand by their positions, sorted: the same members, in
\* the order of the keys, and those with one key by their positions still.
LEMMA SortIs ==
  ASSUME NEW S, NEW list \in Seq(S), NEW key \in [S -> Int], NEW pos \in [S -> Int],
         Ascends(list, pos)
  PROVE  /\ sort_by_key(list, key) \in Seq(S)
         /\ Range(sort_by_key(list, key)) = Range(list)
         /\ Ranked(sort_by_key(list, key), key, pos)
<1> DEFINE n == Len(list)
<1>1. n \in Nat /\ DOMAIN list = 1..n /\ \A i \in 1..n : list[i] \in S
  OBVIOUS
<1>2. PICK g : SortSteps(S, list, key, g)
  BY SortRuns DEF Sorts
<1> DEFINE Good(k) == Range(g[k]) = {list[i] : i \in 1..k} /\ Ranked(g[k], key, pos)
           G == {k \in 0..n : Good(k)}
<1>3. 0 \in G
  <2>1. g[0] = << >> /\ Range(<< >>) = {}
    BY <1>2 DEF SortSteps, Range
  <2>2. {list[i] : i \in 1..0} = {} /\ Len(<< >>) = 0 /\ 1..0 = {}
    OBVIOUS
  <2>3. Ranked(<< >>, key, pos)
    BY <2>2 DEF Ranked
  <2>4. QED
    BY <1>1, <2>1, <2>2, <2>3
<1>4. ASSUME NEW k \in 1..n, k - 1 \in G PROVE k \in G
  <2> DEFINE t == g[k - 1]  x == list[k]  u == InsertAt(t, Place(t, key, x), x)
  <2>1. k \in 0..n /\ k - 1 \in 0..n /\ x \in S
    BY <1>1
  <2>2. t \in Seq(S) /\ g[k] = u
    BY <1>2, <2>1, Zenon DEF SortSteps
  <2>3. Range(t) = {list[i] : i \in 1..(k - 1)} /\ Ranked(t, key, pos)
    BY <1>4
  <2>4. Follows(x, t, pos)
    <3>1. \A j \in 1..(k - 1) : j \in 1..n /\ k \in 1..n /\ j < k
      BY <1>1
    <3>2. \A j \in 1..(k - 1) : pos[list[j]] < pos[list[k]]
      BY <3>1 DEF Ascends
    <3> HIDE DEF t, x
    <3>3. \A i \in 1..Len(t) : t[i] \in Range(t)
      BY <2>2 DEF Range
    <3>4. QED
      BY <2>3, <3>2, <3>3, Zenon DEF x, Follows
  <2>5. {list[i] : i \in 1..k} = {list[i] : i \in 1..(k - 1)} \union {x}
    <3>1. \A i : i \in 1..k <=> i \in 1..(k - 1) \/ i = k
      BY <1>1
    <3>2. QED
      BY <3>1
  <2> HIDE DEF t, x
  <2>6. Placed(S, t, key, pos, x, u)
    BY <2>1, <2>2, <2>3, <2>4, PlacedIs, Zenon
  <2> HIDE DEF u
  <2>7. Good(k)
    BY <2>2, <2>3, <2>5, <2>6, Zenon DEF Placed
  <2>8. QED
    BY <2>1, <2>7
<1>5. n \in G
  <2> HIDE DEF G
  <2>1. \A k \in 1..n : k - 1 \in G => k \in G
    BY <1>4
  <2>2. \A k \in 0..n : k \in G
    BY <1>1, <1>3, <2>1, UpTo, Zenon
  <2>3. QED
    BY <1>1, <2>2
<1>6. Range(list) = {list[i] : i \in 1..n}
  BY <1>1 DEF Range
<1>7. sort_by_key(list, key) = g[n] /\ g[n] \in Seq(S)
  BY <1>1, <1>2 DEF SortSteps
<1>8. QED
  BY <1>5, <1>6, <1>7

LEMMA PlacesAre ==
  ASSUME NEW S, NEW list \in Seq(S), Once(list)
  PROVE  /\ list \in Seq(Range(list)) /\ Places(list) \in [Range(list) -> Int]
         /\ Ascends(list, Places(list))
         /\ \A i \in 1..Len(list) : Places(list)[list[i]] = i
<1>1. Len(list) \in Nat /\ DOMAIN list = 1..Len(list)
  OBVIOUS
<1>2. \A i \in 1..Len(list) : list[i] \in Range(list)
  BY <1>1 DEF Range
<1>3. \A i \in 1..Len(list) : Places(list)[list[i]] = i
  <2>1. ASSUME NEW i \in 1..Len(list)
        PROVE  (CHOOSE k \in DOMAIN list : list[k] = list[i]) = i
    <3> DEFINE k == CHOOSE k \in DOMAIN list : list[k] = list[i]
    <3>1. k \in DOMAIN list /\ list[k] = list[i]
      BY <1>1
    <3> HIDE DEF k
    <3>2. k = i
      BY <1>1, <3>1 DEF Once
    <3>3. QED
      BY <3>2 DEF k
  <2>2. QED
    BY <1>2, <2>1 DEF Places
<1>4. ASSUME NEW d \in Range(list) PROVE Places(list)[d] \in Int
  <2>1. PICK i \in 1..Len(list) : list[i] = d
    BY <1>1 DEF Range
  <2>2. QED
    BY <1>1, <1>3, <2>1
<1>5. Places(list) \in [Range(list) -> Int]
  BY <1>4 DEF Places
<1>6. Ascends(list, Places(list))
  BY <1>1, <1>3 DEF Ascends
<1>7. list \in Seq(Range(list))
  BY ListIsOfItsRange
<1>8. QED
  BY <1>3, <1>5, <1>6, <1>7

-----------------------------------------------------------------------------
(***************************************************************************)
(* The choice of a package.  The candidates depend on the drivers and the  *)
(* packages as sets; those that qualify are trusted, so that of the        *)
(* criteria the other five tell them apart; and what is at least as good   *)
(* as every other is left over by each criterion in turn.                  *)
(***************************************************************************)
LEMMA TrustedAreCompared ==
  ASSUME NEW registry, NEW verified, NEW a, NEW b,
         IsCandidate(registry, a), IsCandidate(registry, b), a.trusted, b.trusted,
         CompareCandidates(registry, verified, a, b) >= 0
  PROVE  Prefers(registry, verified, a, b)
<1> DEFINE m == manifest_trust_score(verified, a.source)
           n == manifest_trust_score(verified, b.source)
           p == source_priority(registry, a.source)
           q == source_priority(registry, b.source)
           v == DriverVersionCmp(a.package.version, b.package.version)
           t == CompareText(a.driver.name, b.driver.name)
<1>1. m \in Int /\ n \in Int
  BY DEF manifest_trust_score
<1>2. p \in Int /\ q \in Int /\ a.score \in Int /\ b.score \in Int
  BY DEF IsCandidate
<1>3. Sign(Bit(a.trusted) - Bit(b.trusted)) = 0
  BY DEF Sign, Bit
<1>4. CompareCandidates(registry, verified, a, b)
        = IF Sign(m - n) # 0 THEN Sign(m - n)
          ELSE IF Sign(a.score - b.score) # 0 THEN Sign(a.score - b.score)
          ELSE IF Sign(q - p) # 0 THEN Sign(q - p)
          ELSE IF v # 0 THEN v ELSE IF t # 0 THEN t ELSE 0
  <2> DEFINE f1 == Sign(Bit(a.trusted) - Bit(b.trusted))
             f2 == Sign(m - n)
             f3 == Sign(a.score - b.score)
             f4 == Sign(q - p)
  <2>1. CompareCandidates(registry, verified, a, b) = Decide(<<f1, f2, f3, f4, v, t>>)
    BY DEF CompareCandidates
  <2> HIDE DEF f1, f2, f3, f4, m, n, p, q, v, t
  <2>2. f1 = 0
    BY <1>3, Zenon DEF f1
  <2>3. CompareCandidates(registry, verified, a, b)
          = IF f1 # 0 THEN f1 ELSE IF f2 # 0 THEN f2 ELSE IF f3 # 0 THEN f3
            ELSE IF f4 # 0 THEN f4 ELSE IF v # 0 THEN v ELSE IF t # 0 THEN t ELSE 0
    BY <2>1, DecideIs
  <2>4. QED
    BY <2>2, <2>3 DEF f2, f3, f4
<1> DEFINE s == a.score  r == b.score
<1> HIDE DEF m, n, p, q, v, t, s, r
<1>5. \A x \in Int : (Sign(x) >= 0 <=> x >= 0) /\ (Sign(x) = 0 <=> x = 0)
  BY DEF Sign
<1>6. /\ Sign(m - n) >= 0 <=> m >= n
      /\ Sign(m - n) = 0 <=> m = n
      /\ Sign(s - r) >= 0 <=> s >= r
      /\ Sign(s - r) = 0 <=> s = r
      /\ Sign(q - p) >= 0 <=> q >= p
      /\ Sign(q - p) = 0 <=> p = q
  BY <1>1, <1>2, <1>5 DEF s, r
<1>7. QED
  BY <1>4, <1>6 DEF Prefers, m, n, p, q, v, t, s, r

LEMMA DriverVersionsAreSigned ==
  ASSUME NEW v, NEW w, IsDriverVersion(v), IsDriverVersion(w)
  PROVE  DriverVersionCmp(v, w) \in Int
<1> DEFINE V == {v, w}
           h == [p \in V \X V |-> DriverVersionCmp(p[1], p[2])]
<1>1. v \in V /\ w \in V /\ \A x \in V : IsDriverVersion(x)
  OBVIOUS
<1> HIDE DEF V
<1>2. IsComparison(h, V)
  BY <1>1, DriverVersionsCompare
<1>3. h[<<v, w>>] \in Int
  BY <1>1, <1>2 DEF IsComparison, Signs
<1>4. QED
  BY <1>1, <1>3

\* What is at least as good as every other is left over by every criterion.
LEMMA PreferredIs ==
  ASSUME NEW registry, NEW verified, NEW Q, NEW c \in Q,
         \A x \in Q : IsCandidate(registry, x),
         \A x \in Q : Prefers(registry, verified, c, x)
  PROVE  c \in Preferred(registry, verified, Q)
<1> DEFINE m(x) == manifest_trust_score(verified, x.source)
           p(x) == source_priority(registry, x.source)
           manifest == {x \in Q : \A y \in Q : m(x) >= m(y)}
           score    == {x \in manifest : \A y \in manifest : x.score >= y.score}
           priority == {x \in score : \A y \in score : -p(x) >= -p(y)}
           version  == {x \in priority : \A y \in priority :
                          DriverVersionCmp(x.package.version, y.package.version) >= 0}
           name     == {x \in version : \A y \in version :
                          CompareText(x.driver.name, y.driver.name) >= 0}
<1>1. Preferred(registry, verified, Q) = name
  BY DEF Preferred, Best
<1>2. \A x \in Q : m(x) \in Int /\ p(x) \in Int /\ x.score \in Int
  BY DEF manifest_trust_score, IsCandidate
<1>3. \A x \in Q :
        /\ m(c) >= m(x)
        /\ m(c) = m(x) => c.score >= x.score
        /\ m(c) = m(x) /\ c.score = x.score => p(x) >= p(c)
        /\ m(c) = m(x) /\ c.score = x.score /\ p(c) = p(x)
             => DriverVersionCmp(c.package.version, x.package.version) >= 0
        /\ m(c) = m(x) /\ c.score = x.score /\ p(c) = p(x)
             /\ DriverVersionCmp(c.package.version, x.package.version) = 0
             => CompareText(c.driver.name, x.driver.name) >= 0
  BY DEF Prefers
<1> HIDE DEF m, p
<1>4. c \in manifest
  BY <1>3
<1>5. \A x \in manifest : x \in Q /\ m(c) = m(x)
  BY <1>2, <1>3
<1>6. c \in score
  BY <1>3, <1>4, <1>5
<1>7. \A x \in score : x \in manifest /\ c.score = x.score
  BY <1>2, <1>4, <1>5, <1>6
<1>8. c \in priority
  <2>1. \A x \in score : p(x) >= p(c)
    BY <1>3, <1>5, <1>7
  <2>2. \A x \in score : -p(c) >= -p(x)
    BY <1>2, <1>5, <1>7, <2>1
  <2>3. QED
    BY <1>6, <2>2
<1>9. \A x \in priority : x \in score /\ p(c) = p(x)
  <2>1. ASSUME NEW x \in priority PROVE p(c) = p(x)
    <3>1. x \in Q /\ p(x) >= p(c) /\ -p(x) >= -p(c)
      BY <1>3, <1>5, <1>6, <1>7
    <3>2. QED
      BY <1>2, <3>1
  <2>2. QED
    BY <2>1
<1>10. c \in version
  BY <1>3, <1>5, <1>7, <1>8, <1>9
<1>11. \A x \in version : x \in Q
         /\ DriverVersionCmp(c.package.version, x.package.version) = 0
  <2>1. ASSUME NEW x \in version
        PROVE  x \in Q /\ DriverVersionCmp(c.package.version, x.package.version) = 0
    <3>1. x \in priority /\ x \in Q
      BY <1>5, <1>7, <1>9
    <3>2. DriverVersionCmp(c.package.version, x.package.version) >= 0
          /\ DriverVersionCmp(x.package.version, c.package.version) >= 0
      BY <1>8, <1>10, <3>1
    <3>3. IsOrder(DriverVersionCmp, c.package.version, x.package.version, x.package.version)
      BY <3>1, DriverVersionsHaveAnOrder DEF IsCandidate
    <3>4. DriverVersionCmp(c.package.version, x.package.version)
            = -DriverVersionCmp(x.package.version, c.package.version)
      BY <3>3 DEF IsOrder
    <3>5. DriverVersionCmp(x.package.version, c.package.version) \in Int
      BY <3>1, DriverVersionsAreSigned DEF IsCandidate
    <3>6. QED
      BY <3>1, <3>2, <3>4, <3>5
  <2>2. QED
    BY <2>1
<1>12. \A x \in version : CompareText(c.driver.name, x.driver.name) >= 0
  BY <1>3, <1>5, <1>7, <1>9, <1>11
<1>13. QED
  BY <1>1, <1>10, <1>12

\* Of trusted candidates max_by gives one that the criteria, applied one after
\* the other, leave over (selector.rs:247).
THEOREM MaxByIsPreferred ==
  ASSUME NEW registry, NEW verified, NEW C, \A c \in C : IsCandidate(registry, c) /\ c.trusted,
         NEW list \in Seq(C), list # << >>
  PROVE  /\ max_by(registry, verified, list) \in Range(list)
         /\ max_by(registry, verified, list) \in Preferred(registry, verified, Range(list))
<1> DEFINE order == CandidateOrder(registry, verified, C)
<1>1. IsComparison(order, C)
      /\ \A a, b \in C : order[<<a, b>>] = CompareCandidates(registry, verified, a, b)
  BY CandidatesCompare, Zenon DEF CandidateOrder
<1>2. PICK i \in 1..Len(list) :
        /\ max_by(registry, verified, list) = list[i]
        /\ IsLastGreatest(order, list, Len(list), i)
  BY MaxByIsLastGreatest
<1> HIDE DEF order
<1>3. DOMAIN list = 1..Len(list) /\ \A j \in 1..Len(list) : list[j] \in C
  OBVIOUS
<1>4. ASSUME NEW x \in Range(list) PROVE Prefers(registry, verified, list[i], x)
  <2>1. PICK j \in 1..Len(list) : x = list[j]
    BY <1>3 DEF Range
  <2>2. list[i] \in C /\ x \in C
    BY <1>3, <2>1
  <2>3. order[<<x, list[i]>>] <= 0
    BY <1>2, <2>1 DEF IsLastGreatest
  <2>4. order[<<list[i], x>>] = -order[<<x, list[i]>>] /\ order[<<x, list[i]>>] \in Signs
    BY <1>1, <2>2 DEF IsComparison
  <2>5. CompareCandidates(registry, verified, list[i], x) >= 0
    BY <1>1, <2>2, <2>3, <2>4 DEF Signs
  <2>6. QED
    BY <2>2, <2>5, TrustedAreCompared
<1>5. list[i] \in Range(list) /\ \A x \in Range(list) : IsCandidate(registry, x)
  BY <1>3 DEF Range
<1>6. QED
  BY <1>2, <1>4, <1>5, PreferredIs

LEMMA OfDriverIs ==
  ASSUME NEW system, NEW registry, NEW device, NEW driver, NEW P, NEW packages \in Seq(P)
  PROVE  LET choices == CandidatesOf(system, registry, device, driver, Range(packages))
             list    == OfDriver(system, registry, device, driver, packages)
         IN  list \in Seq(choices) /\ Range(list) = choices
<1> DEFINE compat  == evaluate_compatibility(system, driver, device)
           list    == Offered(registry, driver, packages)
           offers  == {p \in Range(packages) : Offers(registry, driver, p)}
           choices == CandidatesOf(system, registry, device, driver, Range(packages))
           of(p)   == OfPackage(system, registry, driver, compat.score, p)
           none    == Candidate(driver, None, None, 0, FALSE, TRUE)
           nothing == Candidate(driver, None, None, compat.score, FALSE, TRUE)
<1>1. list \in Seq(P) /\ Range(list) = offers
  <2>1. list = filter(packages, offers)
    BY DEF Offered
  <2>2. Range(packages) \cap offers = offers
    OBVIOUS
  <2> HIDE DEF offers, list
  <2>3. QED
    BY <2>1, <2>2, FilterIs, Zenon
<1>2. choices = IF ~compat.compatible THEN {none} ELSE IF offers = {} THEN {nothing}
                ELSE {of(p) : p \in offers}
  BY DEF CandidatesOf
<1>3. OfDriver(system, registry, device, driver, packages)
        = IF ~compat.compatible THEN <<none>> ELSE IF list = << >> THEN <<nothing>>
          ELSE [i \in DOMAIN list |-> of(list[i])]
  BY DEF OfDriver
<1>4. \A x : <<x>> \in Seq({x}) /\ Range(<<x>>) = {x}
  BY DEF Range
<1>5. list = << >> <=> offers = {}
  BY <1>1, ListIsOfItsRange
<1>6. LET mapped == [i \in DOMAIN list |-> of(list[i])]
      IN  mapped \in Seq({of(p) : p \in offers}) /\ Range(mapped) = {of(p) : p \in offers}
  <2> HIDE DEF of, list, offers
  <2> DEFINE mapped == [i \in DOMAIN list |-> of(list[i])]
             set    == {of(p) : p \in offers}
  <2>1. Len(list) \in Nat /\ DOMAIN list = 1..Len(list)
    BY <1>1
  <2>2. \A i \in 1..Len(list) : list[i] \in offers
    BY <1>1, <2>1 DEF Range
  <2>3. mapped \in [1..Len(list) -> set]
    BY <2>1, <2>2
  <2>4. DOMAIN mapped = 1..Len(list) /\ \A i \in 1..Len(list) : mapped[i] = of(list[i])
    BY <2>1
  <2>5. ASSUME NEW x \in set PROVE x \in Range(mapped)
    <3>1. PICK p \in offers : x = of(p)
      OBVIOUS
    <3>2. PICK i \in 1..Len(list) : p = list[i]
      BY <1>1, <2>1 DEF Range
    <3> HIDE DEF mapped
    <3>3. QED
      BY <2>4, <3>1, <3>2 DEF Range
  <2> HIDE DEF mapped, set
  <2>6. mapped \in Seq(set)
    BY <2>1, <2>3
  <2>7. Range(mapped) \subseteq set
    BY <2>3 DEF Range
  <2>8. Range(mapped) = set /\ mapped \in Seq(set)
    BY <2>5, <2>6, <2>7, Zenon
  <2>9. QED
    BY <2>8 DEF mapped, set
<1> HIDE DEF compat, list, offers, choices, of, none, nothing
<1>7. QED
  BY <1>2, <1>3, <1>4, <1>5, <1>6, Zenon DEF choices

LEMMA CandidatesAre ==
  ASSUME NEW system, NEW registry, NEW device, NEW D, NEW drivers \in Seq(D),
         NEW P, NEW packages \in Seq(P)
  PROVE  LET all  == AllCandidates(system, registry, device, Range(drivers), Range(packages))
             list == Candidates(system, registry, device, drivers, packages)
         IN  list \in Seq(all) /\ Range(list) = all
<1> DEFINE of(d)     == OfDriver(system, registry, device, d, packages)
           choice(d) == CandidatesOf(system, registry, device, d, Range(packages))
           all   == UNION {choice(d) : d \in Range(drivers)}
           lists == [i \in DOMAIN drivers |-> of(drivers[i])]
<1>1. \A d : of(d) \in Seq(choice(d)) /\ Range(of(d)) = choice(d)
  BY OfDriverIs
<1>2. all = AllCandidates(system, registry, device, Range(drivers), Range(packages))
  BY DEF AllCandidates
<1>3. Candidates(system, registry, device, drivers, packages) = FlattenSeq(lists)
  BY DEF Candidates
<1>4. Len(drivers) \in Nat /\ DOMAIN drivers = 1..Len(drivers)
  OBVIOUS
<1> HIDE DEF of, choice
<1>5. \A i \in 1..Len(drivers) : drivers[i] \in Range(drivers) /\ choice(drivers[i]) \subseteq all
  BY <1>4 DEF Range
<1>6. \A A, B : A \subseteq B => Seq(A) \subseteq Seq(B)
  OBVIOUS
<1> DEFINE A == all
<1>7. lists \in Seq(Seq(A))
  <2>1. \A i \in 1..Len(drivers) : of(drivers[i]) \in Seq(A)
    <3> HIDE DEF all
    <3>1. QED
      BY <1>1, <1>5, <1>6 DEF A
  <2> HIDE DEF A
  <2>2. lists \in [1..Len(drivers) -> Seq(A)]
    BY <1>4, <2>1
  <2> HIDE DEF lists
  <2>3. QED
    BY <1>4, <2>2
<1>8. FlattenSeq(lists) \in Seq(A)
      /\ Range(FlattenSeq(lists)) = UNION {Range(lists[i]) : i \in DOMAIN lists}
  <2> HIDE DEF A, lists
  <2>1. QED
    BY <1>7, FlattenIs
<1>9. UNION {Range(lists[i]) : i \in DOMAIN lists} = all
  <2>1. DOMAIN lists = 1..Len(drivers)
        /\ \A i \in 1..Len(drivers) : Range(lists[i]) = choice(drivers[i])
    BY <1>1, <1>4
  <2>2. \A x : x \in all <=> \E d \in Range(drivers) : x \in choice(d)
    OBVIOUS
  <2> HIDE DEF all, lists
  <2>3. \A x : x \in UNION {Range(lists[i]) : i \in DOMAIN lists}
                 <=> \E i \in 1..Len(drivers) : x \in choice(drivers[i])
    BY <2>1
  <2>4. \A x : (\E i \in 1..Len(drivers) : x \in choice(drivers[i]))
                 <=> \E d \in Range(drivers) : x \in choice(d)
    BY <1>4 DEF Range
  <2>5. QED
    BY <2>2, <2>3, <2>4
<1> HIDE DEF all, lists
<1>10. QED
  BY <1>2, <1>3, <1>8, <1>9 DEF A

LEMMA FittingOnesMatch ==
  ASSUME NEW system, NEW driver, NEW device
  PROVE  LET compat == evaluate_compatibility(system, driver, device)
         IN  /\ compat.score \in Int
             /\ compat.compatible => check_modalias_match(driver, device)
<1> DEFINE match == check_modalias_match(driver, device)
           score == Score(system, driver, device)
           compat == evaluate_compatibility(system, driver, device)
<1>1. KernelPoints(system, driver) \in {2, 6} /\ FeaturePoints(system, driver) \in {0, 1, 2}
  BY DEF KernelPoints, FeaturePoints
<1>2. score \in Int /\ (~match => score <= Half)
  BY <1>1 DEF Score, Half
<1>3. compat = Incompatible
        \/ compat = [compatible |-> ReachesHalf(score, match), score |-> score]
  BY DEF evaluate_compatibility
<1>4. Half \in Int
  BY DEF Half
<1> HIDE DEF match, score, compat
<1>5. ReachesHalf(score, match) => match
  BY <1>2, <1>4 DEF ReachesHalf
<1>6. compat.score \in Int /\ (compat.compatible => match)
  BY <1>2, <1>3, <1>5 DEF Incompatible
<1>7. QED
  BY <1>6 DEF match, compat

(***************************************************************************)
(* Whatever system, device and inventory, the list of matches holds each   *)
(* driver that fits once, every one of them matches the device by its      *)
(* modalias, and they are ranked by their scores (matching.rs:186, 284).   *)
(***************************************************************************)
THEOREM MatchesHaveTheirOrder ==
  ASSUME NEW system, NEW device, NEW S, NEW drivers \in Seq(S), Once(drivers)
  PROVE  MatchesAreRanked(system, device, drivers)
<1> DEFINE compat(driver) == evaluate_compatibility(system, driver, device)
           D == Range(drivers)
           P == Places(drivers)
           good == {d \in D : compat(d).compatible}
           fitting == filter(drivers, good)
           matches == [i \in DOMAIN fitting |->
                         [driver |-> fitting[i], score |-> compat(fitting[i]).score]]
           M == Range(matches)
           key == [m \in M |-> -m.score]
           pos == [m \in M |-> P[m.driver]]
           sorted == find_matching_drivers(system, device, drivers)
           fit == {i \in DOMAIN drivers : compat(drivers[i]).compatible}
<1>1. /\ drivers \in Seq(D) /\ P \in [D -> Int] /\ Ascends(drivers, P)
      /\ \A i \in 1..Len(drivers) : P[drivers[i]] = i
  BY PlacesAre
<1>2. DOMAIN drivers = 1..Len(drivers) /\ \A i \in 1..Len(drivers) : drivers[i] \in D
  BY DEF Range
<1>3. sorted = sort_by_key(matches, key)
  BY DEF find_matching_drivers
<1>4. \A d \in D : compat(d).score \in Int
                   /\ (compat(d).compatible => check_modalias_match(d, device))
  BY FittingOnesMatch
<1>5. \A d \in D : P[d] = CHOOSE i \in DOMAIN drivers : drivers[i] = d
  BY DEF Places
<1> HIDE DEF compat, D, P, sorted
<1>6. fitting \in Seq(D) /\ Range(fitting) = D \cap good /\ Ascends(fitting, P)
  <2> HIDE DEF good
  <2>1. fitting \in Seq(D) /\ Range(fitting) = Range(drivers) \cap good
    BY <1>1, FilterIs
  <2>2. Ascends(fitting, P)
    BY <1>1, FilterKeepsOrder
  <2>3. QED
    BY <2>1, <2>2 DEF D
<1> HIDE DEF fitting
<1>7. DOMAIN fitting = 1..Len(fitting) /\ Len(fitting) \in Nat
      /\ \A i \in 1..Len(fitting) : fitting[i] \in D /\ fitting[i] \in Range(fitting)
  BY <1>6 DEF Range
<1>8. /\ Len(matches) = Len(fitting) /\ matches \in Seq(M) /\ DOMAIN matches = 1..Len(fitting)
      /\ \A i \in 1..Len(fitting) : /\ matches[i].driver = fitting[i]
                                    /\ matches[i].score = compat(fitting[i]).score
                                    /\ matches[i] \in M
  <2> DEFINE R == [driver : D, score : Int]
  <2>1. matches \in Seq(R) /\ Len(matches) = Len(fitting) /\ DOMAIN matches = 1..Len(fitting)
    BY <1>4, <1>7
  <2>2. matches \in Seq(Range(matches))
    <3> HIDE DEF R, matches
    <3>1. QED
      BY <2>1, ListIsOfItsRange
  <2>3. \A i \in 1..Len(fitting) : /\ matches[i].driver = fitting[i]
                                   /\ matches[i].score = compat(fitting[i]).score
    BY <1>7
  <2>4. \A i \in 1..Len(fitting) : matches[i] \in M
    <3> HIDE DEF matches
    <3>1. QED
      BY <2>1 DEF M, Range
  <2>5. QED
    BY <2>1, <2>2, <2>3, <2>4
<1> HIDE DEF matches
<1>9. \A m \in M : \E i \in 1..Len(fitting) : m = matches[i]
  BY <1>8 DEF M, Range
<1> HIDE DEF M
<1>10. key \in [M -> Int] /\ pos \in [M -> Int]
  <2>1. \A m \in M : m.score \in Int /\ m.driver \in D
    BY <1>4, <1>7, <1>8, <1>9
  <2>2. QED
    BY <1>1, <2>1
<1>11. \A i \in 1..Len(fitting) : pos[matches[i]] = P[fitting[i]]
  BY <1>8
<1>12. \A m \in M : key[m] = -m.score /\ pos[m] = P[m.driver] /\ m.score \in Int
  BY <1>4, <1>7, <1>8, <1>9
<1> HIDE DEF key, pos
<1>13. Ascends(matches, pos)
  <2>1. \A i, j \in 1..Len(fitting) : i < j => P[fitting[i]] < P[fitting[j]]
    BY <1>6 DEF Ascends
  <2>2. QED
    BY <1>8, <1>11, <2>1 DEF Ascends
<1>14. sorted \in Seq(M) /\ Range(sorted) = M /\ Ranked(sorted, key, pos)
  BY <1>3, <1>8, <1>10, <1>13, SortIs, Zenon DEF M
<1>15. DOMAIN sorted = 1..Len(sorted) /\ \A k \in 1..Len(sorted) : sorted[k] \in M
  BY <1>14
<1>16. \A i \in fit : check_modalias_match(drivers[i], device)
  BY <1>2, <1>4
<1>17. \A m \in M : m.driver \in D
  BY <1>7, <1>8, <1>9
<1>18. {P[sorted[k].driver] : k \in DOMAIN sorted} = fit
  <2>1. ASSUME NEW k \in DOMAIN sorted PROVE P[sorted[k].driver] \in fit
    <3>1. PICK i \in 1..Len(fitting) : sorted[k] = matches[i]
      BY <1>9, <1>15
    <3>2. fitting[i] \in D /\ compat(fitting[i]).compatible /\ sorted[k].driver = fitting[i]
      BY <1>6, <1>7, <1>8, <3>1
    <3>3. PICK j \in 1..Len(drivers) : drivers[j] = fitting[i]
      BY <1>2, <3>2 DEF D, Range
    <3>4. QED
      BY <1>1, <1>2, <3>2, <3>3
  <2>2. ASSUME NEW i \in fit PROVE \E k \in DOMAIN sorted : P[sorted[k].driver] = i
    <3>1. i \in 1..Len(drivers) /\ drivers[i] \in D /\ drivers[i] \in good
      BY <1>2
    <3>2. PICK l \in 1..Len(fitting) : fitting[l] = drivers[i]
      BY <1>6, <1>7, <3>1 DEF Range
    <3>3. PICK k \in DOMAIN sorted : sorted[k] = matches[l]
      BY <1>8, <1>14 DEF Range
    <3>4. QED
      BY <1>1, <1>8, <3>1, <3>2, <3>3
  <2>3. QED
    BY <2>1, <2>2
<1>19. ASSUME NEW k \in DOMAIN sorted, NEW l \in DOMAIN sorted, k < l
       PROVE  \/ sorted[k].score > sorted[l].score
              \/ /\ sorted[k].score = sorted[l].score
                 /\ P[sorted[k].driver] < P[sorted[l].driver]
  <2>1. \/ key[sorted[k]] < key[sorted[l]]
        \/ key[sorted[k]] = key[sorted[l]] /\ pos[sorted[k]] < pos[sorted[l]]
    BY <1>14, <1>15, <1>19 DEF Ranked
  <2>2. sorted[k] \in M /\ sorted[l] \in M
    BY <1>15
  <2>3. QED
    BY <1>12, <2>1, <2>2
<1> DEFINE Position(d) == CHOOSE i \in DOMAIN drivers : drivers[i] = d
<1>20. \A k \in DOMAIN sorted : Position(sorted[k].driver) = P[sorted[k].driver]
  BY <1>5, <1>15, <1>17
<1> HIDE DEF Position
<1>21. {Position(sorted[k].driver) : k \in DOMAIN sorted} = fit
  BY <1>18, <1>20
<1>22. \A k, l \in DOMAIN sorted : k < l =>
         \/ sorted[k].score > sorted[l].score
         \/ /\ sorted[k].score = sorted[l].score
            /\ Position(sorted[k].driver) < Position(sorted[l].driver)
  BY <1>19, <1>20
<1> DEFINE there == {i \in DOMAIN drivers :
                      evaluate_compatibility(system, drivers[i], device).compatible}
<1>23. there = fit
  BY DEF compat
<1> HIDE DEF there, fit
<1>24. /\ \A i \in there : check_modalias_match(drivers[i], device)
       /\ {Position(sorted[k].driver) : k \in DOMAIN sorted} = there
  BY <1>16, <1>21, <1>23
<1>25. QED
  BY <1>22, <1>24, Zenon DEF MatchesAreRanked, Position, there, sorted

LEMMA TheOthersQualify ==
  ASSUME NEW system, NEW registry, NEW device, NEW drivers, NEW packages,
         AreTyped(registry, drivers, packages),
         NEW c \in AllCandidates(system, registry, device, drivers, packages), ~c.rejected
  PROVE  Qualifies(registry, device, c)
<1>1. PICK d \in drivers : c \in CandidatesOf(system, registry, device, d, packages)
  BY DEF AllCandidates
<1> DEFINE compat  == evaluate_compatibility(system, d, device)
           offered == {p \in packages : Offers(registry, d, p)}
<1>2. compat.compatible /\ \E p \in offered : c = OfPackage(system, registry, d, compat.score, p)
  <2>1. CandidatesOf(system, registry, device, d, packages)
          = IF ~compat.compatible THEN {Candidate(d, None, None, 0, FALSE, TRUE)}
            ELSE IF offered = {} THEN {Candidate(d, None, None, compat.score, FALSE, TRUE)}
            ELSE {OfPackage(system, registry, d, compat.score, p) : p \in offered}
    BY DEF CandidatesOf
  <2>2. \A score : c # Candidate(d, None, None, score, FALSE, TRUE)
    BY DEF Candidate
  <2> HIDE DEF compat, offered
  <2>3. QED
    BY <1>1, <2>1, <2>2, Zenon
<1>3. PICK p \in offered : c = OfPackage(system, registry, d, compat.score, p)
  BY <1>2
<1>4. p \in packages /\ is_source_enabled(registry, p.source)
  BY DEF Offers
<1>5. compat.score \in Int /\ check_modalias_match(d, device)
  BY <1>2, FittingOnesMatch
<1>6. source_priority(registry, p.source) \in Int
  BY DEF source_priority, AreTyped
<1> DEFINE trusted == is_source_trusted(registry, p.source, p.key)
           refused == \/ ~is_architecture_compatible(system, p)
                      \/ ~is_kernel_compatible(system, p)
                      \/ ~trusted
<1>7. trusted \in BOOLEAN
  BY DEF is_source_trusted, default_trusted
<1>8. c = [driver |-> d, package |-> p, source |-> p.source, score |-> compat.score,
           trusted |-> trusted, rejected |-> refused]
  BY <1>3 DEF OfPackage, Candidate
<1> HIDE DEF compat, trusted, offered, refused
<1>9. /\ c.driver = d /\ c.package = p /\ c.source = p.source /\ c.score = compat.score
      /\ c.trusted = trusted /\ c.rejected = refused
  BY <1>8
<1>10. trusted
  BY <1>9 DEF refused
<1>11. IsCandidate(registry, c)
  BY <1>1, <1>4, <1>5, <1>6, <1>7, <1>9 DEF IsCandidate, AreTyped
<1>12. QED
  BY <1>4, <1>5, <1>9, <1>10, <1>11 DEF Qualifies

LEMMA BestIsTaken ==
  ASSUME NEW registry, NEW verified, NEW C, NEW list \in Seq(C),
         \A c \in Range(list) : ~c.rejected => IsCandidate(registry, c) /\ c.trusted
  PROVE  Takes(registry, verified, Range(list), select_best_candidate(registry, verified, list))
<1> DEFINE Q == {c \in Range(list) : ~c.rejected}
           qualified == filter(list, Q)
           best == max_by(registry, verified, qualified)
<1>1. qualified \in Seq(C) /\ Range(qualified) = Q
  <2>1. Range(list) \cap Q = Q
    OBVIOUS
  <2> HIDE DEF Q
  <2>2. QED
    BY <2>1, FilterIs, Zenon
<1>2. select_best_candidate(registry, verified, list)
        = IF qualified = << >> THEN << >> ELSE <<best>>
  BY DEF select_best_candidate
<1>3. \A c \in Q : IsCandidate(registry, c) /\ c.trusted
  OBVIOUS
<1> HIDE DEF qualified
<1>4. /\ qualified \in Seq(Q) /\ Range(qualified) = Q
      /\ qualified = << >> <=> Q = {}
  <2> HIDE DEF Q
  <2>1. QED
    BY <1>1, ListIsOfItsRange
<1>5. qualified # << >> => best \in Q /\ best \in Preferred(registry, verified, Q)
  <2> HIDE DEF Q
  <2>1. ASSUME qualified # << >>
        PROVE  /\ best \in Range(qualified)
               /\ best \in Preferred(registry, verified, Range(qualified))
    BY <1>3, <1>4, <2>1, MaxByIsPreferred
  <2>2. QED
    BY <1>4, <2>1
<1> HIDE DEF best
<1>6. <<best>>[1] = best /\ <<best>> # << >>
  OBVIOUS
<1>7. QED
  <2> DEFINE taken == select_best_candidate(registry, verified, list)
  <2>1. taken = IF qualified = << >> THEN << >> ELSE <<best>>
    BY <1>2
  <2> HIDE DEF taken, Q
  <2>2. taken = << >> <=> Q = {}
    BY <1>4, <1>6, <2>1
  <2>3. taken # << >> => taken[1] \in Q /\ taken[1] \in Preferred(registry, verified, Q)
    BY <1>5, <1>6, <2>1
  <2>4. QED
    BY <2>2, <2>3 DEF Takes, Q, taken

\* For every system, every set of sources and every inventory and catalog,
\* whichever way they are listed: the package selected is one that the criteria
\* leave over, it comes from an enabled and trusted source and its driver's
\* patterns match the device, and none is selected only if none qualifies
\* (selector.rs:149, 247).
THEOREM SelectionsAreBest ==
  ASSUME NEW system, NEW registry, NEW verified, NEW device,
         NEW D, NEW drivers \in Seq(D), NEW P, NEW packages \in Seq(P),
         AreTyped(registry, Range(drivers), Range(packages))
  PROVE  SelectedIsBest(system, registry, verified, device, drivers, packages)
<1> DEFINE all    == AllCandidates(system, registry, device, Range(drivers), Range(packages))
           list   == Candidates(system, registry, device, drivers, packages)
           turned == Candidates(system, registry, device, Reverse(drivers), Reverse(packages))
           chosen == select_best_candidate(registry, verified, list)
           other  == select_best_candidate(registry, verified, turned)
           Q      == {c \in all : ~c.rejected}
<1>1. list \in Seq(all) /\ Range(list) = all
  BY CandidatesAre
<1>2. turned \in Seq(all) /\ Range(turned) = all
  <2>1. Reverse(drivers) \in Seq(D) /\ Range(Reverse(drivers)) = Range(drivers)
    BY ReverseIs
  <2>2. Reverse(packages) \in Seq(P) /\ Range(Reverse(packages)) = Range(packages)
    BY ReverseIs
  <2> HIDE DEF all
  <2>3. LET here == AllCandidates(system, registry, device, Range(Reverse(drivers)),
                               Range(Reverse(packages)))
        IN  turned \in Seq(here) /\ Range(turned) = here
    BY <2>1, <2>2, CandidatesAre
  <2>4. QED
    BY <2>1, <2>2, <2>3 DEF all
<1>3. \A c \in all : ~c.rejected => Qualifies(registry, device, c)
  BY TheOthersQualify
<1> HIDE DEF all, list, turned
<1>4. Takes(registry, verified, all, chosen)
  <2>1. \A c \in Range(list) : ~c.rejected => IsCandidate(registry, c) /\ c.trusted
    BY <1>1, <1>3 DEF Qualifies
  <2>2. Takes(registry, verified, Range(list), chosen)
    BY <1>1, <2>1, BestIsTaken
  <2>3. QED
    BY <1>1, <2>2
<1>5. Takes(registry, verified, all, other)
  <2>1. \A c \in Range(turned) : ~c.rejected => IsCandidate(registry, c) /\ c.trusted
    BY <1>2, <1>3 DEF Qualifies
  <2>2. Takes(registry, verified, Range(turned), other)
    BY <1>2, <2>1, BestIsTaken
  <2>3. QED
    BY <1>2, <2>2
<1> HIDE DEF chosen, other
<1>6. chosen = << >> <=> Q = {}
  BY <1>4 DEF Takes
<1>7. ASSUME chosen # << >>
      PROVE  /\ {chosen[1], other[1]} \subseteq Preferred(registry, verified, Q)
             /\ Qualifies(registry, device, chosen[1])
  <2>1. other # << >>
    BY <1>5, <1>6, <1>7 DEF Takes
  <2>2. chosen[1] \in Q /\ chosen[1] \in Preferred(registry, verified, Q)
    BY <1>4, <1>7 DEF Takes
  <2>3. other[1] \in Preferred(registry, verified, Q)
    BY <1>5, <2>1 DEF Takes
  <2>4. QED
    BY <1>3, <2>2, <2>3
<1>8. select_for_device(system, registry, verified, device, drivers, packages)
        = [candidates |-> list, found_any |-> list # << >>, selected |-> chosen]
  BY DEF select_for_device, list, chosen
<1>9. select_for_device(system, registry, verified, device, Reverse(drivers), Reverse(packages))
        = [candidates |-> turned, found_any |-> turned # << >>, selected |-> other]
  BY DEF select_for_device, turned, other
<1>10. Q = {c \in Range(list) : ~c.rejected}
  BY <1>1
<1> HIDE DEF Q
<1>11. QED
  BY <1>6, <1>7, <1>8, <1>9, <1>10 DEF SelectedIsBest, Qualifies

-----------------------------------------------------------------------------
(***************************************************************************)
(* A text split at a separator, and what a filter keeps of a list.         *)
(***************************************************************************)
\* Splitting a text is that fold, and its steps exist for every text.
LEMMA SplittingIs ==
  ASSUME NEW s, NEW sep
  PROVE  SplitBy(s, sep) = (CHOOSE it : Splitting(s, sep, it))[DOMAIN s]
BY DEF SplitBy, FoldLeft, MapThenFoldSet, Splitting, Split

LEMMA SplitKeeps ==
  ASSUME NEW S, NEW pieces \in Seq(Seq(S)) \ {<< >>}, NEW c \in S, NEW sep
  PROVE  Split(pieces, c, sep) \in Seq(Seq(S)) \ {<< >>}
<1> DEFINE n == Len(pieces)
<1>1. n \in Nat /\ n # 0 /\ n \in 1..n /\ \A i \in 1..n : pieces[i] \in Seq(S)
  OBVIOUS
<1>2. CASE c = sep
  <2>1. << >> \in Seq(S)
    OBVIOUS
  <2> DEFINE Q == Seq(S)
  <2> HIDE DEF Q
  <2>2. Append(pieces, << >>) \in Seq(Q) /\ Append(pieces, << >>) # << >>
    BY <2>1 DEF Q
  <2>3. QED
    BY <1>2, <2>2 DEF Split, Q
<1>3. CASE c # sep
  <2> DEFINE u == [pieces EXCEPT ![n] = Append(@, c)]
             Q == Seq(S)
  <2>1. Append(pieces[n], c) \in Q
    BY <1>1
  <2>2. \A i \in 1..n : pieces[i] \in Q
    BY <1>1
  <2> HIDE DEF Q
  <2>3. pieces \in [1..n -> Q]
    BY <1>1, <2>2
  <2>4. u \in [1..n -> Q] /\ Len(u) = n
    BY <1>1, <2>1, <2>3
  <2> HIDE DEF u, n
  <2>5. u \in Seq(Q) /\ u # << >>
    BY <1>1, <2>4
  <2>6. QED
    BY <1>3, <2>5 DEF Split, Q, u, n
<1>4. QED
  BY <1>2, <1>3

LEMMA SplitRuns ==
  ASSUME NEW S, NEW s \in Seq(S), NEW sep
  PROVE  Splits(S, s, sep)
<1> DEFINE n == Len(s)
           A == Seq(Seq(S)) \ {<< >>}
           base == << << >> >>
           f == [p \in A \X S |-> Split(p[1], p[2], sep)]
<1>1. n \in Nat /\ DOMAIN s = 1..n /\ \A i \in 1..n : s[i] \in S
  OBVIOUS
<1>2. base \in A
  OBVIOUS
<1>3. \A a \in A, x \in S : Split(a, x, sep) \in A
  BY SplitKeeps
<1> HIDE DEF A
<1>4. f \in [A \X S -> A] /\ \A a \in A, x \in S : f[<<a, x>>] = Split(a, x, sep)
  BY <1>3
<1> HIDE DEF f, base
<1>5. PICK it \in [SUBSET (1..n) -> A] : RunsOver(it, f, base, s, n)
  <2>1. Reaches(A, f, base, s, n)
    BY <1>2, <1>4, RunExists
  <2> HIDE DEF n
  <2>2. QED
    BY <2>1 DEF Reaches
<1> HIDE DEF n
<1>6. Splitting(s, sep, it)
  <2>1. ASSUME NEW T \in SUBSET (1..n)
        PROVE  it[T] = IF T = {} THEN base ELSE Split(it[T \ {Max(T)}], s[Max(T)], sep)
    <3>1. it[T] = IF T = {} THEN base ELSE f[<<it[T \ {Max(T)}], s[Max(T)]>>]
      BY <1>5 DEF RunsOver
    <3>2. CASE T # {}
      <4>1. Max(T) \in 1..n /\ T \ {Max(T)} \in SUBSET (1..n)
        BY <1>1, <3>2, GreatestNumber
      <4>2. it[T \ {Max(T)}] \in A /\ s[Max(T)] \in S
        BY <1>1, <1>5, <4>1
      <4>3. QED
        BY <1>4, <3>1, <3>2, <4>2
    <3>3. QED
      BY <3>1, <3>2
  <2>2. it = [T \in SUBSET (1..n) |->
                IF T = {} THEN base ELSE Split(it[T \ {Max(T)}], s[Max(T)], sep)]
    BY <2>1
  <2>3. QED
    BY <1>1, <2>2 DEF Splitting, base
<1> DEFINE made == CHOOSE g : Splitting(s, sep, g)
<1>7. Splitting(s, sep, made)
  BY <1>6
<1> HIDE DEF made
<1>8. RunsWithin(made, A, f, base, s)
  <2>1. ASSUME NEW T \in SUBSET (1..n), T # {}, made[T \ {Max(T)}] \in A
        PROVE  made[T] = f[<<made[T \ {Max(T)}], s[Max(T)]>>]
    <3>1. Max(T) \in 1..n
      BY <1>1, <2>1, GreatestNumber
    <3>2. s[Max(T)] \in S
      BY <1>1, <3>1
    <3>3. made[T] = Split(made[T \ {Max(T)}], s[Max(T)], sep)
      BY <1>1, <1>7, <2>1 DEF Splitting
    <3>4. QED
      BY <1>4, <2>1, <3>2, <3>3
  <2>2. made[{}] = base
    BY <1>7 DEF Splitting, base
  <2>3. QED
    BY <2>1, <2>2 DEF RunsWithin, n
<1> DEFINE g == [k \in 0..n |-> made[1..k]]
<1> HIDE DEF n
<1>9. Steps(A, f, base, s, g)
  <2>1. g = [k \in 0..Len(s) |-> made[1..k]]
    BY DEF n
  <2> HIDE DEF g
  <2>2. QED
    BY <1>2, <1>4, <1>8, <2>1, StepsAre
<1>10. g[n] = made[1..n]
  BY <1>1
<1> HIDE DEF g
<1>11. SplitBy(s, sep) = g[n]
  BY <1>1, <1>10, SplittingIs DEF made
<1>12. ASSUME NEW k \in 1..n PROVE g[k] = Split(g[k - 1], s[k], sep)
  <2>1. k - 1 \in 0..n /\ s[k] \in S
    BY <1>1
  <2>2. QED
    BY <1>4, <1>9, <2>1 DEF Steps, n
<1>13. SplitSteps(S, s, sep, g)
  BY <1>9, <1>11, <1>12 DEF SplitSteps, Steps, A, base, n
<1>14. QED
  BY <1>13 DEF Splits

\* Lists of one length with the same members are one list.
LEMMA SameMembers ==
  ASSUME NEW S, NEW s \in Seq(S), NEW t \in Seq(S), Len(s) = Len(t),
         \A i \in 1..Len(s) : s[i] = t[i]
  PROVE  s = t
<1> DEFINE n == Len(s)
<1>1. s \in [1..n -> S] /\ t \in [1..n -> S]
  OBVIOUS
<1>2. s = [i \in 1..n |-> s[i]] /\ t = [i \in 1..n |-> t[i]]
  BY <1>1
<1> HIDE DEF n
<1>3. [i \in 1..n |-> s[i]] = [i \in 1..n |-> t[i]]
  BY DEF n
<1>4. QED
  BY <1>2, <1>3

\* A list all of whose members are in the set is kept as it is.
LEMMA FilterKeepsAll ==
  ASSUME NEW S, NEW list \in Seq(S), NEW set, Range(list) \subseteq set
  PROVE  filter(list, set) = list
<1> DEFINE n == Len(list)
<1>1. n \in Nat /\ DOMAIN list = 1..n /\ \A i \in 1..n : list[i] \in S
  OBVIOUS
<1>2. PICK g : FilterSteps(S, list, set, g)
  BY FilterRuns DEF Filters
<1> DEFINE Good(k) == Len(g[k]) = k /\ \A i \in 1..k : g[k][i] = list[i]
           G == {k \in 0..n : Good(k)}
<1>3. 0 \in G
  <2>1. g[0] = << >> /\ Len(<< >>) = 0 /\ 1..0 = {}
    BY <1>2 DEF FilterSteps
  <2>2. QED
    BY <1>1, <2>1
<1>4. ASSUME NEW k \in 1..n, k - 1 \in G PROVE k \in G
  <2> DEFINE t == g[k - 1]  x == list[k]
  <2>1. k \in 0..n /\ k - 1 \in 0..n /\ x \in S /\ x \in set
    BY <1>1 DEF Range
  <2>2. t \in Seq(S) /\ g[k] = Append(t, x)
    BY <1>2, <2>1 DEF FilterSteps
  <2>3. Len(t) = k - 1 /\ \A i \in 1..(k - 1) : t[i] = list[i]
    BY <1>4
  <2>4. \A i \in 1..k : i \in 1..(k - 1) \/ i = k
    BY <1>1
  <2>5. (k - 1) + 1 = k
    BY <1>1
  <2> HIDE DEF t
  <2>6. Len(Append(t, x)) = k /\ Append(t, x)[k] = x
        /\ \A i \in 1..(k - 1) : Append(t, x)[i] = t[i]
    BY <2>1, <2>2, <2>3, <2>5, AppendIs
  <2>7. Good(k)
    BY <2>2, <2>3, <2>4, <2>6
  <2> HIDE DEF Good
  <2>8. QED
    BY <2>1, <2>7
<1>5. n \in G
  <2> HIDE DEF G
  <2>1. \A k \in 1..n : k - 1 \in G => k \in G
    BY <1>4
  <2>2. \A k \in 0..n : k \in G
    BY <1>1, <1>3, <2>1, UpTo
  <2>3. QED
    BY <1>1, <2>2
<1>6. filter(list, set) = g[n] /\ g[n] \in Seq(S)
  BY <1>1, <1>2 DEF FilterSteps
<1>7. Len(g[n]) = n /\ \A i \in 1..n : g[n][i] = list[i]
  BY <1>5
<1> HIDE DEF n
<1>8. QED
  BY <1>6, <1>7, SameMembers DEF n

\* If its first member is in the set, that comes first.
LEMMA FilterKeepsFirst ==
  ASSUME NEW S, NEW list \in Seq(S), NEW set, list # << >>, list[1] \in set
  PROVE  filter(list, set) # << >> /\ filter(list, set)[1] = list[1]
<1> DEFINE n == Len(list)
<1>1. n \in Nat /\ n # 0 /\ DOMAIN list = 1..n /\ \A i \in 1..n : list[i] \in S
  OBVIOUS
<1>2. PICK g : FilterSteps(S, list, set, g)
  BY FilterRuns DEF Filters
<1> DEFINE Good(k) == k # 0 => Len(g[k]) >= 1 /\ g[k][1] = list[1]
           G == {k \in 0..n : Good(k)}
<1>3. 0 \in G
  BY <1>1
<1>4. ASSUME NEW k \in 1..n, k - 1 \in G PROVE k \in G
  <2> DEFINE t == g[k - 1]  x == list[k]
  <2>1. k \in 0..n /\ k - 1 \in 0..n /\ x \in S /\ (k - 1 = 0 <=> k = 1)
    BY <1>1
  <2>2. t \in Seq(S) /\ g[k] = IF x \in set THEN Append(t, x) ELSE t
    BY <1>2, <2>1 DEF FilterSteps
  <2>3. k = 1 => t = << >>
    BY <1>2, <2>1 DEF FilterSteps
  <2>4. k # 1 => Len(t) >= 1 /\ t[1] = list[1]
    BY <1>4, <2>1
  <2> HIDE DEF t
  <2>5. Len(Append(t, x)) = Len(t) + 1 /\ Append(t, x)[Len(t) + 1] = x
        /\ \A i \in 1..Len(t) : Append(t, x)[i] = t[i]
    BY <2>1, <2>2, AppendIs
  <2>6. Len(t) \in Nat /\ (Len(t) >= 1 => 1 \in 1..Len(t))
    BY <2>2
  <2>7. Len(g[k]) >= 1 /\ g[k][1] = list[1]
    <3>1. CASE k = 1
      <4>1. Len(t) = 0 /\ g[k] = Append(t, x)
        BY <2>2, <2>3, <3>1
      <4>2. QED
        BY <2>5, <3>1, <4>1
    <3>2. CASE k # 1
      BY <2>2, <2>4, <2>5, <2>6, <3>2
    <3>3. QED
      BY <3>1, <3>2
  <2>8. QED
    BY <2>1, <2>7
<1>5. n \in G
  <2> HIDE DEF G
  <2>1. \A k \in 1..n : k - 1 \in G => k \in G
    BY <1>4
  <2>2. \A k \in 0..n : k \in G
    BY <1>1, <1>3, <2>1, UpTo
  <2>3. QED
    BY <1>1, <2>2
<1>6. filter(list, set) = g[n] /\ g[n] \in Seq(S)
  BY <1>1, <1>2 DEF FilterSteps
<1>7. QED
  BY <1>1, <1>5, <1>6

\* A text is split into at least one piece.
LEMMA SplitIsTyped ==
  ASSUME NEW S, NEW s \in Seq(S), NEW sep
  PROVE  SplitBy(s, sep) \in Seq(Seq(S)) /\ SplitBy(s, sep) # << >>
<1>1. PICK g : SplitSteps(S, s, sep, g)
  BY SplitRuns DEF Splits
<1>2. Len(s) \in 0..Len(s)
  OBVIOUS
<1>3. QED
  BY <1>1, <1>2 DEF SplitSteps

-----------------------------------------------------------------------------
(***************************************************************************)
(* The descriptions of packages and sources.                               *)
(***************************************************************************)
\* A member that is the only one of its kind in a list is the first one kept.
LEMMA OnlyOneIsKept ==
  ASSUME NEW S, NEW list \in Seq(S), NEW set, NEW x, Range(list) \cap set = {x}
  PROVE  filter(list, set) # << >> /\ filter(list, set)[1] = x
<1> DEFINE kept == filter(list, set)
<1>1. kept \in Seq(S) /\ Range(kept) = {x}
  BY FilterIs
<1> HIDE DEF kept
<1>2. kept # << >>
  BY <1>1, ListIsOfItsRange, Zenon
<1>3. 1 \in DOMAIN kept
  BY <1>1, <1>2
<1>4. kept[1] \in Range(kept)
  BY <1>3 DEF Range
<1>5. QED
  BY <1>1, <1>2, <1>4 DEF kept

(***************************************************************************)
(* In a registry that is accepted, whatever its sources, the enabled ones  *)
(* are listed once each, by priority, and each is found under its          *)
(* identifier, a local one if it is there (source.rs:302, 310).            *)
(***************************************************************************)
THEOREM EnabledSourcesAreFound ==
  ASSUME NEW S, NEW configs \in Seq(S), \A s \in S : s.priority \in Int
  PROVE  SourcesAreFound(configs)
<1> DEFINE D == Range(configs)
           P == Places(configs)
           on == {s \in D : s.enabled}
           kept == filter(configs, on)
           key == [s \in Range(kept) |-> s.priority]
           pos == [s \in Range(kept) |-> P[s]]
           enabled == enabled_sources(configs)
<1>1. DOMAIN configs = 1..Len(configs) /\ \A i \in 1..Len(configs) : configs[i] \in S
  OBVIOUS
<1> SUFFICES ASSUME from_configs(configs) # None
             PROVE  SourcesAreFound(configs)
  BY Zenon DEF SourcesAreFound
<1>2. \A i, j \in 1..Len(configs) : configs[i].id = configs[j].id => i = j
  BY <1>1 DEF from_configs
<1>3. Once(configs)
  BY <1>2 DEF Once
<1>4. configs \in Seq(D) /\ P \in [D -> Int] /\ Ascends(configs, P) /\ D \subseteq S
  BY <1>3, PlacesAre, ListIsOfItsRange
<1>5. enabled = sort_by_key(kept, key)
  BY DEF enabled_sources
<1>6. \A s \in D : \E i \in 1..Len(configs) : configs[i] = s
  BY <1>1 DEF Range
<1>7. \A i \in 1..Len(configs) : configs[i] \in D
  BY <1>1 DEF Range
<1>8. \A s, t \in D : s.id = t.id => s = t
  BY <1>2, <1>6
<1> HIDE DEF D, P, enabled
<1>9. kept \in Seq(D) /\ Range(kept) = on /\ Ascends(kept, P)
  <2> HIDE DEF on
  <2>1. kept \in Seq(D) /\ Range(kept) = Range(configs) \cap on
    BY <1>4, FilterIs
  <2>2. Ascends(kept, P)
    BY <1>4, FilterKeepsOrder
  <2>3. QED
    BY <2>1, <2>2 DEF D, on
<1> HIDE DEF kept
<1>10. kept \in Seq(on)
  BY <1>9, ListIsOfItsRange
<1>11. key \in [on -> Int] /\ pos \in [on -> Int]
       /\ \A s \in on : key[s] = s.priority /\ pos[s] = P[s]
  BY <1>4, <1>9
<1> HIDE DEF key, pos
<1>12. Ascends(kept, pos)
  <2>1. \A i \in 1..Len(kept) : kept[i] \in on
    BY <1>10
  <2>2. QED
    BY <1>9, <1>11, <2>1, Zenon DEF Ascends
<1>13. enabled \in Seq(on) /\ Range(enabled) = on /\ Ranked(enabled, key, pos)
  <2> HIDE DEF on
  <2>1. QED
    BY <1>5, <1>9, <1>10, <1>11, <1>12, SortIs
<1>14. DOMAIN enabled = 1..Len(enabled) /\ \A i \in 1..Len(enabled) : enabled[i] \in on
  BY <1>13
<1>15. ASSUME NEW i \in DOMAIN enabled, NEW j \in DOMAIN enabled, i < j
       PROVE  enabled[i].priority <= enabled[j].priority /\ enabled[i] # enabled[j]
  <2>1. enabled[i] \in on /\ enabled[j] \in on
    BY <1>14
  <2>2. \/ key[enabled[i]] < key[enabled[j]]
        \/ key[enabled[i]] = key[enabled[j]] /\ pos[enabled[i]] < pos[enabled[j]]
    BY <1>13, <1>14, <1>15 DEF Ranked
  <2>3. key[enabled[i]] \in Int /\ key[enabled[j]] \in Int
        /\ pos[enabled[i]] \in Int /\ pos[enabled[j]] \in Int
    BY <1>11, <2>1
  <2>4. QED
    BY <1>11, <2>1, <2>2, <2>3
<1>16. {enabled[i] : i \in DOMAIN enabled}
         = {configs[i] : i \in {j \in DOMAIN configs : configs[j].enabled}}
  <2>1. {enabled[i] : i \in DOMAIN enabled} = on
    BY <1>13 DEF Range
  <2>2. {configs[i] : i \in {j \in DOMAIN configs : configs[j].enabled}} = on
    BY <1>1, <1>6, <1>7
  <2>3. QED
    BY <2>1, <2>2
<1>17. ASSUME NEW i \in DOMAIN enabled
       PROVE  resolve_source(configs, enabled[i].id)
                = IF enabled[i].type = "Local" /\ ~enabled[i].there THEN None ELSE enabled[i]
  <2> DEFINE x == enabled[i]
             named == {s \in D : s.id = x.id /\ s.enabled}
             found == filter(configs, named)
  <2>1. x \in on /\ x \in D
    BY <1>14
  <2>2. resolve_source(configs, x.id)
          = IF found = << >> \/ (found[1].type = "Local" /\ ~found[1].there) THEN None
            ELSE found[1]
    BY DEF resolve_source, D
  <2> HIDE DEF x
  <2>3. D \cap named = {x}
    BY <1>8, <2>1
  <2> HIDE DEF named
  <2>4. found # << >> /\ found[1] = x
    BY <1>4, <2>3, OnlyOneIsKept, Zenon DEF D
  <2> HIDE DEF found
  <2>5. QED
    BY <2>2, <2>4 DEF x
<1>18. QED
  BY <1>15, <1>16, <1>17, Zenon DEF SourcesAreFound, enabled

(***************************************************************************)
(* Whatever sources a registry accepts, the URLs of those that need the    *)
(* network are ones the fetcher takes, but for their length (source.rs:205,*)
(* fetch.rs:47).                                                           *)
(***************************************************************************)
THEOREM RegistriesAreUsable ==
  ASSUME NEW Schemes, NEW Parts, NEW configs,
         \A i \in DOMAIN configs : configs[i].urls \subseteq [scheme : Schemes, parts : SUBSET Parts]
  PROVE  RegistryIsUsable(configs)
<1>1. SUFFICES ASSUME from_configs(configs) # None, NEW i \in DOMAIN configs,
                      requires_network(configs[i].type), NEW url \in configs[i].urls
               PROVE  validate_download_url([url EXCEPT !.parts = @ \ {"long"}])
  BY Zenon DEF RegistryIsUsable
<1> DEFINE short == [url EXCEPT !.parts = @ \ {"long"}]
<1>2. url \in [scheme : Schemes, parts : SUBSET Parts]
  BY <1>1
<1>3. short.scheme = url.scheme /\ short.parts = url.parts \ {"long"}
  BY <1>2
<1>4. SourceUrlValid(url)
  BY <1>1, ZenonT(30) DEF from_configs, SourceValid
<1> HIDE DEF short
<1>5. validate_download_url(short)
  BY <1>3, <1>4 DEF SourceUrlValid, validate_download_url
<1>6. QED
  BY <1>5 DEF short

(***************************************************************************)
(* Valid metadata describe a valid driver, and of the kernel versions a    *)
(* valid driver names no component is left out, whatever they are          *)
(* (inventory.rs:353, matching.rs:360).                                    *)
(***************************************************************************)
THEOREM RangesAreRead ==
  ASSUME NEW S, NEW m, m.min \in Seq(S), m.max \in Seq(S) \union {None}
  PROVE  RangeIsRead(m)
<1> DEFINE driver == [name |-> m.id.name, provider |-> m.source, arch |-> m.arch,
                      pre |-> m.id.pre, min |-> m.min, max |-> m.max]
<1>1. ASSUME MetadataValid(m) PROVE DriverIdValid(driver)
  BY <1>1 DEF MetadataValid, PackageIdValid, DriverIdValid
<1>2. ASSUME DriverIdValid(driver), NEW text \in {m.min} \union ({m.max} \ {None})
      PROVE  Len(KernelParts(text)) = Len(SplitBy(text, "."))
  <2> DEFINE parts == SplitBy(text, ".")
             read  == filter(parts, {part \in Range(parts) : ParseNumber(part) # << >>})
  <2>1. KernelValid(text) /\ text \in Seq(S)
    BY <1>2 DEF DriverIdValid, CompatibilityValid
  <2>2. parts \in Seq(Seq(S))
    BY <2>1, SplitIsTyped
  <2>3. \A i \in DOMAIN parts : ParseNumber(parts[i]) # << >>
    BY <2>1 DEF KernelValid
  <2>4. KernelParts(text) = [i \in DOMAIN read |-> ParseNumber(read[i])[1]]
    BY DEF KernelParts
  <2> HIDE DEF parts
  <2>5. Range(parts) \subseteq {part \in Range(parts) : ParseNumber(part) # << >>}
    BY <2>3 DEF Range
  <2>6. read = parts
    <3> DEFINE Q == Seq(S)
    <3> HIDE DEF Q
    <3>1. parts \in Seq(Q)
      BY <2>2 DEF Q
    <3>2. QED
      BY <2>5, <3>1, FilterKeepsAll
  <2> HIDE DEF read
  <2>7. DOMAIN read = 1..Len(parts) /\ Len(parts) \in Nat
    BY <2>2, <2>6
  <2>8. QED
    BY <2>4, <2>7 DEF parts
<1>3. QED
  BY <1>1, <1>2 DEF RangeIsRead

(***************************************************************************)
(* Whatever entry a manifest may hold, if it is valid its digest is one    *)
(* the hasher can produce and its architecture one the selector knows      *)
(* (repository.rs:344, metadata.rs:105); a mixed spelling of the algorithm *)
(* is the one exception.                                                   *)
(***************************************************************************)
THEOREM EntriesAreUsable ==
  ASSUME NEW entry
  PROVE  EntryIsUsable(entry)
<1> SUFFICES ASSUME EntryValid(entry)
             PROVE  EntryIsUsable(entry)
  BY DEF EntryIsUsable
<1> DEFINE name == entry.algorithm
           lower == LowerCase(name)
<1>1. entry.digest.length = 64 /\ entry.digest.hex /\ lower \in {"sha256", "blake3"}
  BY Zenon DEF EntryValid, DigestDigits
<1>2. entry.arch \in {"x86_64", "amd64", "aarch64", "arm64", None}
  BY Zenon DEF EntryValid, SupportedArchitectures
<1>3. hex_decode(entry.digest) = 32
  BY <1>1 DEF hex_decode
<1>4. ASSUME name # "Sha256"
      PROVE  /\ Algorithm(name) = lower /\ lower # None
             /\ Algorithm(lower) = lower
  <2>1. name \in {"sha256", "SHA256", "blake3", "BLAKE3"}
    BY <1>1, <1>4 DEF LowerCase
  <2>2. lower # None
    BY <1>1, NoneAssumption
  <2>3. QED
    BY <1>1, <2>1, <2>2 DEF Algorithm, LowerCase
<1> HIDE DEF lower
<1>5. ASSUME name # "Sha256"
      PROVE  /\ DigestParse(name, entry.digest) # None
             /\ CanMatch(DigestParse(name, entry.digest))
  <2> DEFINE digest == [algorithm |-> lower, length |-> 32]
  <2>1. DigestParse(name, entry.digest) = digest
    BY <1>3, <1>4, <1>5 DEF DigestParse
  <2>2. digest # None
    BY <1>1, NoneAssumption
  <2>3. CanMatch(digest)
    BY <1>4, <1>5 DEF CanMatch, HashLength
  <2>4. QED
    BY <2>1, <2>2, <2>3
<1>6. NormalizedArchitecture(entry.arch) \in {"x86_64", "aarch64", None}
  BY <1>2 DEF NormalizedArchitecture
<1>7. QED
  BY <1>5, <1>6 DEF EntryIsUsable

-----------------------------------------------------------------------------
(***************************************************************************)
(* The firewall: in a chain that drops by policy and whose lines all accept,*)
(* a packet is let in exactly if some line matches it.                     *)
(***************************************************************************)
LEMMA LineFields ==
  ASSUME NEW rule, generate_rule(rule) # None
  PROVE  LET line == generate_rule(rule)
         IN  /\ line.name = rule.name
             /\ ~rule.enabled => line.action = None
             /\ rule.enabled =>
                  /\ line.action = rule.action
                  /\ line.source = escape_addr(rule.source)
                  /\ line.destination = escape_addr(rule.destination)
                  /\ line.protocol = IF rule.protocol = "other" THEN None ELSE rule.protocol
                  /\ line.sport = IF rule.protocol \in Ported THEN rule.sport ELSE None
                  /\ line.dport = IF rule.protocol \in Ported THEN rule.dport ELSE None
                  /\ line.network = None /\ line.established = FALSE /\ line.loopback = FALSE
                  /\ rule.protocol = None => rule.sport = None /\ rule.dport = None
BY DEF generate_rule, Remark, Line, RuleValid

\* The line of a rule is read exactly if the rule can be told, and then matches,
\* in the input chain, what an incoming rule describes, for any name, addresses
\* and ports and for every packet (nftables.rs:184).
THEOREM LinesAreRules ==
  ASSUME NEW rule, NEW packet, None \notin RuleActions \union Ported, rule.enabled \in BOOLEAN,
         rule.action \in RuleActions, rule.protocol \in Protocols \union {None}
  PROVE  LineIsRule(rule, packet)
<1> DEFINE line == generate_rule(rule)
<1>1. SUFFICES ASSUME line # None
               PROVE  /\ Reads(line) = Tellable(rule)
                      /\ Reads(line) /\ rule.direction = "in" /\ rule.protocol # "other"
                           /\ (rule.protocol = "icmp" => rule.sport = None /\ rule.dport = None)
                           /\ escape_addr(rule.source) = rule.source
                           /\ escape_addr(rule.destination) = rule.destination
                         => MatchesIncoming(line, packet) = Describes(rule, packet)
  BY DEF LineIsRule
<1>2. line.name = rule.name /\ (~rule.enabled => line.action = None)
  BY <1>1, LineFields
<1>3. CASE ~rule.enabled
  BY <1>2, <1>3 DEF Reads, Tellable, MatchesIncoming, Describes
<1>4. CASE rule.enabled
  <2>1. /\ line.action = rule.action /\ line.action # None
        /\ line.source = escape_addr(rule.source)
        /\ line.destination = escape_addr(rule.destination)
        /\ line.protocol = IF rule.protocol = "other" THEN None ELSE rule.protocol
        /\ line.sport = IF rule.protocol \in Ported THEN rule.sport ELSE None
        /\ line.dport = IF rule.protocol \in Ported THEN rule.dport ELSE None
        /\ line.network = None /\ line.established = FALSE /\ line.loopback = FALSE
        /\ rule.protocol = None => rule.sport = None /\ rule.dport = None
    BY <1>1, <1>4, LineFields
  <2> HIDE DEF line
  <2>2. Reads(line) = Tellable(rule)
    BY <1>2, <1>4, <2>1 DEF Reads, Tellable, Ported, Protocols
  <2>3. ASSUME rule.direction = "in", rule.protocol # "other",
               rule.protocol = "icmp" => rule.sport = None /\ rule.dport = None,
               escape_addr(rule.source) = rule.source,
               escape_addr(rule.destination) = rule.destination
        PROVE  MatchesIncoming(line, packet) = Describes(rule, packet)
    <3>1. /\ line.source = rule.source /\ line.destination = rule.destination
          /\ line.protocol = rule.protocol
      BY <2>1, <2>3
    <3>2. line.sport = rule.sport /\ line.dport = rule.dport
      BY <2>1, <2>3 DEF Protocols, Ported
    <3>3. MatchesIncoming(line, packet) <=>
            /\ packet.direction = "in"
            /\ line.protocol \in {None, packet.protocol} /\ line.source \in {None, packet.source}
            /\ line.destination \in {None, packet.destination}
            /\ line.sport \in {None, packet.sport} /\ line.dport \in {None, packet.dport}
      BY <2>1 DEF MatchesIncoming, Matches
    <3>4. Describes(rule, packet) <=>
            /\ packet.direction = "in"
            /\ rule.protocol \in {None, packet.protocol} /\ rule.source \in {None, packet.source}
            /\ rule.destination \in {None, packet.destination}
            /\ rule.sport \in {None, packet.sport} /\ rule.dport \in {None, packet.dport}
      BY <1>4, <2>3 DEF Describes
    <3> QED
      BY <3>1, <3>2, <3>3, <3>4 DEF MatchesIncoming, Describes
  <2> QED
    BY <2>2, <2>3
<1> QED
  BY <1>3, <1>4

\* A chain decides by the first line that matches.
LEMMA VerdictIs ==
  ASSUME NEW chain, NEW packet, Len(chain.lines) \in Nat
  PROVE  LET lines    == chain.lines
             matching == {i \in 1..Len(lines) : Matches(lines[i], packet)}
         IN  IF matching = {} THEN Verdict(chain, packet) = chain.policy
             ELSE \E i \in matching : Verdict(chain, packet) = lines[i].action
<1> DEFINE lines    == chain.lines
           matching == {i \in 1..Len(lines) : Matches(lines[i], packet)}
           first    == SelectInSeq(lines, LAMBDA line : Matches(line, packet))
<1>1. CASE matching = {}
  <2>1. first = 0
    BY <1>1 DEF SelectInSeq
  <2>2. QED
    BY <1>1, <2>1 DEF Verdict
<1>2. CASE matching # {}
  <2>1. first = Min(matching)
    BY <1>2 DEF SelectInSeq
  <2>2. matching \in SUBSET Nat
    OBVIOUS
  <2> HIDE DEF matching
  <2>3. Min(matching) \in matching
    BY <1>2, <2>2, SmallestNumber, Zenon DEF Min
  <2> HIDE DEF first
  <2>4. first \in matching /\ first # 0
    BY <2>1, <2>2, <2>3 DEF matching
  <2>5. Verdict(chain, packet) = lines[first].action
    BY <2>4 DEF Verdict, first
  <2>6. QED
    BY <1>2, <2>4, <2>5 DEF matching
<1>3. QED
  BY <1>1, <1>2

\* A chain of lines that accept, and of packets that are dropped otherwise.
LEMMA AcceptingChain ==
  ASSUME NEW chain, NEW packet, Len(chain.lines) \in Nat, chain.policy = "drop",
         \A line \in LinesOf(chain.lines) : line.action = "accept"
  PROVE  Verdict(chain, packet) = "accept"
           <=> \E line \in LinesOf(chain.lines) : Matches(line, packet)
BY VerdictIs DEF LinesOf

LEMMA JoinedLines ==
  ASSUME NEW S, NEW a \in Seq(S), NEW b \in Seq(S)
  PROVE  a \o b \in Seq(S) /\ LinesOf(a \o b) = LinesOf(a) \union LinesOf(b)
<1>1. a \o b \in Seq(S) /\ Len(a \o b) = Len(a) + Len(b) /\ Len(a) \in Nat /\ Len(b) \in Nat
  OBVIOUS
<1>2. \A i \in 1..Len(a) + Len(b) :
        (a \o b)[i] = IF i <= Len(a) THEN a[i] ELSE b[i - Len(a)]
  OBVIOUS
<1>3. LinesOf(a \o b) \subseteq LinesOf(a) \union LinesOf(b)
  BY <1>1, <1>2 DEF LinesOf
<1>4. \A i \in 1..Len(a) : i \in 1..Len(a) + Len(b) /\ (a \o b)[i] = a[i]
  BY <1>1, <1>2
<1>5. \A i \in 1..Len(b) : Len(a) + i \in 1..Len(a) + Len(b) /\ (a \o b)[Len(a) + i] = b[i]
  BY <1>1, <1>2
<1>6. QED
  BY <1>1, <1>3, <1>4, <1>5, SMTT(20) DEF LinesOf

LEMMA JoinedThree ==
  ASSUME NEW S, NEW a \in Seq(S), NEW b \in Seq(S), NEW c \in Seq(S)
  PROVE  /\ a \o b \o c \in Seq(S)
         /\ LinesOf(a \o b \o c) = LinesOf(a) \union LinesOf(b) \union LinesOf(c)
<1> DEFINE ab == a \o b
<1>1. ab \in Seq(S) /\ LinesOf(ab) = LinesOf(a) \union LinesOf(b)
  BY JoinedLines
<1> HIDE DEF ab
<1>2. ab \o c \in Seq(S) /\ LinesOf(ab \o c) = LinesOf(ab) \union LinesOf(c)
  BY <1>1, JoinedLines
<1>3. QED
  BY <1>1, <1>2 DEF ab

LEMMA LinesMatch ==
  ASSUME NoValue, NEW packet, packet.established \in BOOLEAN, packet.loopback \in BOOLEAN
  PROVE  /\ Matches(Established, packet) <=> packet.established
         /\ Matches(Loopback, packet) <=> packet.loopback
         /\ Matches(Icmp, packet) <=> packet.protocol = "icmp"
         /\ \A n : n # None => (Matches(Network(n), packet) <=> packet.network = n)
         /\ \A n \in Nat : Matches(Port(n), packet)
                             <=> packet.protocol = "tcp" /\ packet.dport = n
         /\ \A line \in CommonLines : line.action = "accept"
         /\ \A n : Network(n).action = "accept" /\ Port(n).action = "accept"
<1>1. ASSUME NEW line
      PROVE  Matches(line, packet) <=>
               /\ line.protocol \in {None, packet.protocol} /\ line.source \in {None, packet.source}
               /\ line.destination \in {None, packet.destination}
               /\ line.sport \in {None, packet.sport} /\ line.dport \in {None, packet.dport}
               /\ line.network \in {None, packet.network}
               /\ line.established => packet.established
               /\ line.loopback => packet.loopback
  BY DEF Matches
<1>2. \A action : 
        /\ \A f \in {"protocol", "source", "destination", "sport", "dport", "network"} :
             Line(action)[f] = None
        /\ Line(action).established = FALSE /\ Line(action).loopback = FALSE
        /\ Line(action).action = action
  BY DEF Line
<1> USE DEF Line, Accept
<1>3. Matches(Established, packet) <=> packet.established
  BY <1>1 DEF Established
<1>4. Matches(Loopback, packet) <=> packet.loopback
  BY <1>1 DEF Loopback
<1>5. Matches(Icmp, packet) <=> packet.protocol = "icmp"
  BY <1>1 DEF Icmp, NoValue
<1>6. \A n : n # None => (Matches(Network(n), packet) <=> packet.network = n)
  BY <1>1 DEF Network
<1>7. ASSUME NEW n \in Nat
      PROVE  Matches(Port(n), packet) <=> packet.protocol = "tcp" /\ packet.dport = n
  <2>1. /\ Port(n).protocol = "tcp" /\ Port(n).dport = n
        /\ Port(n).source = None /\ Port(n).destination = None /\ Port(n).sport = None
        /\ Port(n).network = None /\ Port(n).established = FALSE /\ Port(n).loopback = FALSE
    BY DEF Port
  <2>2. None # n /\ None # "tcp"
    BY DEF NoValue
  <2>3. QED
    BY <1>1, <2>1, <2>2
<1>8. \A line \in CommonLines : line.action = "accept"
  BY DEF CommonLines, Established, Loopback, Icmp
<1>9. \A n : Network(n).action = "accept" /\ Port(n).action = "accept"
  BY DEF Network, Port
<1>10. QED
  BY <1>3, <1>4, <1>5, <1>6, <1>7, <1>8, <1>9

LEMMA ListsAre ==
  /\ PrivateNetworks \in Seq(Networks) /\ LinesOf(PrivateNetworks) = Networks
  /\ DevelopmentPorts \in Seq(DevelopmentPortSet) /\ LinesOf(DevelopmentPorts) = DevelopmentPortSet
<1>1. PrivateNetworks \in Seq(Networks) /\ Len(PrivateNetworks) = 3
  BY DEF PrivateNetworks, Networks
<1>2. LinesOf(PrivateNetworks) = Networks
  BY <1>1 DEF PrivateNetworks, Networks, LinesOf
<1>3. DevelopmentPorts \in Seq(DevelopmentPortSet) /\ Len(DevelopmentPorts) = 5
  BY DEF DevelopmentPorts, DevelopmentPortSet
<1>4. LinesOf(DevelopmentPorts) = DevelopmentPortSet
  BY <1>3 DEF DevelopmentPorts, DevelopmentPortSet, LinesOf
<1>5. QED
  BY <1>1, <1>2, <1>3, <1>4

LEMMA ChainsAre ==
  /\ Len(generate_public_chains) \in Nat /\ generate_custom_chains = generate_public_chains
  /\ LinesOf(generate_public_chains) = CommonLines
  /\ Len(generate_private_chains) \in Nat
  /\ LinesOf(generate_private_chains)
       = CommonLines \union {Network(n) : n \in Networks}
  /\ Len(generate_development_chains) \in Nat
  /\ LinesOf(generate_development_chains)
       = CommonLines \union {Port(n) : n \in DevelopmentPortSet}
<1> DEFINE Lines == CommonLines \union {Network(n) : n \in Networks}
                    \union {Port(n) : n \in DevelopmentPortSet}
           nets  == [i \in DOMAIN PrivateNetworks |-> Network(PrivateNetworks[i])]
           ports == [i \in DOMAIN DevelopmentPorts |-> Port(DevelopmentPorts[i])]
<1>1. nets \in Seq(Lines) /\ LinesOf(nets) = {Network(n) : n \in Networks}
  <2>1. Len(PrivateNetworks) \in Nat /\ DOMAIN PrivateNetworks = 1..Len(PrivateNetworks)
        /\ \A i \in 1..Len(PrivateNetworks) : PrivateNetworks[i] \in Networks
    BY ListsAre
  <2>2. nets \in Seq(Lines) /\ Len(nets) = Len(PrivateNetworks)
    BY <2>1
  <2>3. LinesOf(nets) = {Network(n) : n \in LinesOf(PrivateNetworks)}
    BY <2>1, <2>2 DEF LinesOf
  <2>4. QED
    BY <2>2, <2>3, ListsAre, Zenon
<1>2. ports \in Seq(Lines) /\ LinesOf(ports) = {Port(n) : n \in DevelopmentPortSet}
  <2>1. Len(DevelopmentPorts) \in Nat /\ DOMAIN DevelopmentPorts = 1..Len(DevelopmentPorts)
        /\ \A i \in 1..Len(DevelopmentPorts) : DevelopmentPorts[i] \in DevelopmentPortSet
    BY ListsAre
  <2>2. ports \in Seq(Lines) /\ Len(ports) = Len(DevelopmentPorts)
    BY <2>1
  <2>3. LinesOf(ports) = {Port(n) : n \in LinesOf(DevelopmentPorts)}
    BY <2>1, <2>2 DEF LinesOf
  <2>4. QED
    BY <2>2, <2>3, ListsAre
<1>3. /\ <<Established, Loopback>> \in Seq(Lines)
      /\ LinesOf(<<Established, Loopback>>) = {Established, Loopback}
  BY DEF LinesOf, CommonLines
<1>4. <<Icmp>> \in Seq(Lines) /\ LinesOf(<<Icmp>>) = {Icmp}
  BY DEF LinesOf, CommonLines
<1> HIDE DEF Lines, nets, ports
<1>5. /\ <<Established, Loopback>> \o nets \o <<Icmp>> \in Seq(Lines)
      /\ LinesOf(<<Established, Loopback>> \o nets \o <<Icmp>>)
           = CommonLines \union {Network(n) : n \in Networks}
  <2> DEFINE a == <<Established, Loopback>>
             b == <<Icmp>>
  <2> HIDE DEF a, b
  <2>1. a \in Seq(Lines) /\ LinesOf(a) = {Established, Loopback}
    BY <1>3 DEF a
  <2>2. b \in Seq(Lines) /\ LinesOf(b) = {Icmp}
    BY <1>4 DEF b
  <2>3. a \o nets \o b \in Seq(Lines)
        /\ LinesOf(a \o nets \o b) = LinesOf(a) \union LinesOf(nets) \union LinesOf(b)
    BY <1>1, <2>1, <2>2, JoinedThree
  <2>4. QED
    BY <1>1, <2>1, <2>2, <2>3 DEF a, b, CommonLines
<1>6. /\ <<Established, Loopback>> \o ports \o <<Icmp>> \in Seq(Lines)
      /\ LinesOf(<<Established, Loopback>> \o ports \o <<Icmp>>)
           = CommonLines \union {Port(n) : n \in DevelopmentPortSet}
  <2> DEFINE a == <<Established, Loopback>>
             b == <<Icmp>>
  <2> HIDE DEF a, b
  <2>1. a \in Seq(Lines) /\ LinesOf(a) = {Established, Loopback}
    BY <1>3 DEF a
  <2>2. b \in Seq(Lines) /\ LinesOf(b) = {Icmp}
    BY <1>4 DEF b
  <2>3. a \o ports \o b \in Seq(Lines)
        /\ LinesOf(a \o ports \o b) = LinesOf(a) \union LinesOf(ports) \union LinesOf(b)
    BY <1>2, <2>1, <2>2, JoinedThree
  <2>4. QED
    BY <1>2, <2>1, <2>2, <2>3 DEF a, b, CommonLines
<1>7. /\ Len(generate_public_chains) \in Nat /\ generate_custom_chains = generate_public_chains
      /\ LinesOf(generate_public_chains) = CommonLines
  BY DEF generate_public_chains, generate_custom_chains, LinesOf,
         CommonLines
<1>8. \A s \in Seq(Lines) : Len(s) \in Nat
  OBVIOUS
<1>9. /\ generate_private_chains = <<Established, Loopback>> \o nets \o <<Icmp>>
      /\ generate_development_chains = <<Established, Loopback>> \o ports \o <<Icmp>>
  BY DEF generate_private_chains, generate_development_chains, nets, ports
<1>10. /\ Len(generate_private_chains) \in Nat
       /\ LinesOf(generate_private_chains)
            = CommonLines \union {Network(n) : n \in Networks}
  BY <1>5, <1>8, <1>9, Zenon
<1>11. /\ Len(generate_development_chains) \in Nat
       /\ LinesOf(generate_development_chains)
            = CommonLines \union {Port(n) : n \in DevelopmentPortSet}
  BY <1>6, <1>8, <1>9, Zenon
<1>12. QED
  BY <1>7, <1>10, <1>11

\* The profiles let in what the public one does and no more than they name,
\* for packets with any ports and addresses (nftables.rs:86).
THEOREM ProfilesAreWider ==
  ASSUME NoValue, NEW packet, IsPacket(packet)
  PROVE  ProfilesWiden(packet)
<1> DEFINE Rulesets(profile)  == generate_ruleset(profile, << >>)
           LetsIn(profile) == Verdict(Rulesets(profile).input, packet) = "accept"
           public == packet.established \/ packet.loopback \/ packet.protocol = "icmp"
<1>1. \A profile : /\ Rulesets(profile).input = [policy |-> "drop", lines |-> InputChain(profile)]
                   /\ Rulesets(profile).forward = [policy |-> "drop", lines |-> << >>]
                   /\ Rulesets(profile).output = [policy |-> "accept", lines |-> << >>]
  BY DEF generate_ruleset
<1>2. /\ InputChain("Public") = generate_public_chains
      /\ InputChain("Custom") = generate_public_chains
      /\ InputChain("Private") = generate_private_chains
      /\ InputChain("Development") = generate_development_chains
  BY ChainsAre DEF InputChain
<1>3. ASSUME NEW policy
      PROVE  Verdict([policy |-> policy, lines |-> << >>], packet) = policy
  <2> DEFINE chain == [policy |-> policy, lines |-> << >>]
  <2>1. chain.lines = << >> /\ chain.policy = policy /\ Len(chain.lines) = 0
    OBVIOUS
  <2> HIDE DEF chain
  <2>2. {i \in 1..Len(chain.lines) : Matches(chain.lines[i], packet)} = {}
    BY <2>1
  <2>3. QED
    BY <2>1, <2>2, VerdictIs DEF chain
<1>4. ASSUME NEW lines, Len(lines) \in Nat, \A line \in LinesOf(lines) : line.action = "accept"
      PROVE  Verdict([policy |-> "drop", lines |-> lines], packet) = "accept"
               <=> \E line \in LinesOf(lines) : Matches(line, packet)
  <2> DEFINE chain == [policy |-> "drop", lines |-> lines]
  <2>1. chain.lines = lines /\ chain.policy = "drop"
    OBVIOUS
  <2> HIDE DEF chain
  <2>2. Verdict(chain, packet) = "accept" <=> \E line \in LinesOf(lines) : Matches(line, packet)
    BY <1>4, <2>1, AcceptingChain
  <2>3. QED
    BY <2>2 DEF chain
<1>5. packet.established \in BOOLEAN /\ packet.loopback \in BOOLEAN
  BY DEF IsPacket
<1>6. ASSUME NEW profile, Len(InputChain(profile)) \in Nat,
             \A line \in LinesOf(InputChain(profile)) : line.action = "accept"
      PROVE  LetsIn(profile) <=> \E line \in LinesOf(InputChain(profile)) : Matches(line, packet)
  <2>1. Rulesets(profile).input = [policy |-> "drop", lines |-> InputChain(profile)]
    BY <1>1
  <2> HIDE DEF Rulesets
  <2>2. QED
    BY <1>4, <1>6, <2>1
<1> HIDE DEF LetsIn
<1>7. LetsIn("Public") <=> public
  <2>1. LinesOf(InputChain("Public")) = CommonLines
        /\ Len(InputChain("Public")) \in Nat
    BY <1>2, ChainsAre
  <2>2. LetsIn("Public") <=> \E line \in CommonLines : Matches(line, packet)
    BY <1>5, <1>6, <2>1, LinesMatch
  <2>3. QED
    BY <1>5, <2>2, LinesMatch DEF CommonLines
<1>8. LetsIn("Custom") <=> public
  <2>1. LinesOf(InputChain("Custom")) = CommonLines
        /\ Len(InputChain("Custom")) \in Nat
    BY <1>2, ChainsAre
  <2>2. LetsIn("Custom") <=> \E line \in CommonLines : Matches(line, packet)
    BY <1>5, <1>6, <2>1, LinesMatch
  <2>3. QED
    BY <1>5, <2>2, LinesMatch DEF CommonLines
<1>9. LetsIn("Private") <=> public \/ packet.network # None
  <2>1. LinesOf(InputChain("Private"))
          = CommonLines \union {Network(n) : n \in Networks}
        /\ Len(InputChain("Private")) \in Nat
    BY <1>2, ChainsAre
  <2>2. LetsIn("Private")
          <=> \E line \in CommonLines \union {Network(n) : n \in Networks} :
                Matches(line, packet)
    BY <1>5, <1>6, <2>1, LinesMatch
  <2>3. \A n \in Networks : n # None
    BY ListsAre DEF NoValue
  <2>4. (\E n \in Networks : Matches(Network(n), packet)) <=> packet.network # None
    BY <1>5, <2>3, LinesMatch DEF IsPacket
  <2>5. QED
    BY <1>5, <2>2, <2>4, LinesMatch DEF CommonLines
<1>10. LetsIn("Development")
        <=> public \/ (packet.protocol = "tcp" /\ packet.dport \in DevelopmentPortSet)
  <2>1. LinesOf(InputChain("Development"))
          = CommonLines \union {Port(n) : n \in DevelopmentPortSet}
        /\ Len(InputChain("Development")) \in Nat
    BY <1>2, ChainsAre
  <2>2. LetsIn("Development")
          <=> \E line \in CommonLines \union {Port(n) : n \in DevelopmentPortSet} :
                Matches(line, packet)
    BY <1>5, <1>6, <2>1, LinesMatch
  <2>3. (\E n \in DevelopmentPortSet : Matches(Port(n), packet))
          <=> packet.protocol = "tcp" /\ packet.dport \in DevelopmentPortSet
    BY <1>5, LinesMatch DEF DevelopmentPortSet
  <2>4. QED
    BY <1>5, <2>2, <2>3, LinesMatch DEF CommonLines
<1>11. \A profile \in FirewallProfile :
         /\ Verdict(Rulesets(profile).forward, packet) = "drop"
         /\ Verdict(Rulesets(profile).output, packet) = "accept"
  BY <1>1, <1>3
<1>12. public \in BOOLEAN
  BY <1>5
<1>13. QED
  BY <1>7, <1>8, <1>9, <1>10, <1>11, <1>12 DEF ProfilesWiden, DevelopmentPortSet, LetsIn

-----------------------------------------------------------------------------
(***************************************************************************)
(* The modalias patterns. The search keeps one position, the earliest a    *)
(* segment can end at; the reference, Glob, keeps all positions a pattern  *)
(* can have led to. After each character of the pattern the second are     *)
(* what the first says of them, so that the two agree at the end.          *)
(***************************************************************************)
LEMMA PrefixIs ==
  ASSUME NEW S, NEW part \in Seq(S), NEW text \in Seq(S)
  PROVE  IsPrefix(part, text) <=> StandsAt(text, 0, part)
<1> DEFINE m == Len(part)
           n == Len(text)
           p == SubSeq(part, 1, m)
           t == SubSeq(text, 1, m)
<1>1. m \in Nat /\ n \in Nat /\ m \in 0..m
  OBVIOUS
<1> SUFFICES ASSUME m <= n
             PROVE  p = t <=> \A i \in 1..m : text[i] = part[i]
  <2>1. \A i \in 1..m : 0 + i = i
    BY <1>1
  <2>2. 0 + m = m
    BY <1>1
  <2>3. IsPrefix(part, text) <=> m <= n /\ p = t
    BY DEF IsPrefix
  <2>4. StandsAt(text, 0, part) <=> m <= n /\ \A i \in 1..m : text[i] = part[i]
    BY <2>1, <2>2 DEF StandsAt
  <2> HIDE DEF p, t, m, n
  <2>5. QED
    BY <2>3, <2>4
<1>2. m \in 0..n
  BY <1>1
<1>3. p \in Seq(S) /\ Len(p) = m /\ \A i \in 1..m : p[i] = part[i]
  BY <1>1, PartIs
<1>4. t \in Seq(S) /\ Len(t) = m /\ \A i \in 1..m : t[i] = text[i]
  BY <1>2, PartIs
<1> HIDE DEF p, t, m, n
<1>5. ASSUME p = t PROVE \A i \in 1..m : text[i] = part[i]
  BY <1>3, <1>4, <1>5
<1>6. ASSUME \A i \in 1..m : text[i] = part[i] PROVE p = t
  <2>1. \A i \in 1..Len(p) : p[i] = t[i]
    BY <1>3, <1>4, <1>6
  <2>2. QED
    BY <1>3, <1>4, <2>1, SameMembers
<1>7. QED
  BY <1>5, <1>6

LEMMA WithoutIs ==
  ASSUME NEW S, NEW text \in Seq(S), NEW k \in 0..Len(text)
  PROVE  Leaves(S, text, k, Without(text, k))
<1>1. /\ SubSeq(text, k + 1, Len(text)) \in Seq(S)
      /\ Len(SubSeq(text, k + 1, Len(text))) = Len(text) - k
      /\ \A i \in 1..(Len(text) - k) : SubSeq(text, k + 1, Len(text))[i] = text[k + i]
  BY PartIs
<1>2. QED
  BY <1>1 DEF Without, Leaves

LEMMA StandsInRest ==
  ASSUME NEW S, NEW text \in Seq(S), NEW part \in Seq(S), NEW k \in 0..Len(text), NEW j \in Nat
  PROVE  StandsAt(Without(text, k), j, part) <=> StandsAt(text, k + j, part)
<1> DEFINE rest == Without(text, k)
           n == Len(text)
           m == Len(part)
<1>1. n \in Nat /\ m \in Nat /\ k \in Nat
  OBVIOUS
<1>2. Leaves(S, text, k, rest)
  BY WithoutIs
<1> HIDE DEF rest
<1>3. Len(rest) = n - k /\ \A i \in 1..(n - k) : rest[i] = text[k + i]
  BY <1>2 DEF Leaves
<1> SUFFICES ASSUME k + j + m <= n
             PROVE  (\A i \in 1..m : rest[j + i] = part[i])
                      <=> \A i \in 1..m : text[(k + j) + i] = part[i]
  <2>1. j + m <= Len(rest) <=> (k + j) + m <= n
    BY <1>1, <1>3
  <2> HIDE DEF n, m
  <2>2. QED
    BY <2>1 DEF StandsAt, n, m, rest
<1>4. \A i \in 1..m : j + i \in 1..(n - k) /\ k + (j + i) = (k + j) + i
  BY <1>1
<1> HIDE DEF n, m
<1>5. \A i \in 1..m : rest[j + i] = text[(k + j) + i]
  BY <1>3, <1>4
<1>6. QED
  BY <1>5

LEMMA FindIs ==
  ASSUME NEW S, NEW text \in Seq(S), NEW part \in Seq(S)
  PROVE  FirstPlace(text, part, find_subslice(text, part))
<1> DEFINE n  == Len(text)
           m  == Len(part)
           at == {k \in 0..(n - m) : IsPrefix(part, Without(text, k))}
           r  == find_subslice(text, part)
<1>1. n \in Nat /\ m \in Nat
  OBVIOUS
<1>2. \A k \in 0..(n - m) : k \in 0..n /\ k + 0 = k
  BY <1>1
<1>3. ASSUME NEW k \in 0..n
      PROVE  IsPrefix(part, Without(text, k)) <=> StandsAt(text, k, part)
  <2>1. Without(text, k) \in Seq(S)
    BY WithoutIs DEF Leaves
  <2>2. IsPrefix(part, Without(text, k)) <=> StandsAt(Without(text, k), 0, part)
    BY <2>1, PrefixIs
  <2>3. StandsAt(Without(text, k), 0, part) <=> StandsAt(text, k + 0, part)
    BY StandsInRest
  <2>4. k + 0 = k
    BY <1>1
  <2>5. QED
    BY <2>2, <2>3, <2>4
<1>4. \A k \in 0..n : StandsAt(text, k, part) => k \in 0..(n - m)
  BY <1>1 DEF StandsAt
<1>5. at = {k \in 0..n : StandsAt(text, k, part)}
  <2> HIDE DEF n, m
  <2>1. QED
    BY <1>2, <1>3, <1>4
<1>6. r = IF at = {} THEN -1 ELSE CHOOSE k \in at : \A j \in at : k <= j
  BY DEF find_subslice
<1> HIDE DEF at, r
<1>7. CASE at = {}
  BY <1>5, <1>6, <1>7 DEF FirstPlace, r
<1>8. CASE at # {}
  <2>1. \E k \in at : \A j \in at : k <= j
    <3>1. at \in SUBSET Nat
      BY <1>1, <1>5
    <3>2. QED
      BY <1>8, <3>1, SmallestNumber
  <2>2. r \in at /\ \A j \in at : r <= j
    BY <1>6, <1>8, <2>1
  <2>3. QED
    BY <1>5, <2>2 DEF FirstPlace, r
<1>9. QED
  BY <1>7, <1>8

\* A part ends a text.
LEMMA SuffixIs ==
  ASSUME NEW S, NEW part \in Seq(S), NEW text \in Seq(S)
  PROVE  IsSuffix(part, text)
           <=> Len(part) <= Len(text) /\ StandsAt(text, Len(text) - Len(part), part)
<1> DEFINE m == Len(part)
           n == Len(text)
           p == Reverse(part)
           t == Reverse(text)
<1>1. m \in Nat /\ n \in Nat
  OBVIOUS
<1>2. p \in Seq(S) /\ Len(p) = m /\ \A i \in 1..m : p[i] = part[(m - i) + 1]
  <2>1. p = [i \in 1..m |-> part[(m - i) + 1]]
    BY DEF Reverse
  <2>2. p \in Seq(S)
    BY ReverseIs
  <2> HIDE DEF p, m
  <2>3. QED
    BY <1>1, <2>1, <2>2
<1>3. t \in Seq(S) /\ Len(t) = n /\ \A i \in 1..n : t[i] = text[(n - i) + 1]
  <2>1. t = [i \in 1..n |-> text[(n - i) + 1]]
    BY DEF Reverse
  <2>2. t \in Seq(S)
    BY ReverseIs
  <2> HIDE DEF t, n
  <2>3. QED
    BY <1>1, <2>1, <2>2
<1>4. IsSuffix(part, text) <=> StandsAt(t, 0, p)
  BY <1>2, <1>3, PrefixIs DEF IsSuffix
<1> HIDE DEF p, t
<1>5. StandsAt(t, 0, p) <=> m <= n /\ \A i \in 1..m : t[0 + i] = p[i]
  BY <1>1, <1>2, <1>3 DEF StandsAt
<1>6. ASSUME m <= n
      PROVE  (\A i \in 1..m : t[0 + i] = p[i]) <=> \A i \in 1..m : text[(n - m) + i] = part[i]
  <2>1. \A i \in 1..m : /\ i \in 1..n /\ 0 + i = i /\ (m - i) + 1 \in 1..m
                        /\ (n - i) + 1 = (n - m) + ((m - i) + 1)
                        /\ (m - ((m - i) + 1)) + 1 = i
    BY <1>1, <1>6
  <2> HIDE DEF m, n
  <2>2. \A i \in 1..m : t[0 + i] = text[(n - m) + ((m - i) + 1)] /\ p[i] = part[(m - i) + 1]
    <3>1. ASSUME NEW i \in 1..m
          PROVE  t[0 + i] = text[(n - m) + ((m - i) + 1)] /\ p[i] = part[(m - i) + 1]
      <4>1. i \in 1..n /\ 0 + i = i /\ (n - i) + 1 = (n - m) + ((m - i) + 1)
        BY <2>1
      <4>2. t[i] = text[(n - i) + 1] /\ p[i] = part[(m - i) + 1]
        BY <1>2, <1>3, <4>1
      <4>3. QED
        BY <4>1, <4>2
    <3>2. QED
      BY <3>1
  <2>3. ASSUME \A i \in 1..m : t[0 + i] = p[i], NEW j \in 1..m
        PROVE  text[(n - m) + j] = part[j]
    <3> DEFINE i == (m - j) + 1
    <3>1. i \in 1..m /\ (m - i) + 1 = j
      BY <2>1
    <3> HIDE DEF i
    <3>2. QED
      BY <2>2, <2>3, <3>1
  <2>4. QED
    BY <2>1, <2>2, <2>3
<1>7. StandsAt(text, n - m, part)
        <=> (n - m) + m <= n /\ \A i \in 1..m : text[(n - m) + i] = part[i]
  BY DEF StandsAt
<1>8. (n - m) + m <= n
  BY <1>1
<1> HIDE DEF m, n
<1>9. QED
  BY <1>4, <1>5, <1>6, <1>7, <1>8 DEF m, n

LEMMA SplitGives ==
  ASSUME NEW S, NEW pieces \in Seq(Seq(S)) \ {<< >>}, NEW c \in S, NEW sep
  PROVE  SplitHas(S, pieces, c, sep, Split(pieces, c, sep))
<1> DEFINE n == Len(pieces)
           Q == Seq(S)
           u == Split(pieces, c, sep)
<1>1. n \in Nat /\ n \in 1..n /\ u \in Seq(Q) /\ u # << >>
  BY SplitKeeps
<1>2. << >> \in Q
  OBVIOUS
<1>3. CASE c = sep
  <2>1. u = Append(pieces, << >>)
    BY <1>3 DEF Split
  <2> HIDE DEF Q, u
  <2>2. pieces \in Seq(Q)
    BY DEF Q
  <2>3. Len(u) = n + 1 /\ u[n + 1] = << >> /\ \A i \in 1..n : u[i] = pieces[i]
    BY <1>2, <2>1, <2>2, AppendIs
  <2>4. QED
    BY <1>1, <1>3, <2>3 DEF SplitHas, Q, u
<1>4. CASE c # sep
  <2>1. u = [pieces EXCEPT ![n] = Append(@, c)]
    BY <1>4 DEF Split
  <2> HIDE DEF Q, u
  <2>2. pieces \in [1..n -> Q]
    BY DEF Q
  <2>3. u[n] = Append(pieces[n], c) /\ \A i \in 1..n : i # n => u[i] = pieces[i]
    BY <1>1, <2>1, <2>2
  <2>4. DOMAIN u = 1..n
    BY <2>1, <2>2
  <2>5. Len(u) = n
    BY <1>1, <2>4
  <2>6. QED
    BY <1>1, <1>4, <2>3, <2>5 DEF SplitHas, Q, u
<1>5. QED
  BY <1>3, <1>4

LEMMA SplitGrows ==
  ASSUME NEW S, NEW s \in Seq(S), NEW sep, NEW g, SplitSteps(S, s, sep, g),
         NEW k \in 0..Len(s)
  PROVE  Grown(g[k], SplitBy(s, sep))
<1> DEFINE n == Len(s)
           G == {l \in 0..n : l >= k => Grown(g[k], g[l])}
<1>1. n \in Nat /\ k \in Int /\ \A i \in 1..n : s[i] \in S
  OBVIOUS
<1>2. \A l \in 0..n : g[l] \in Seq(Seq(S)) \ {<< >>} /\ Len(g[l]) \in Nat
  <2> DEFINE Q == Seq(S)
             A == Seq(Q) \ {<< >>}
  <2>1. \A u \in A : Len(u) \in Nat
    <3> HIDE DEF Q
    <3>1. QED
      OBVIOUS
  <2>2. g \in [0..n -> A]
    BY DEF SplitSteps
  <2> HIDE DEF A, n
  <2>3. \A l \in 0..n : g[l] \in A
    BY <2>2
  <2>4. QED
    BY <2>1, <2>3 DEF A
<1>3. Grown(g[k], g[k])
  BY <1>2 DEF Grown
<1>4. 0 \in G
  <2>1. ASSUME 0 >= k PROVE k = 0
    BY <2>1
  <2>2. QED
    BY <1>1, <1>3, <2>1
<1>5. ASSUME NEW l \in 1..n, l - 1 \in G PROVE l \in G
  <2> DEFINE p == g[l - 1]  u == g[l]
  <2>1. l \in 0..n /\ l - 1 \in 0..n /\ s[l] \in S
    BY <1>1
  <2>2. SplitHas(S, p, s[l], sep, u)
    <3>1. u = Split(p, s[l], sep)
      BY DEF SplitSteps
    <3>2. p \in Seq(Seq(S)) \ {<< >>}
      BY <1>2, <2>1
    <3> HIDE DEF p, u
    <3>3. QED
      BY <2>1, <3>1, <3>2, SplitGives
  <2>3. Len(p) <= Len(u) /\ \A i \in 1..(Len(p) - 1) : u[i] = p[i]
    <3>1. Len(p) \in Nat /\ Len(u) \in Nat
      BY <1>2, <2>1
    <3>2. \A i \in 1..(Len(p) - 1) : i \in 1..Len(p) /\ i # Len(p)
      BY <3>1
    <3> HIDE DEF p, u
    <3>3. CASE s[l] = sep
      <4>1. Len(u) = Len(p) + 1 /\ \A i \in 1..Len(p) : u[i] = p[i]
        BY <2>2, <3>3 DEF SplitHas
      <4>2. QED
        BY <3>1, <3>2, <4>1
    <3>4. CASE s[l] # sep
      <4>1. Len(u) = Len(p) /\ \A i \in 1..Len(p) : i # Len(u) => u[i] = p[i]
        BY <2>2, <3>4 DEF SplitHas
      <4>2. \A i \in 1..(Len(p) - 1) : u[i] = p[i]
        BY <3>2, <4>1, Zenon
      <4>3. Len(p) <= Len(u)
        BY <3>1, <4>1
      <4>4. QED
        BY <4>2, <4>3
    <3>5. QED
      BY <3>3, <3>4
  <2>4. ASSUME l >= k PROVE Grown(g[k], u)
    <3>1. CASE l = k
      BY <1>3, <3>1
    <3>2. CASE l # k
      <4>1. Grown(g[k], p)
        BY <1>1, <1>5, <2>4, <3>2
      <4>2. Len(p) \in Nat /\ Len(u) \in Nat /\ Len(g[k]) \in Nat
        BY <1>2, <2>1
      <4> HIDE DEF p, u
      <4>3. \A i \in 1..(Len(g[k]) - 1) : i \in 1..(Len(p) - 1)
        BY <4>1, <4>2 DEF Grown
      <4>4. QED
        BY <2>3, <4>1, <4>2, <4>3 DEF Grown
    <3>3. QED
      BY <3>1, <3>2
  <2>5. QED
    BY <2>1, <2>4
<1>6. n \in G
  <2> HIDE DEF G
  <2>1. \A l \in 1..n : l - 1 \in G => l \in G
    BY <1>5
  <2>2. \A l \in 0..n : l \in G
    BY <1>1, <1>4, <2>1, UpTo
  <2>3. QED
    BY <1>1, <2>2
<1>7. n >= k /\ SplitBy(s, sep) = g[n]
  BY <1>1 DEF SplitSteps
<1>8. QED
  BY <1>6, <1>7

LEMMA EndsLonger ==
  ASSUME NEW S, NEW text \in Seq(S), NEW piece \in Seq(S), NEW c \in S,
         NEW pos \in Offsets(text), NEW first \in BOOLEAN, NEW j \in 0..Len(text)
  PROVE  Ends(text, first, pos, Append(piece, c), j)
           <=> j \in 1..Len(text) /\ Ends(text, first, pos, piece, j - 1) /\ text[j] = c
<1> DEFINE n == Len(text)
           m == Len(piece)
           k == j - (m + 1)
           longer == Append(piece, c)
<1>1. n \in Nat /\ m \in Nat /\ j \in Nat /\ j <= n /\ pos \in Int /\ pos >= -1
  BY DEF Offsets
<1>2. Len(longer) = m + 1 /\ longer[m + 1] = c /\ \A i \in 1..m : longer[i] = piece[i]
  BY AppendIs
<1> HIDE DEF longer
<1>3. (j - 1) - m = k /\ k + (m + 1) = j /\ k + m = j - 1
  BY <1>1
<1>4. StandsAt(text, k, longer) <=> StandsAt(text, k, piece) /\ text[j] = c
  <2>1. \A i \in 1..(m + 1) : i \in 1..m \/ i = m + 1
    BY <1>1
  <2>2. \A i \in 1..m : i \in 1..(m + 1)
    BY <1>1
  <2>3. m + 1 \in 1..(m + 1) /\ j <= n /\ j - 1 <= n
    BY <1>1
  <2>4. StandsAt(text, k, longer)
          <=> j <= n /\ \A i \in 1..(m + 1) : text[k + i] = longer[i]
    BY <1>2, <1>3 DEF StandsAt
  <2>5. StandsAt(text, k, piece) <=> j - 1 <= n /\ \A i \in 1..m : text[k + i] = piece[i]
    BY <1>3 DEF StandsAt
  <2> HIDE DEF k, m, n
  <2>6. QED
    BY <1>2, <1>3, <2>1, <2>2, <2>3, <2>4, <2>5
<1>5. pos # -1 /\ pos <= k => j \in 1..n
  BY <1>1
<1>6. first => (j = m + 1 <=> j - 1 = m)
  BY <1>1
<1>7. Ends(text, first, pos, longer, j)
        <=> /\ pos # -1 /\ pos <= k /\ (first => j = m + 1)
            /\ StandsAt(text, k, longer)
  BY <1>2 DEF Ends
<1>8. Ends(text, first, pos, piece, j - 1)
        <=> /\ pos # -1 /\ pos <= k /\ (first => j - 1 = m)
            /\ StandsAt(text, k, piece)
  BY <1>3 DEF Ends
<1> HIDE DEF k, m
<1>9. QED
  BY <1>4, <1>5, <1>6, <1>7, <1>8 DEF longer

LEMMA NothingStands ==
  ASSUME NEW S, NEW text \in Seq(S), NEW j \in 0..Len(text)
  PROVE  StandsAt(text, j, << >>) /\ Len(<< >>) = 0
<1>1. Len(<< >>) = 0 /\ j + 0 <= Len(text) /\ 1..0 = {}
  OBVIOUS
<1>2. QED
  BY <1>1 DEF StandsAt

LEMMA SegmentPasses ==
  ASSUME NEW S, NEW text \in Seq(S), NEW segments \in Seq(Seq(S)), NEW i \in 1..Len(segments),
         i # Len(segments), NEW pos \in Offsets(text), i = 1 => pos = 0
  PROVE  Passes(text, i = 1, pos, segments[i], MatchSegment(text, segments, pos, i))
<1> DEFINE n == Len(text)
           piece == segments[i]
           m == Len(piece)
           rest == Without(text, pos)
           middle == find_subslice(rest, piece)
           r == MatchSegment(text, segments, pos, i)
           E(k) == Ends(text, i = 1, pos, piece, k)
<1>1. n \in Nat /\ piece \in Seq(S) /\ m \in Nat
  OBVIOUS
<1>2. pos \in Int /\ (pos = -1 \/ pos \in 0..n)
  BY DEF Offsets
<1>3. r = IF pos = -1 \/ piece = << >> THEN pos
          ELSE IF i = 1 THEN (IF IsPrefix(piece, text) THEN m ELSE -1)
          ELSE IF middle = -1 THEN -1 ELSE pos + middle + m
  BY DEF MatchSegment
<1>4. SUFFICES /\ r \in Offsets(text)
               /\ \A j \in 0..n : r # -1 /\ r <= j <=> \E k \in 0..n : k <= j /\ E(k)
  BY DEF Passes
<1> HIDE DEF r, middle, piece
<1>5. CASE pos = -1
  <2>1. r = -1
    BY <1>3, <1>5
  <2>2. \A k \in 0..n : ~E(k)
    BY <1>5 DEF Ends
  <2>3. QED
    BY <2>1, <2>2 DEF Offsets
<1>6. CASE pos # -1 /\ piece = << >>
  <2>1. r = pos /\ pos \in 0..n
    BY <1>2, <1>3, <1>6
  <2>2. ASSUME NEW k \in 0..n PROVE E(k) <=> pos <= k /\ (i = 1 => k = 0)
    <3>1. StandsAt(text, k, piece) /\ m = 0 /\ k - 0 = k
      BY <1>6, NothingStands
    <3>2. QED
      BY <1>6, <3>1 DEF Ends
  <2>3. ASSUME NEW j \in 0..n PROVE pos <= j <=> \E k \in 0..n : k <= j /\ E(k)
    <3>1. CASE i = 1
      <4>1. 0 \in 0..n /\ 0 <= j
        BY <1>1
      <4>2. QED
        BY <2>2, <3>1, <4>1
    <3>2. CASE i # 1
      <4>1. j <= j
        OBVIOUS
      <4>2. \A k \in 0..n : pos <= k /\ k <= j => pos <= j
        BY <1>2
      <4>3. QED
        BY <2>2, <3>2, <4>1, <4>2
    <3>3. QED
      BY <3>1, <3>2
  <2>4. QED
    BY <1>6, <2>1, <2>3 DEF Offsets
<1>7. CASE pos # -1 /\ piece # << >> /\ i = 1
  <2>1. r = IF StandsAt(text, 0, piece) THEN m ELSE -1
    BY <1>1, <1>3, <1>7, PrefixIs
  <2>2. StandsAt(text, 0, piece) => m \in 0..n
    BY <1>1 DEF StandsAt
  <2>3. ASSUME NEW k \in 0..n PROVE E(k) <=> k = m /\ StandsAt(text, 0, piece)
    <3>1. m - m = 0 /\ 0 <= 0
      BY <1>1
    <3>2. E(k) <=> 0 <= k - m /\ k = m /\ StandsAt(text, k - m, piece)
      BY <1>7 DEF Ends
    <3>3. QED
      BY <3>1, <3>2
  <2>4. m # -1
    BY <1>1
  <2>5. QED
    BY <2>1, <2>2, <2>3, <2>4 DEF Offsets
<1>8. CASE pos # -1 /\ piece # << >> /\ i # 1
  <2>1. pos \in 0..n /\ rest \in Seq(S) /\ Len(rest) = n - pos
    BY <1>2, <1>8, WithoutIs DEF Leaves
  <2>2. FirstPlace(rest, piece, middle)
    BY <1>1, <2>1, FindIs DEF middle
  <2>3. \A j \in Nat : StandsAt(rest, j, piece) <=> StandsAt(text, pos + j, piece)
    BY <1>1, <2>1, StandsInRest
  <2> HIDE DEF rest
  <2>4. r = IF middle = -1 THEN -1 ELSE pos + middle + m
    BY <1>3, <1>8
  <2>5. ASSUME NEW k \in 0..n, E(k)
        PROVE  /\ (k - m) - pos \in 0..(n - pos) /\ StandsAt(rest, (k - m) - pos, piece)
    <3>1. pos <= k - m /\ StandsAt(text, k - m, piece)
      BY <2>5 DEF Ends
    <3>2. (k - m) - pos \in 0..(n - pos) /\ (k - m) - pos \in Nat /\ pos + ((k - m) - pos) = k - m
      BY <1>1, <2>1, <3>1
    <3>3. QED
      BY <2>3, <3>1, <3>2
  <2>6. CASE middle = -1
    <3>1. \A k \in 0..n : ~E(k)
      BY <2>1, <2>2, <2>5, <2>6 DEF FirstPlace
    <3>2. QED
      BY <2>4, <2>6, <3>1 DEF Offsets
  <2>7. CASE middle # -1
    <3>1. /\ middle \in 0..(n - pos) /\ StandsAt(rest, middle, piece)
          /\ \A k \in 0..(n - pos) : StandsAt(rest, k, piece) => middle <= k
      BY <2>1, <2>2, <2>7 DEF FirstPlace
    <3>2. middle \in Nat /\ r = (pos + middle) + m
      BY <2>1, <2>4, <2>7, <3>1
    <3>3. StandsAt(text, pos + middle, piece)
      BY <2>3, <3>1, <3>2
    <3>4. (pos + middle) + m <= n
      BY <3>3 DEF StandsAt
    <3>5. r \in 0..n /\ r # -1 /\ r - m = pos + middle /\ pos <= r - m
      BY <1>1, <2>1, <3>2, <3>4
    <3>6. E(r)
      BY <1>8, <3>3, <3>5 DEF Ends
    <3>7. ASSUME NEW k \in 0..n, E(k) PROVE r <= k
      <4>1. middle <= (k - m) - pos
        BY <2>5, <3>1, <3>7
      <4>2. QED
        BY <1>1, <2>1, <3>2, <4>1
    <3>8. \A j, k \in 0..n : r <= k /\ k <= j => r <= j
      BY <1>1, <3>5
    <3> HIDE DEF n, E
    <3>9. QED
      BY <3>5, <3>6, <3>7, <3>8 DEF Offsets, n
  <2>8. QED
    BY <2>6, <2>7
<1>9. QED
  BY <1>5, <1>6, <1>7, <1>8

LEMMA LastSegmentEnds ==
  ASSUME NEW S, NEW text \in Seq(S), NEW segments \in Seq(Seq(S)), segments # << >>,
         Len(segments) # 1, NEW pos \in Offsets(text)
  PROVE  MatchSegment(text, segments, pos, Len(segments)) # -1
           <=> Ends(text, FALSE, pos, segments[Len(segments)], Len(text))
<1> DEFINE n == Len(text)
           i == Len(segments)
           piece == segments[i]
           m == Len(piece)
           r == MatchSegment(text, segments, pos, i)
<1>1. i \in Nat /\ i \in 1..i /\ n \in Nat /\ n \in 0..n
  OBVIOUS
<1>2. piece \in Seq(S) /\ m \in Nat
  BY <1>1
<1>3. pos \in Int /\ (pos = -1 \/ pos \in 0..n)
  BY DEF Offsets
<1>4. r = IF pos = -1 \/ piece = << >> THEN pos
          ELSE IF IsSuffix(piece, text) /\ n - m >= pos THEN pos ELSE -1
  BY DEF MatchSegment
<1> HIDE DEF r, piece, i
<1>5. CASE pos = -1
  BY <1>4, <1>5 DEF Ends, r, piece, i
<1>6. CASE pos # -1 /\ piece = << >>
  <2>1. StandsAt(text, n, piece) /\ m = 0 /\ n - 0 = n /\ pos <= n
    BY <1>1, <1>3, <1>6, NothingStands
  <2>2. Ends(text, FALSE, pos, piece, n)
    BY <1>6, <2>1 DEF Ends
  <2>3. QED
    BY <1>4, <1>6, <2>2 DEF r, piece, i
<1>7. CASE pos # -1 /\ piece # << >>
  <2>1. IsSuffix(piece, text) <=> m <= n /\ StandsAt(text, n - m, piece)
    BY <1>2, SuffixIs
  <2>2. pos <= n - m => m <= n
    BY <1>1, <1>2, <1>3, <1>7
  <2>3. n - m >= pos <=> pos <= n - m
    BY <1>1, <1>2, <1>3
  <2>4. Ends(text, FALSE, pos, piece, n) <=> pos <= n - m /\ StandsAt(text, n - m, piece)
    BY <1>7 DEF Ends
  <2>5. QED
    BY <1>4, <1>7, <2>1, <2>2, <2>3, <2>4 DEF r, piece, i
<1>8. QED
  BY <1>5, <1>6, <1>7

LEMMA GlobbingIs ==
  ASSUME NEW text, NEW pattern
  PROVE  Glob(pattern, text)
           = (Len(text) \in (CHOOSE it : Globbing(text, pattern, it))[DOMAIN pattern])
BY DEF Glob, FoldLeft, MapThenFoldSet, Globbing

LEMMA GlobRuns ==
  ASSUME NEW S, NEW text \in Seq(S), NEW pattern \in Seq(S)
  PROVE  Globs(text, pattern)
<1> DEFINE n == Len(pattern)
           A == SUBSET (0..Len(text))
           base == {0}
           f == [p \in A \X S |-> GlobStep(text, p[1], p[2])]
<1>1. n \in Nat /\ DOMAIN pattern = 1..n /\ \A i \in 1..n : pattern[i] \in S
  OBVIOUS
<1>2. Len(text) \in Nat
  OBVIOUS
<1>3. base \in A
  BY <1>2
<1>4. \A a \in A, x \in S : GlobStep(text, a, x) \in A
  <2>1. 1..Len(text) \subseteq 0..Len(text)
    BY <1>2
  <2>2. QED
    BY <2>1 DEF GlobStep
<1> HIDE DEF A
<1>5. f \in [A \X S -> A] /\ \A a \in A, x \in S : f[<<a, x>>] = GlobStep(text, a, x)
  BY <1>4
<1> HIDE DEF f, base
<1>6. PICK it \in [SUBSET (1..n) -> A] : RunsOver(it, f, base, pattern, n)
  <2>1. Reaches(A, f, base, pattern, n)
    BY <1>3, <1>5, RunExists
  <2> HIDE DEF n
  <2>2. QED
    BY <2>1 DEF Reaches
<1> HIDE DEF n
<1>7. Globbing(text, pattern, it)
  <2>1. ASSUME NEW T \in SUBSET (1..n)
        PROVE  it[T] = IF T = {} THEN base ELSE GlobStep(text, it[T \ {Max(T)}], pattern[Max(T)])
    <3>1. it[T] = IF T = {} THEN base ELSE f[<<it[T \ {Max(T)}], pattern[Max(T)]>>]
      BY <1>6 DEF RunsOver
    <3>2. CASE T # {}
      <4>1. Max(T) \in 1..n /\ T \ {Max(T)} \in SUBSET (1..n)
        BY <1>1, <3>2, GreatestNumber
      <4>2. it[T \ {Max(T)}] \in A /\ pattern[Max(T)] \in S
        BY <1>1, <1>6, <4>1
      <4>3. QED
        BY <1>5, <3>1, <3>2, <4>2
    <3>3. QED
      BY <3>1, <3>2
  <2>2. it = [T \in SUBSET (1..n) |->
                IF T = {} THEN base ELSE GlobStep(text, it[T \ {Max(T)}], pattern[Max(T)])]
    BY <2>1
  <2>3. QED
    BY <1>1, <2>2 DEF Globbing, base
<1> DEFINE made == CHOOSE g : Globbing(text, pattern, g)
<1>8. Globbing(text, pattern, made)
  BY <1>7
<1> HIDE DEF made
<1>9. RunsWithin(made, A, f, base, pattern)
  <2>1. ASSUME NEW T \in SUBSET (1..n), T # {}, made[T \ {Max(T)}] \in A
        PROVE  made[T] = f[<<made[T \ {Max(T)}], pattern[Max(T)]>>]
    <3>1. Max(T) \in 1..n
      BY <1>1, <2>1, GreatestNumber
    <3>2. pattern[Max(T)] \in S
      BY <1>1, <3>1
    <3>3. made[T] = GlobStep(text, made[T \ {Max(T)}], pattern[Max(T)])
      BY <1>1, <1>8, <2>1 DEF Globbing
    <3>4. QED
      BY <1>5, <2>1, <3>2, <3>3
  <2>2. made[{}] = base
    BY <1>8 DEF Globbing, base
  <2>3. QED
    BY <2>1, <2>2 DEF RunsWithin, n
<1> DEFINE g == [k \in 0..n |-> made[1..k]]
<1> HIDE DEF n
<1>10. Steps(A, f, base, pattern, g)
  <2>1. g = [k \in 0..Len(pattern) |-> made[1..k]]
    BY DEF n
  <2> HIDE DEF g
  <2>2. QED
    BY <1>3, <1>5, <1>9, <2>1, StepsAre
<1>11. g[n] = made[1..n]
  BY <1>1
<1> HIDE DEF g
<1>12. Glob(pattern, text) <=> Len(text) \in g[n]
  BY <1>1, <1>11, GlobbingIs DEF made
<1>13. ASSUME NEW k \in 1..n PROVE g[k] = GlobStep(text, g[k - 1], pattern[k])
  <2>1. k - 1 \in 0..n /\ pattern[k] \in S
    BY <1>1
  <2>2. QED
    BY <1>5, <1>10, <2>1 DEF Steps, n
<1>14. GlobSteps(text, pattern, g)
  BY <1>10, <1>12, <1>13 DEF GlobSteps, Steps, A, base, n
<1>15. QED
  BY <1>14 DEF Globs

LEMMA SearchingIs ==
  ASSUME NEW text, NEW pattern, pattern # << >>
  PROVE  LET segments == SplitBy(pattern, "*")
             list == [i \in DOMAIN segments |-> i]
         IN  modalias_pattern_match(pattern, text)
               <=> (CHOOSE it : Searching(text, segments, list, it))[DOMAIN list] # -1
BY DEF modalias_pattern_match, FoldLeft, MapThenFoldSet, Searching

LEMMA SegmentKeeps ==
  ASSUME NEW S, NEW text \in Seq(S), NEW segments \in Seq(Seq(S)), NEW i \in 1..Len(segments),
         NEW pos \in Offsets(text)
  PROVE  MatchSegment(text, segments, pos, i) \in Offsets(text)
<1> DEFINE n == Len(text)
           piece == segments[i]
           m == Len(piece)
           rest == Without(text, pos)
           middle == find_subslice(rest, piece)
           r == MatchSegment(text, segments, pos, i)
<1>1. n \in Nat /\ piece \in Seq(S) /\ m \in Nat
  OBVIOUS
<1>2. pos \in Int /\ (pos = -1 \/ pos \in 0..n)
  BY DEF Offsets
<1>3. \/ r \in {pos, -1}
      \/ r = m /\ IsPrefix(piece, text)
      \/ pos # -1 /\ middle # -1 /\ r = pos + middle + m
  BY DEF MatchSegment
<1> HIDE DEF r, middle, piece
<1>4. ASSUME IsPrefix(piece, text) PROVE m \in 0..n
  <2>1. StandsAt(text, 0, piece)
    BY <1>1, <1>4, PrefixIs
  <2>2. QED
    BY <1>1, <2>1 DEF StandsAt
<1>5. ASSUME pos # -1, middle # -1 PROVE pos + middle + m \in 0..n
  <2>1. pos \in 0..n /\ rest \in Seq(S) /\ Len(rest) = n - pos
    BY <1>2, <1>5, WithoutIs DEF Leaves
  <2>2. FirstPlace(rest, piece, middle)
    BY <1>1, <2>1, FindIs DEF middle
  <2> HIDE DEF rest
  <2>3. middle \in 0..(n - pos) /\ middle + m <= n - pos
    BY <1>5, <2>1, <2>2 DEF FirstPlace, StandsAt
  <2>4. QED
    BY <1>1, <2>1, <2>3
<1>6. QED
  BY <1>3, <1>4, <1>5 DEF Offsets, r

LEMMA SearchRuns ==
  ASSUME NEW S, NEW text \in Seq(S), NEW pattern \in Seq(S), pattern # << >>
  PROVE  Searches(text, pattern, SplitBy(pattern, "*"))
<1> DEFINE segments == SplitBy(pattern, "*")
           n == Len(segments)
           A == Offsets(text)
           E == 1..n
           list == [i \in DOMAIN segments |-> i]
           base == 0
           f == [p \in A \X E |-> MatchSegment(text, segments, p[1], p[2])]
<1>1. segments \in Seq(Seq(S)) /\ segments # << >>
  BY SplitIsTyped
<1>2. modalias_pattern_match(pattern, text)
        <=> (CHOOSE it : Searching(text, segments, list, it))[DOMAIN list] # -1
  BY SearchingIs, Zenon
<1> HIDE DEF segments
<1>3. n \in Nat /\ DOMAIN segments = E
  BY <1>1
<1>4. list \in Seq(E) /\ DOMAIN list = E /\ Len(list) = n /\ \A i \in E : list[i] = i
  <2>1. list = [i \in E |-> i]
    BY <1>3
  <2> HIDE DEF list
  <2>2. list \in [1..n -> E]
    BY <2>1
  <2>3. list \in Seq(E)
    BY <1>3, <2>2
  <2>4. QED
    BY <1>3, <2>1, <2>3
<1> HIDE DEF list
<1>5. base \in A
  <2>1. Len(text) \in Nat
    OBVIOUS
  <2>2. QED
    BY <2>1 DEF Offsets
<1>6. \A a \in A, x \in E : MatchSegment(text, segments, a, x) \in A
  BY <1>1, SegmentKeeps
<1> HIDE DEF A, E
<1>7. f \in [A \X E -> A]
      /\ \A a \in A, x \in E : f[<<a, x>>] = MatchSegment(text, segments, a, x)
  BY <1>6
<1> HIDE DEF f, base
<1>8. PICK it \in [SUBSET (1..n) -> A] : RunsOver(it, f, base, list, n)
  <2>1. Reaches(A, f, base, list, n)
    BY <1>4, <1>5, <1>7, RunExists
  <2> HIDE DEF n
  <2>2. QED
    BY <2>1 DEF Reaches
<1> HIDE DEF n
<1>9. \A i \in 1..n : list[i] \in E
  BY <1>4 DEF E
<1>10. DOMAIN list = 1..n
  BY <1>4 DEF E
<1>11. Searching(text, segments, list, it)
  <2>1. ASSUME NEW T \in SUBSET (1..n)
        PROVE  it[T] = IF T = {} THEN base
                       ELSE MatchSegment(text, segments, it[T \ {Max(T)}], list[Max(T)])
    <3>1. it[T] = IF T = {} THEN base ELSE f[<<it[T \ {Max(T)}], list[Max(T)]>>]
      BY <1>8 DEF RunsOver
    <3>2. CASE T # {}
      <4>1. Max(T) \in 1..n /\ T \ {Max(T)} \in SUBSET (1..n)
        BY <1>3, <3>2, GreatestNumber
      <4>2. it[T \ {Max(T)}] \in A /\ list[Max(T)] \in E
        BY <1>8, <1>9, <4>1
      <4>3. QED
        BY <1>7, <3>1, <3>2, <4>2
    <3>3. QED
      BY <3>1, <3>2
  <2>2. it = [T \in SUBSET (1..n) |->
                IF T = {} THEN base
                ELSE MatchSegment(text, segments, it[T \ {Max(T)}], list[Max(T)])]
    BY <2>1
  <2>3. QED
    BY <1>10, <2>2 DEF Searching, base
<1> DEFINE made == CHOOSE g : Searching(text, segments, list, g)
<1>12. Searching(text, segments, list, made)
  BY <1>11
<1>13. modalias_pattern_match(pattern, text) <=> made[1..n] # -1
  BY <1>2, <1>10
<1> HIDE DEF made
<1>14. RunsWithin(made, A, f, base, list)
  <2>1. ASSUME NEW T \in SUBSET (1..n), T # {}, made[T \ {Max(T)}] \in A
        PROVE  made[T] = f[<<made[T \ {Max(T)}], list[Max(T)]>>]
    <3>1. Max(T) \in 1..n
      BY <1>3, <2>1, GreatestNumber
    <3>2. list[Max(T)] \in E
      BY <1>9, <3>1
    <3>3. made[T] = MatchSegment(text, segments, made[T \ {Max(T)}], list[Max(T)])
      BY <1>10, <1>12, <2>1 DEF Searching
    <3>4. QED
      BY <1>7, <2>1, <3>2, <3>3
  <2>2. made[{}] = base
    BY <1>12 DEF Searching, base
  <2>3. QED
    BY <1>4, <2>1, <2>2 DEF RunsWithin
<1> DEFINE g == [k \in 0..n |-> made[1..k]]
<1>15. Steps(A, f, base, list, g)
  <2>1. g = [k \in 0..Len(list) |-> made[1..k]]
    BY <1>4
  <2> HIDE DEF g
  <2>2. QED
    BY <1>4, <1>5, <1>7, <1>14, <2>1, StepsAre
<1>16. g[n] = made[1..n]
  BY <1>3
<1> HIDE DEF g
<1>17. ASSUME NEW k \in 1..n PROVE g[k] = MatchSegment(text, segments, g[k - 1], k)
  <2>1. k - 1 \in 0..n /\ list[k] = k /\ k \in E
    BY <1>3, <1>4 DEF E
  <2>2. g[k] = f[<<g[k - 1], list[k]>>] /\ g[k - 1] \in A
    BY <1>4, <1>15, <2>1 DEF Steps
  <2>3. QED
    BY <1>7, <2>1, <2>2
<1>18. g \in [0..n -> A] /\ g[0] = 0
  BY <1>4, <1>15 DEF Steps, base
<1>19. SearchSteps(text, pattern, segments, g)
  BY <1>13, <1>16, <1>17, <1>18 DEF SearchSteps, A, n
<1>20. QED
  BY <1>19 DEF Searches, segments

LEMMA GlobFollows ==
  ASSUME NEW S, "*" \in S, NEW text \in Seq(S), NEW pattern \in Seq(S), pattern # << >>,
         NEW h, SplitSteps(S, pattern, "*", h),
         NEW P, SearchSteps(text, pattern, SplitBy(pattern, "*"), P),
         NEW g, GlobSteps(text, pattern, g)
  PROVE  \A k \in 0..Len(pattern) : LedTo(text, h[k], P, g[k])
<1> DEFINE N == Len(pattern)
           n == Len(text)
           segments == SplitBy(pattern, "*")
           m == Len(segments)
           G == {k \in 0..N : LedTo(text, h[k], P, g[k])}
<1>1. N \in Nat /\ n \in Nat /\ \A i \in 1..N : pattern[i] \in S
  OBVIOUS
<1>2. segments \in Seq(Seq(S)) /\ segments # << >>
  BY SplitIsTyped
<1>3. \A k \in 0..N : h[k] \in Seq(Seq(S)) \ {<< >>} /\ Grown(h[k], segments)
  <2>1. \A k \in 0..N : h[k] \in Seq(Seq(S)) \ {<< >>}
    BY DEF SplitSteps
  <2>2. QED
    BY <2>1, SplitGrows
<1> HIDE DEF segments
<1>4. P \in [0..m -> Offsets(text)] /\ P[0] = 0
      /\ \A k \in 1..m : P[k] = MatchSegment(text, segments, P[k - 1], k)
  BY DEF SearchSteps, segments
<1>5. m \in Nat
  BY <1>2
<1>6. 0 \in G
  <2>1. h[0] = << << >> >> /\ g[0] = {0} /\ 0 \in 0..N
    BY <1>1 DEF SplitSteps, GlobSteps
  <2>2. Len(h[0]) = 1 /\ h[0][1] = << >> /\ 1 - 1 = 0
    BY <2>1
  <2>3. ASSUME NEW j \in 0..n PROVE Ends(text, TRUE, 0, << >>, j) <=> j = 0
    <3>1. StandsAt(text, j, << >>) /\ Len(<< >>) = 0 /\ j - 0 = j
      BY <1>1, NothingStands
    <3>2. 0 # -1 /\ 0 <= j
      BY <1>1
    <3>3. QED
      BY <3>1, <3>2 DEF Ends
  <2>4. LedTo(text, h[0], P, g[0])
    <3>1. 0 \in 0..n
      BY <1>1
    <3>2. {0} = {j \in 0..n : Ends(text, TRUE, 0, << >>, j)}
      BY <2>3, <3>1
    <3>3. QED
      BY <1>4, <2>1, <2>2, <3>2, ZenonT(30) DEF LedTo
  <2>5. QED
    BY <2>1, <2>4
<1>7. ASSUME NEW k \in 1..N, k - 1 \in G PROVE k \in G
  <2> DEFINE q == h[k - 1]  u == h[k]  c == pattern[k]  l == Len(q)  pos == P[l - 1]
             old == g[k - 1]  new == g[k]
  <2>1. k \in 0..N /\ k - 1 \in 0..N /\ c \in S
    BY <1>1
  <2>2. q \in Seq(Seq(S)) \ {<< >>} /\ Grown(q, segments) /\ Grown(u, segments)
    BY <1>3, <2>1
  <2>3. SplitHas(S, q, c, "*", u)
    <3>1. u = Split(q, c, "*")
      BY DEF SplitSteps
    <3> HIDE DEF q, u, c
    <3>2. QED
      BY <2>1, <2>2, <3>1, SplitGives
  <2>4. new = GlobStep(text, old, c)
    BY DEF GlobSteps
  <2>5. old = {j \in 0..n : Ends(text, l = 1, pos, q[l], j)}
    BY <1>7 DEF LedTo
  <2> HIDE DEF q, u, c, old, new
  <2>6. l \in Nat /\ l \in 1..l /\ l <= m /\ q[l] \in Seq(S)
    BY <2>2 DEF Grown
  <2> HIDE DEF l
  <2>7. l - 1 \in 0..m
    BY <1>5, <2>6
  <2> HIDE DEF n, m
  <2>8. pos \in Offsets(text)
    BY <1>4, <2>7
  <2> HIDE DEF pos
  <2> DEFINE piece == q[l]
             first == l = 1
  <2>9. piece \in Seq(S) /\ first \in BOOLEAN
    BY <2>6
  <2> HIDE DEF piece, first
  <2>10. CASE c # "*"
    <3>1. Len(u) = l /\ u[l] = Append(q[l], c)
      BY <2>3, <2>10 DEF SplitHas, l
    <3>2. new = {j \in 1..n : j - 1 \in old /\ text[j] = c}
      BY <2>4, <2>10 DEF GlobStep, n
    <3>3. \A j \in 1..n : j \in 0..n /\ j - 1 \in 0..n
      BY <1>1
    <3>4. ASSUME NEW j \in 0..n
          PROVE  Ends(text, l = 1, pos, Append(q[l], c), j)
                   <=> j \in 1..n /\ Ends(text, l = 1, pos, q[l], j - 1) /\ text[j] = c
      <4>1. j \in 0..Len(text)
        BY DEF n
      <4>2. Ends(text, first, pos, Append(piece, c), j)
              <=> j \in 1..Len(text) /\ Ends(text, first, pos, piece, j - 1) /\ text[j] = c
        BY <2>1, <2>8, <2>9, <4>1, EndsLonger
      <4>3. QED
        BY <4>2 DEF first, piece, n
    <3>5. new = {j \in 0..n : Ends(text, l = 1, pos, Append(q[l], c), j)}
      BY <2>5, <3>2, <3>3, <3>4
    <3>6. LedTo(text, u, P, new)
      BY <3>1, <3>5 DEF LedTo, n, pos
    <3>7. QED
      BY <2>1, <3>6 DEF u, new
  <2>11. CASE c = "*"
    <3>1. Len(u) = l + 1 /\ u[l + 1] = << >> /\ u[l] = q[l]
      BY <2>3, <2>6, <2>11 DEF SplitHas, l
    <3>2. l + 1 <= m /\ segments[l] = q[l]
      <4>1. (l + 1) - 1 = l /\ l \in 1..l
        BY <2>6
      <4>2. QED
        BY <2>2, <3>1, <4>1 DEF Grown, m
    <3>3. l \in 1..m /\ l # m /\ (l = 1 => pos = 0) /\ (l + 1) - 1 = l /\ l + 1 # 1
      BY <1>4, <1>5, <2>6, <3>2 DEF pos
    <3>4. P[l] = MatchSegment(text, segments, pos, l)
      BY <1>4, <3>3 DEF pos, m
    <3> DEFINE r == P[l]
    <3>5. Passes(text, l = 1, pos, q[l], r)
      BY <1>2, <2>8, <3>2, <3>3, <3>4, SegmentPasses DEF m
    <3> HIDE DEF r
    <3>6. ASSUME NEW j \in 0..n
          PROVE  r # -1 /\ r <= j <=> \E i \in old : i <= j
      BY <2>5, <3>5 DEF Passes, n
    <3>7. ASSUME NEW j \in 0..n
          PROVE  Ends(text, l + 1 = 1, r, << >>, j) <=> r # -1 /\ r <= j
      <4>1. StandsAt(text, j, << >>) /\ Len(<< >>) = 0 /\ j - 0 = j
        BY <1>1, NothingStands DEF n
      <4>2. QED
        BY <3>3, <4>1 DEF Ends
    <3>8. new = {j \in 0..n : \E i \in old : i <= j}
      BY <2>4, <2>11 DEF GlobStep, n
    <3>9. new = {j \in 0..n : Ends(text, l + 1 = 1, r, << >>, j)}
      BY <3>6, <3>7, <3>8
    <3>10. LedTo(text, u, P, new)
      BY <3>1, <3>3, <3>9 DEF LedTo, n, r
    <3>11. QED
      BY <2>1, <3>10 DEF u, new
  <2>12. QED
    BY <2>10, <2>11
<1>8. QED
  <2> HIDE DEF G
  <2>1. \A k \in 1..N : k - 1 \in G => k \in G
    BY <1>7
  <2>2. \A k \in 0..N : k \in G
    BY <1>1, <1>6, <2>1, UpTo
  <2>3. QED
    BY <2>2 DEF G

\* The greedy search of modalias_pattern_match finds a match exactly when
\* there is one, for every pattern and every modalias.
THEOREM GlobsAreExact ==
  ASSUME NEW S, "*" \in S, NEW text \in Seq(S), NEW pattern \in Seq(S)
  PROVE  GlobIsExact(pattern, text)
<1> DEFINE N == Len(pattern)
           n == Len(text)
           segments == SplitBy(pattern, "*")
           m == Len(segments)
           matches == modalias_pattern_match(pattern, text)
           starred == \E i \in DOMAIN pattern : pattern[i] = "*"
<1>1. N \in Nat /\ n \in Nat /\ DOMAIN pattern = 1..N
  OBVIOUS
<1>2. CASE pattern = << >>
  BY <1>1, <1>2 DEF GlobIsExact, modalias_pattern_match
<1>3. CASE pattern # << >>
  <2>1. N >= 1
    BY <1>3
  <2>2. segments \in Seq(Seq(S)) /\ segments # << >> /\ m \in Nat
    BY SplitIsTyped
  <2>3. PICK h : SplitSteps(S, pattern, "*", h)
    BY SplitRuns DEF Splits
  <2>4. PICK P : SearchSteps(text, pattern, segments, P)
    BY <1>3, SearchRuns DEF Searches
  <2>5. PICK g : GlobSteps(text, pattern, g)
    BY GlobRuns DEF Globs
  <2>6. LedTo(text, h[N], P, g[N])
    <3>1. N \in 0..N
      BY <1>1
    <3>2. QED
      BY <1>3, <2>3, <2>4, <2>5, <3>1, GlobFollows
  <2>7. h[N] = segments
    BY <2>3 DEF SplitSteps
  <2>8. \A k \in 0..N : Grown(h[k], segments) /\ h[k] \in Seq(Seq(S)) \ {<< >>}
    BY <2>3, SplitGrows DEF SplitSteps
  <2>9. h[0] = << << >> >> /\ \A k \in 1..N : h[k] = Split(h[k - 1], pattern[k], "*")
    BY <2>3 DEF SplitSteps
  <2>10. /\ P \in [0..m -> Offsets(text)] /\ P[0] = 0
         /\ \A k \in 1..m : P[k] = MatchSegment(text, segments, P[k - 1], k)
         /\ matches <=> P[m] # -1
    BY <2>4 DEF SearchSteps
  <2>11. Glob(pattern, text) <=> n \in g[N]
    BY <2>5 DEF GlobSteps
  <2> HIDE DEF segments
  <2>12. CASE starred
    <3>1. PICK k \in 1..N : pattern[k] = "*"
      BY <1>1, <2>12
    <3>2. k \in 0..N /\ k - 1 \in 0..N
      BY <1>1
    <3> DEFINE q == h[k - 1]  u == h[k]
    <3>3. SplitHas(S, q, "*", "*", u)
      <4>1. u = Split(q, "*", "*") /\ q \in Seq(Seq(S)) \ {<< >>}
        BY <2>8, <2>9, <3>1, <3>2
      <4> HIDE DEF q, u
      <4>2. QED
        BY <4>1, SplitGives
    <3>4. Len(u) = Len(q) + 1
      BY <3>3 DEF SplitHas
    <3>5. q \in Seq(Seq(S)) /\ q # << >> /\ Len(u) <= m
      BY <2>8, <3>2 DEF Grown
    <3> HIDE DEF q, u
    <3>6. Len(q) \in Nat /\ Len(q) >= 1
      BY <3>5
    <3>7. m \in 1..m /\ m # 1 /\ m - 1 \in 0..m
      BY <2>2, <3>4, <3>5, <3>6
    <3> DEFINE pos == P[m - 1]
    <3>8. pos \in Offsets(text)
      BY <2>10, <3>7
    <3>9. P[m] = MatchSegment(text, segments, pos, m)
      BY <2>10, <3>7
    <3>10. g[N] = {j \in 0..n : Ends(text, m = 1, pos, segments[m], j)}
      BY <2>6, <2>7 DEF LedTo
    <3> HIDE DEF pos
    <3>11. P[m] # -1 <=> Ends(text, FALSE, pos, segments[m], n)
      BY <2>2, <3>7, <3>8, <3>9, LastSegmentEnds
    <3>12. n \in g[N] <=> Ends(text, FALSE, pos, segments[m], n)
      <4>1. n \in 0..n /\ (m = 1) = FALSE
        BY <1>1, <3>7
      <4>2. QED
        BY <3>10, <4>1
    <3>13. matches <=> Glob(pattern, text)
      BY <2>10, <2>11, <3>11, <3>12
    <3>14. QED
      BY <2>12, <3>13 DEF GlobIsExact
  <2>13. CASE ~starred
    <3> DEFINE Same(k) == /\ Len(h[k]) = 1 /\ Len(h[k][1]) = k
                          /\ \A i \in 1..k : h[k][1][i] = pattern[i]
               G == {k \in 0..N : Same(k)}
    <3>1. 0 \in G
      <4>1. Len(h[0]) = 1 /\ h[0][1] = << >> /\ Len(<< >>) = 0 /\ 1..0 = {} /\ 0 \in 0..N
        BY <1>1, <2>9
      <4>2. QED
        BY <4>1
    <3>2. ASSUME NEW k \in 1..N, k - 1 \in G PROVE k \in G
      <4> DEFINE q == h[k - 1]  u == h[k]  c == pattern[k]  piece == q[1]
      <4>1. k \in 0..N /\ k - 1 \in 0..N /\ c \in S /\ c # "*"
        BY <1>1, <2>13
      <4>2. SplitHas(S, q, c, "*", u)
        <5>1. u = Split(q, c, "*") /\ q \in Seq(Seq(S)) \ {<< >>}
          BY <2>8, <2>9, <4>1
        <5> HIDE DEF q, u, c
        <5>2. QED
          BY <4>1, <5>1, SplitGives
      <4>3. /\ Len(q) = 1 /\ Len(piece) = k - 1
            /\ \A i \in 1..(k - 1) : piece[i] = pattern[i]
        BY <3>2
      <4>4. q \in Seq(Seq(S))
        BY <2>8, <4>1
      <4> HIDE DEF q, u, c
      <4>5. Len(u) = 1 /\ u[1] = Append(piece, c)
        BY <4>1, <4>2, <4>3 DEF SplitHas
      <4>6. piece \in Seq(S)
        <5> DEFINE Q == Seq(S)
        <5>1. q \in Seq(Q)
          BY <4>4
        <5> HIDE DEF Q
        <5>2. Len(q) = 1
          BY <4>3
        <5>3. \A i \in 1..Len(q) : q[i] \in Q
          BY <5>1
        <5>4. 1 \in 1..1
          OBVIOUS
        <5>5. QED
          BY <5>2, <5>3, <5>4 DEF Q
      <4> HIDE DEF piece
      <4>7. /\ Len(Append(piece, c)) = (k - 1) + 1 /\ Append(piece, c)[(k - 1) + 1] = c
            /\ \A i \in 1..(k - 1) : Append(piece, c)[i] = piece[i]
        BY <4>1, <4>3, <4>6, AppendIs
      <4>8. (k - 1) + 1 = k /\ \A i \in 1..k : i \in 1..(k - 1) \/ i = k
        BY <4>1
      <4> DEFINE longer == Append(piece, c)
      <4> HIDE DEF longer
      <4>9. Len(longer) = k /\ \A i \in 1..k : longer[i] = pattern[i]
        <5>1. longer[k] = c /\ \A i \in 1..(k - 1) : longer[i] = pattern[i]
          BY <4>3, <4>7, <4>8 DEF longer
        <5>2. Len(longer) = k
          BY <4>7, <4>8 DEF longer
        <5>3. QED
          BY <4>8, <5>1, <5>2 DEF c
      <4>10. u[1] = longer
        BY <4>5 DEF longer
      <4>11. QED
        BY <4>1, <4>5, <4>9, <4>10 DEF u
    <3>3. Same(N)
      <4> HIDE DEF Same
      <4>1. \A k \in 1..N : k - 1 \in G => k \in G
        BY <3>2
      <4> HIDE DEF G
      <4>2. \A k \in 0..N : k \in G
        BY <1>1, <3>1, <4>1, UpTo
      <4>3. N \in G
        BY <1>1, <4>2
      <4>4. QED
        BY <4>3 DEF G
    <3>4. m = 1 /\ segments[1] = pattern
      <4> DEFINE piece == segments[1]
      <4>1. m = 1 /\ Len(piece) = N /\ \A i \in 1..N : piece[i] = pattern[i]
        BY <2>7, <3>3
      <4>2. piece \in Seq(S)
        <5> DEFINE Q == Seq(S)
        <5>1. segments \in Seq(Q)
          BY <2>2
        <5> HIDE DEF Q
        <5>2. \A i \in 1..m : segments[i] \in Q
          BY <5>1
        <5>3. 1 \in 1..1
          OBVIOUS
        <5>4. QED
          BY <4>1, <5>2, <5>3 DEF Q
      <4> HIDE DEF piece
      <4>3. piece = pattern
        BY <4>1, <4>2, SameMembers
      <4>4. QED
        BY <4>1, <4>3 DEF piece
    <3>5. P[1] = MatchSegment(text, segments, 0, 1)
      <4>1. 1 \in 1..m /\ 1 - 1 = 0
        BY <3>4
      <4>2. QED
        BY <2>10, <4>1
    <3>6. P[1] = IF IsPrefix(pattern, text) THEN N ELSE -1
      BY <1>3, <3>4, <3>5 DEF MatchSegment
    <3>7. matches <=> IsPrefix(pattern, text)
      BY <1>1, <2>10, <3>4, <3>6
    <3>8. QED
      BY <1>3, <2>13, <3>7 DEF GlobIsExact
  <2>14. QED
    BY <2>12, <2>13
<1>4. QED
  BY <1>2, <1>3

-----------------------------------------------------------------------------
(***************************************************************************)
(* The modules of a kernel, found on disk by their files and in the kernel *)
(* by their lines.                                                         *)
(***************************************************************************)
\* Nothing is left of the one extension that is trimmed, nor of none.
LEMMA TrimmedIsNothing ==
  ASSUME NEW e
  PROVE  Trim(<<e>>, e) = << >> /\ Trim(<< >>, e) = << >>
<1>1. ASSUME NEW s, s \in {<<e>>, << >>} PROVE SelectLastInSeq(s, LAMBDA x : x # e) = 0
  <2>1. {i \in 1..Len(s) : s[i] # e} = {}
    <3>1. CASE s = <<e>>
      BY <3>1
    <3>2. CASE s = << >>
      BY <3>2
    <3>3. QED
      BY <1>1, <3>1, <3>2
  <2>2. QED
    BY <2>1 DEF SelectLastInSeq
<1>2. SubSeq(<<e>>, 1, 0) = << >> /\ SubSeq(<< >>, 1, 0) = << >>
  OBVIOUS
<1>3. QED
  BY <1>1, <1>2 DEF Trim

\* The names that are listed are those of the files with the kernel's extension.
LEMMA ListedAre ==
  ASSUME NEW Stem, NEW files,
         files \subseteq [stem : Stem, extensions : Extensions \union {<< >>}]
  PROVE  collect_kernel_modules(files)
           = {[stem |-> f.stem, extensions |-> << >>] :
                f \in {f \in files : f.extensions = <<".ko">>}} \ {NoName}
<1>1. ASSUME NEW f \in files
      PROVE  f.extensions # << >> /\ Last(f.extensions) = ".ko" <=> f.extensions = <<".ko">>
  <2>1. f.extensions \in Extensions \union {<< >>}
    OBVIOUS
  <2>2. /\ Last(<<".ko">>) = ".ko" /\ Last(<<".ko", ".xz">>) = ".xz"
        /\ Last(<<".ko", ".gz">>) = ".gz" /\ Last(<<".ko", ".zst">>) = ".zst"
    BY DEF Last
  <2>3. <<".ko">> # << >>
    OBVIOUS
  <2>4. ".xz" # ".ko" /\ ".gz" # ".ko" /\ ".zst" # ".ko"
    OBVIOUS
  <2>5. QED
    BY <2>1, <2>2, <2>3, <2>4, Zenon DEF Extensions
<1>2. ASSUME NEW f \in files, f.extensions = <<".ko">>
      PROVE  ModuleName(f) = [stem |-> f.stem, extensions |-> << >>]
  <2>1. Trim(Trim(Trim(Trim(<<".ko">>, ".ko"), ".xz"), ".gz"), ".zst") = << >>
    BY TrimmedIsNothing
  <2>2. ModuleName(f) = [f EXCEPT !.extensions = << >>]
    BY <1>2, <2>1, Zenon DEF ModuleName
  <2>3. f = [stem |-> f.stem, extensions |-> f.extensions]
    OBVIOUS
  <2>4. QED
    BY <2>2, <2>3
<1>3. {f \in files : f.extensions # << >> /\ Last(f.extensions) = ".ko"}
        = {f \in files : f.extensions = <<".ko">>}
  BY <1>1
<1>4. QED
  BY <1>2, <1>3, Zenon DEF collect_kernel_modules

\* A file under another name, and its own again.
LEMMA RenamedIs ==
  ASSUME NEW Stem, NEW E, NEW file \in [stem : Stem, extensions : E], NEW e
  PROVE  /\ file.stem \in Stem /\ file.extensions \in E
         /\ file = [stem |-> file.stem, extensions |-> file.extensions]
OBVIOUS

LEMMA RenamedHas ==
  ASSUME NEW Stem, NEW E, NEW file \in [stem : Stem, extensions : E], NEW e
  PROVE  [file EXCEPT !.extensions = e] = [stem |-> file.stem, extensions |-> e]
OBVIOUS

\* What the parts are joined from.
LEMMA ExtendedIs ==
  ASSUME NEW stem, NEW e \in Extensions
  PROVE  [[stem |-> stem, extensions |-> << >>] EXCEPT !.extensions = @ \o e]
           = [stem |-> stem, extensions |-> e]
<1>1. << >> \o e = e
  BY DEF Extensions
<1>2. [[stem |-> stem, extensions |-> << >>] EXCEPT !.extensions = @ \o e]
        = [stem |-> stem, extensions |-> << >> \o e]
  OBVIOUS
<1>3. QED
  BY <1>1, <1>2

\* Names without extensions are one if their stems are.
LEMMA NamesAre ==
  ASSUME NEW stem, NEW files
  PROVE  [stem |-> stem, extensions |-> << >>]
           \in {[stem |-> f.stem, extensions |-> << >>] :
                 f \in {f \in files : f.extensions = <<".ko">>}}
         <=> \E f \in files : f.stem = stem /\ f.extensions = <<".ko">>
OBVIOUS

LEMMA NamedIsNamed ==
  ASSUME NEW stem, stem # ""
  PROVE  [stem |-> stem, extensions |-> << >>] # NoName
BY DEF NoName

\* What module_info gives for a module is not None.
LEMMA DescribedIs ==
  ASSUME NEW H, NEW h \in H, NEW state \in {"BuiltIn", "Live", "Unloaded"},
         None \notin [state : {"BuiltIn", "Live", "Unloaded"}, used_by : H]
  PROVE  [state |-> state, used_by |-> h] # None
OBVIOUS

(***************************************************************************)
(* A module whose file is named as the kernel and the compressors name it  *)
(* is found, described and listed by its name, whatever other modules      *)
(* there are on disk and in the kernel (kmod.rs:248, 545).                 *)
(***************************************************************************)
THEOREM ModulesAreFound ==
  ASSUME NEW Stem, "" \notin Stem, NEW H, {} \in H,
         None \notin [state : {"BuiltIn", "Live", "Unloaded"}, used_by : H],
         NEW sys, \A name \in DOMAIN sys : sys[name].holders \in H,
         NEW tree \in [{"kernel", "updates", "extra"} ->
                         SUBSET [stem : Stem, extensions : Extensions \union {<< >>}]]
  PROVE  FilesAreFound(sys, tree)
<1> DEFINE Name(file) == [file EXCEPT !.extensions = << >>]
<1>1. SUFFICES ASSUME NEW dir \in {"kernel", "updates", "extra"}, NEW file \in tree[dir],
                      file.extensions \in Extensions
               PROVE  /\ module_available(tree, Name(file))
                      /\ module_info(sys, tree, Name(file)) # None
                      /\ file \in tree["kernel"] =>
                           (Name(file) \in list_available_modules(tree)
                              <=> \E f \in tree["kernel"] :
                                    f.stem = file.stem /\ f.extensions = <<".ko">>)
  <2>1. \A file \in UNION {tree[dir] : dir \in DOMAIN tree} :
          \E dir \in {"kernel", "updates", "extra"} : file \in tree[dir]
    OBVIOUS
  <2>2. QED
    BY <1>1, <2>1 DEF FilesAreFound
<1>2. PICK k : k = tree[dir] /\ k \in SUBSET [stem : Stem, extensions : Extensions \union {<< >>}]
  OBVIOUS
<1>3. /\ file = [stem |-> file.stem, extensions |-> file.extensions] /\ file.stem \in Stem
      /\ Name(file) = [stem |-> file.stem, extensions |-> << >>]
  <2> HIDE DEF Name
  <2>1. file \in [stem : Stem, extensions : Extensions \union {<< >>}]
    BY <1>1, <1>2
  <2>2. file = [stem |-> file.stem, extensions |-> file.extensions] /\ file.stem \in Stem
    BY <2>1, RenamedIs, Zenon
  <2>3. Name(file) = [stem |-> file.stem, extensions |-> << >>]
    BY <2>1, RenamedHas, Zenon DEF Name
  <2>4. QED
    BY <2>2, <2>3
<1> HIDE DEF Name
<1>4. module_available(tree, Name(file))
  <2>1. [Name(file) EXCEPT !.extensions = @ \o file.extensions] = file
    BY <1>1, <1>3, ExtendedIs, Zenon
  <2>2. walk_module_dir(tree[dir], Name(file))
    BY <1>1, <2>1, Zenon DEF walk_module_dir
  <2>3. QED
    BY <2>2, Zenon DEF module_available
<1>5. module_info(sys, tree, Name(file)) # None
  <2>1. CASE is_loaded(sys, Name(file))
    <3>1. sys[Name(file)].holders \in H
      BY <2>1 DEF is_loaded
    <3>2. QED
      BY <2>1, <3>1, DescribedIs, Zenon DEF module_info
  <2>2. CASE ~is_loaded(sys, Name(file))
    BY <1>4, <2>2, DescribedIs, Zenon DEF module_info
  <2>3. QED
    BY <2>1, <2>2
<1>6. Name(file) \in list_available_modules(tree)
        <=> \E f \in tree["kernel"] : f.stem = file.stem /\ f.extensions = <<".ko">>
  <2> DEFINE files == tree["kernel"]
  <2>1. files \subseteq [stem : Stem, extensions : Extensions \union {<< >>}]
    OBVIOUS
  <2> HIDE DEF files
  <2>2. list_available_modules(tree)
          = {[stem |-> f.stem, extensions |-> << >>] :
               f \in {f \in files : f.extensions = <<".ko">>}} \ {NoName}
    BY <2>1, ListedAre, Zenon DEF list_available_modules, files
  <2>3. Name(file) # NoName
    <3>1. file.stem # ""
      BY <1>3
    <3>2. QED
      BY <1>3, <3>1, NamedIsNamed, Zenon
  <2>4. Name(file) \in {[stem |-> f.stem, extensions |-> << >>] :
                          f \in {f \in files : f.extensions = <<".ko">>}}
          <=> \E f \in files : f.stem = file.stem /\ f.extensions = <<".ko">>
    <3>1. [stem |-> file.stem, extensions |-> << >>]
            \in {[stem |-> f.stem, extensions |-> << >>] :
                  f \in {f \in files : f.extensions = <<".ko">>}}
          <=> \E f \in files : f.stem = file.stem /\ f.extensions = <<".ko">>
      BY NamesAre, Zenon
    <3>2. QED
      BY <1>3, <3>1, Zenon
  <2>5. QED
    BY <2>2, <2>3, <2>4 DEF files
<1>7. QED
  BY <1>4, <1>5, <1>6

(***************************************************************************)
(* If the kernel gives every module one line and a directory, the two ways *)
(* of asking agree for all modules, but for those in between               *)
(* (execution.rs:742).                                                     *)
(***************************************************************************)
THEOREM AnswersAreTheSame ==
  ASSUME NEW sys, NEW tree, NEW lines, \A l, k \in lines : l.name = k.name => l = k
  PROVE  AnswersAgree(sys, tree, lines)
<1> SUFFICES ASSUME {l.name : l \in lines} = {name \in DOMAIN sys : ~sys[name].hold},
                    NEW l \in lines, l.fields >= 6
             PROVE  /\ is_loaded(sys, l.name) /\ module_info(sys, tree, l.name).state = "Live"
                    /\ (l.name \in get_loaded_modules(lines)) = (l.state = "Live")
  BY DEF AnswersAgree
<1>1. l.name \in DOMAIN sys /\ ~sys[l.name].hold
  OBVIOUS
<1>2. is_loaded(sys, l.name) /\ module_info(sys, tree, l.name).state = "Live"
  BY <1>1 DEF is_loaded, module_info
<1>3. l.name \in get_loaded_modules(lines) <=> l.state = "Live"
  <2>1. from_proc_modules_state(l.state) = "Live" <=> l.state = "Live"
    BY DEF from_proc_modules_state
  <2>2. l.name \in get_loaded_modules(lines)
          <=> \E k \in lines : k.fields >= 6 /\ k.name = l.name
                               /\ from_proc_modules_state(k.state) = "Live"
    <3> DEFINE Row(k) == [name |-> k.name, state |-> from_proc_modules_state(k.state)]
               shown == {k \in lines : k.fields >= 6}
    <3>1. list_modules(lines) = {Row(k) : k \in shown}
      BY DEF list_modules
    <3>2. l.name \in get_loaded_modules(lines)
            <=> \E m \in list_modules(lines) : m.state = "Live" /\ m.name = l.name
      BY Zenon DEF get_loaded_modules
    <3>3. \A k : Row(k).name = k.name /\ Row(k).state = from_proc_modules_state(k.state)
      OBVIOUS
    <3> HIDE DEF Row
    <3>4. QED
      BY <3>1, <3>2, <3>3
  <2>3. QED
    BY <2>1, <2>2
<1>4. QED
  BY <1>2, <1>3

-----------------------------------------------------------------------------
(***************************************************************************)
(* The two lists of the configured sources.                                *)
(***************************************************************************)
\* A source of the older list keeps its identifier, and none is a local one.
LEMMA LegacyIs ==
  ASSUME NEW id, create_source_from_id(id) # None
  PROVE  /\ create_source_from_id(id).id = id
         /\ create_source_from_id(id).type # "Local"
         /\ id = "mission" => create_source_from_id(id).type = "Mission"
                              /\ create_source_from_id(id).priority = 10
         /\ id = "linux" => create_source_from_id(id).type = "Linux"
                            /\ create_source_from_id(id).priority = 20
BY DEF create_source_from_id, Legacy

\* The sources of the older list are those of the known identifiers.
LEMMA FromConfigIs ==
  ASSUME NEW S, NEW ids \in Seq(S)
  PROVE  /\ from_config(ids) \in Seq({create_source_from_id(x) : x \in S})
         /\ Range(from_config(ids)) = {create_source_from_id(ids[i]) : i \in DOMAIN ids} \ {None}
<1> DEFINE T == {create_source_from_id(x) : x \in S}
           all == [i \in DOMAIN ids |-> create_source_from_id(ids[i])]
<1>1. DOMAIN ids = 1..Len(ids) /\ Len(ids) \in Nat /\ \A i \in 1..Len(ids) : ids[i] \in S
  OBVIOUS
<1>2. \A i \in 1..Len(ids) : create_source_from_id(ids[i]) \in T
  BY <1>1
<1>3. Range(all) = {create_source_from_id(ids[i]) : i \in DOMAIN ids}
  BY DEF Range
<1>4. from_config(ids) = filter(all, Range(all) \ {None})
  BY DEF from_config
<1> HIDE DEF T
<1>5. all \in [1..Len(ids) -> T]
  BY <1>1, <1>2
<1>6. all \in Seq(T)
  BY <1>1, <1>5
<1> HIDE DEF all
<1>7. /\ filter(all, Range(all) \ {None}) \in Seq(T)
      /\ Range(filter(all, Range(all) \ {None})) = Range(all) \cap (Range(all) \ {None})
  BY <1>6, FilterIs
<1>8. QED
  BY <1>3, <1>4, <1>7 DEF T

(***************************************************************************)
(* Whatever identifiers are configured, the two lists of sources agree     *)
(* (package.rs:262, source.rs:363).                                        *)
(***************************************************************************)
THEOREM SourceListsAgree ==
  ASSUME NEW S, NEW ids \in Seq(S),
         None \notin [id : {"mission", "linux"}, type : {"Mission", "Linux"}, priority : {10, 20}]
  PROVE  SourcesAgree(ids)
<1> DEFINE sources == from_config(ids)
           T == {create_source_from_id(x) : x \in S}
<1>1. sources \in Seq(T)
      /\ Range(sources) = {create_source_from_id(ids[i]) : i \in DOMAIN ids} \ {None}
  BY FromConfigIs
<1>2. \A s \in T : s # None =>
        /\ s.type # "Local"
        /\ s.id = "mission" => s.type = "Mission" /\ s.priority = 10
        /\ s.id = "linux" => s.type = "Linux" /\ s.priority = 20
  BY LegacyIs
<1>3. \A i \in DOMAIN ids : ids[i] \in S
  OBVIOUS
<1>4. \A i \in DOMAIN sources : sources[i] \in T /\ sources[i] # None
  <2> HIDE DEF sources, T
  <2>1. \A i \in DOMAIN sources : sources[i] \in T /\ sources[i] \in Range(sources)
    BY <1>1 DEF Range
  <2>2. QED
    BY <1>1, <2>1
<1> HIDE DEF sources, T
<1>5. ASSUME NEW i \in DOMAIN sources, NEW j \in DOMAIN default_sources,
             sources[i].id = default_sources[j].id
      PROVE  /\ sources[i].type = default_sources[j].type
             /\ sources[i].priority = default_sources[j].priority
  <2>1. /\ DOMAIN default_sources = {1, 2}
        /\ default_sources[1].id = "mission" /\ default_sources[1].type = "Mission"
        /\ default_sources[1].priority = 10
        /\ default_sources[2].id = "linux" /\ default_sources[2].type = "Linux"
        /\ default_sources[2].priority = 20
    BY DEF default_sources
  <2>2. QED
    BY <1>2, <1>4, <1>5, <2>1
<1>6. ASSUME NEW i \in DOMAIN ids, create_source_from_id(ids[i]) # None
      PROVE  /\ validator_is_source_enabled(sources, ids[i])
             /\ validate_source(sources, FALSE, ids[i])
  <2> DEFINE source == create_source_from_id(ids[i])
             found  == filter(sources, {s \in Range(sources) : s.id = ids[i]})
  <2>1. source.id = ids[i] /\ source \in Range(sources)
    BY <1>1, <1>6, LegacyIs
  <2>2. validator_is_source_enabled(sources, ids[i])
    BY <2>1 DEF validator_is_source_enabled, Range
  <2>3. found \in Seq(T) /\ Range(found) = Range(sources) \cap {s \in Range(sources) : s.id = ids[i]}
    BY <1>1, FilterIs
  <2> HIDE DEF found
  <2>4. source \in Range(found)
    BY <2>1, <2>3
  <2> HIDE DEF source
  <2>5. found # << >>
    BY <2>4 DEF Range
  <2>6. 1 \in DOMAIN found
    BY <2>3, <2>5
  <2>7. found[1] \in T /\ found[1] # None
    <3>1. found[1] \in Range(found)
      BY <2>6 DEF Range
    <3>2. found[1] \in Range(sources)
      BY <2>3, <3>1
    <3>3. QED
      BY <1>4, <3>2 DEF Range
  <2>8. validate_source(sources, FALSE, ids[i])
    BY <1>2, <2>5, <2>7 DEF validate_source, found
  <2>9. QED
    BY <2>2, <2>8
<1>7. ASSUME NEW j \in DOMAIN default_sources
      PROVE  create_source_from_id(default_sources[j].id) # None
  <2>1. /\ DOMAIN default_sources = {1, 2}
        /\ default_sources[1].id = "mission" /\ default_sources[2].id = "linux"
    BY DEF default_sources
  <2>2. create_source_from_id("mission") = Legacy("mission", "Mission", 10)
        /\ create_source_from_id("linux") = Legacy("linux", "Linux", 20)
    BY DEF create_source_from_id
  <2>3. Legacy("mission", "Mission", 10) # None /\ Legacy("linux", "Linux", 20) # None
    BY DEF Legacy
  <2>4. QED
    BY <2>1, <2>2, <2>3
<1>8. QED
  BY <1>5, <1>6, <1>7 DEF SourcesAgree, sources

-----------------------------------------------------------------------------
(***************************************************************************)
(* The signature of a staged module, and the keys that verify it. A store  *)
(* is loaded file by file, a later key of an identifier replacing an       *)
(* earlier one.                                                            *)
(***************************************************************************)
\* A list without its last member, and that and one more joined to it.
LEMMA FrontIs ==
  ASSUME NEW S, NEW s \in Seq(S), s # << >>, NEW y \in S
  PROVE  Front(s) \o <<Last(s), y>> = Append(s, y)
<1> DEFINE n == Len(s)
           f == Front(s)
           l == <<Last(s), y>>
<1>1. n \in Nat /\ n # 0 /\ n \in 1..n /\ \A i \in 1..n : s[i] \in S
  OBVIOUS
<1>2. f \in Seq(S) /\ Len(f) = n - 1 /\ \A i \in 1..(n - 1) : f[i] = s[i]
  <2>1. n - 1 \in 0..Len(s)
    BY <1>1
  <2> DEFINE m == n - 1
  <2> HIDE DEF m
  <2>2. f = SubSeq(s, 1, m)
    BY DEF Front, m
  <2>3. m \in 0..Len(s)
    BY <2>1 DEF m
  <2>4. SubSeq(s, 1, m) \in Seq(S) /\ Len(SubSeq(s, 1, m)) = m
        /\ \A i \in 1..m : SubSeq(s, 1, m)[i] = s[i]
    BY <2>3, PartIs
  <2>5. QED
    BY <2>2, <2>4 DEF m
<1>3. l \in Seq(S) /\ Len(l) = 2 /\ l[1] = s[n] /\ l[2] = y
  BY <1>1 DEF Last
<1>4. Append(s, y) \in Seq(S) /\ Len(Append(s, y)) = n + 1 /\ Append(s, y)[n + 1] = y
      /\ \A i \in 1..n : Append(s, y)[i] = s[i]
  BY AppendIs
<1> HIDE DEF f, l
<1> DEFINE u == f \o l
<1>5. /\ u \in Seq(S) /\ Len(u) = n + 1
      /\ \A i \in 1..(n - 1) : u[i] = f[i]
      /\ u[n] = l[1] /\ u[n + 1] = l[2]
  <2>1. Joined(S, f, l, u)
    BY <1>2, <1>3, JoinedIs
  <2> HIDE DEF u, n
  <2>2. (n - 1) + 1 = n /\ (n - 1) + 2 = n + 1
    BY <1>1
  <2>3. QED
    BY <1>1, <1>2, <1>3, <2>1, <2>2 DEF Joined
<1> HIDE DEF u
<1>6. \A i \in 1..(n + 1) : i \in 1..(n - 1) \/ i = n \/ i = n + 1
  BY <1>1
<1>7. \A i \in 1..(n + 1) : u[i] = Append(s, y)[i]
  BY <1>1, <1>2, <1>3, <1>4, <1>5, <1>6
<1>8. QED
  BY <1>4, <1>5, <1>7, SameMembers DEF f, l, u

\* What a path with another extension keeps, whatever extensions it is given.
LEMMA PathIs ==
  ASSUME NEW Dir, NEW Stem, NEW E,
         NEW path \in [dir : Dir, stem : Stem, extensions : Seq(E)], NEW e
  PROVE  /\ with_extension(path, e).dir = path.dir
         /\ with_extension(path, e).stem = path.stem
         /\ path.extensions \in Seq(E)
BY DEF with_extension

(***************************************************************************)
(* Whatever files there are, the signature staged with a module is its own *)
(* if that can be read, and never one of another stem (package.rs:135).    *)
(***************************************************************************)
THEOREM SignaturesAreOwn ==
  ASSUME NEW Dir, NEW Stem, NEW E, "sig" \in E, "ko" \in E,
         NEW path \in [dir : Dir, stem : Stem, extensions : Seq(E)], NEW files
  PROVE  SignatureIsOwn(files, path)
<1> DEFINE own   == [path EXCEPT !.extensions = Append(@, "sig")]
           first == with_extension(path, <<"ko", "sig">>)
           other == with_extension(path, <<"sig">>)
           named == <<first, other>>
           set   == {p \in DOMAIN files : files[p].kind = "file"}
           found == filter(named, set)
<1>1. /\ first.dir = path.dir /\ first.stem = path.stem
      /\ other.dir = path.dir /\ other.stem = path.stem
  BY PathIs
<1>2. named \in Seq({first, other}) /\ named # << >> /\ named[1] = first
  <2> HIDE DEF first, other
  <2>1. QED
    OBVIOUS
<1>3. found \in Seq({first, other}) /\ Range(found) \subseteq {first, other}
  <2> HIDE DEF first, other
  <2>1. Range(named) = {first, other}
    BY DEF Range
  <2> HIDE DEF named, set
  <2>2. QED
    BY <1>2, <2>1, FilterIs
<1>4. found # << >> => found[1] \in {first, other}
  <2> HIDE DEF found, first, other
  <2>1. QED
    BY <1>3
<1>5. read_signature(files, path) = IF found = << >> THEN None ELSE found[1]
  BY DEF read_signature
<1>6. read_signature(files, path) # None =>
        /\ read_signature(files, path).stem = path.stem
        /\ read_signature(files, path).dir = path.dir
  <2> HIDE DEF found, first, other
  <2>1. QED
    BY <1>1, <1>4, <1>5
<1>7. ASSUME path.extensions # << >>, Last(path.extensions) = "ko",
             own \in DOMAIN files, files[own].kind = "file"
      PROVE  read_signature(files, path) = own
  <2>1. Front(path.extensions) \o <<"ko", "sig">> = Append(path.extensions, "sig")
    <3> DEFINE s == path.extensions
    <3>1. s \in Seq(E)
      BY PathIs
    <3> HIDE DEF s
    <3>2. Front(s) \o <<Last(s), "sig">> = Append(s, "sig")
      BY <1>7, <3>1, FrontIs DEF s
    <3>3. QED
      BY <1>7, <3>2 DEF s
  <2>2. first = own
    <3>1. first = [path EXCEPT !.extensions =
                     (IF @ = << >> THEN @ ELSE Front(@)) \o <<"ko", "sig">>]
      BY DEF with_extension
    <3>2. QED
      BY <1>7, <2>1, <3>1
  <2>3. first \in set
    BY <1>7, <2>2
  <2>4. found # << >> /\ found[1] = first
    <3> HIDE DEF first, other, set
    <3>1. QED
      BY <1>2, <2>3, FilterKeepsFirst
  <2> HIDE DEF found, first, own
  <2>5. QED
    BY <1>5, <2>2, <2>4
<1>8. stage_local(files, 2, path) # None =>
        stage_local(files, 2, path).signature = read_signature(files, path)
  BY DEF stage_local
<1>9. QED
  BY <1>6, <1>7, <1>8 DEF SignatureIsOwn

LEMMA LoadingIs ==
  ASSUME NEW files
  PROVE  load_keys(files) = (CHOOSE it : Loading(files, it))[DOMAIN files]
BY DEF load_keys, FoldLeft, MapThenFoldSet, Loading, WithKeyOf, Loads

\* A key that is read has the file's identifier and key.
LEMMA KeyIs ==
  ASSUME NEW I, NEW P, NEW file, file.id \in I \union {None}, file.public \in P, Loads(file)
  PROVE  /\ parse_key_file(file) = [id |-> file.id, public |-> file.public, enabled |-> TRUE]
         /\ parse_key_file(file) \in KeysOf(I, P) /\ file.id \in I
BY DEF Loads, parse_key_file, KeysOf

LEMMA AddedIs ==
  ASSUME NEW I, NEW K, NEW store \in Stores(I, K), NEW key \in K, key.id \in I
  PROVE  Adds(Stores(I, K), store, key, add_key(store, key))
<1>1. PICK D \in SUBSET I : store \in [D -> K]
  BY DEF Stores
<1>2. add_key(store, key) = [x \in {key.id} \union D |-> IF x = key.id THEN key ELSE store[x]]
  <2>1. {key.id} \union D = DOMAIN store \union {key.id}
    BY <1>1
  <2>2. QED
    BY <2>1 DEF add_key
<1>3. {key.id} \union D \in SUBSET I
  OBVIOUS
<1>4. add_key(store, key) \in [{key.id} \union D -> K]
  BY <1>1, <1>2
<1>5. add_key(store, key) \in Stores(I, K)
  BY <1>3, <1>4 DEF Stores
<1>6. QED
  BY <1>1, <1>2, <1>5 DEF Adds

LEMMA WithKeyKeeps ==
  ASSUME NEW I, NEW P, NEW file, file.id \in I \union {None}, file.public \in P,
         NEW store \in Stores(I, KeysOf(I, P))
  PROVE  WithKeyOf(store, file) \in Stores(I, KeysOf(I, P))
<1>1. CASE Loads(file)
  <2> DEFINE key == parse_key_file(file)
             K   == KeysOf(I, P)
  <2>1. key \in K /\ key.id \in I
    BY <1>1, KeyIs
  <2> HIDE DEF key, K
  <2>2. add_key(store, key) \in Stores(I, K)
    BY <2>1, AddedIs DEF K, Adds
  <2>3. QED
    BY <1>1, <2>2 DEF WithKeyOf, key, K
<1>2. CASE ~Loads(file)
  BY <1>2 DEF WithKeyOf
<1>3. QED
  BY <1>1, <1>2

LEMMA LoadRuns ==
  ASSUME NEW I, NEW P, NEW F, \A f \in F : f.id \in I \union {None} /\ f.public \in P,
         NEW files \in Seq(F)
  PROVE  Loaded(Stores(I, KeysOf(I, P)), files)
<1> DEFINE n == Len(files)
           A == Stores(I, KeysOf(I, P))
           base == << >>
           f == [p \in A \X F |-> WithKeyOf(p[1], p[2])]
<1>1. n \in Nat /\ DOMAIN files = 1..n /\ \A i \in 1..n : files[i] \in F
  OBVIOUS
<1>2. base \in A
  <2> DEFINE K == KeysOf(I, P)
  <2> HIDE DEF K
  <2>1. << >> \in [{} -> K] /\ {} \in SUBSET I
    OBVIOUS
  <2>2. << >> \in Stores(I, K)
    BY <2>1 DEF Stores
  <2>3. QED
    BY <2>2 DEF K
<1>3. \A a \in A, x \in F : WithKeyOf(a, x) \in A
  BY WithKeyKeeps
<1> HIDE DEF A
<1>4. f \in [A \X F -> A] /\ \A a \in A, x \in F : f[<<a, x>>] = WithKeyOf(a, x)
  BY <1>3
<1> HIDE DEF f, base
<1>5. PICK it \in [SUBSET (1..n) -> A] : RunsOver(it, f, base, files, n)
  <2>1. Reaches(A, f, base, files, n)
    BY <1>2, <1>4, RunExists
  <2> HIDE DEF n
  <2>2. QED
    BY <2>1 DEF Reaches
<1> HIDE DEF n
<1>6. Loading(files, it)
  <2>1. ASSUME NEW T \in SUBSET (1..n)
        PROVE  it[T] = IF T = {} THEN base ELSE WithKeyOf(it[T \ {Max(T)}], files[Max(T)])
    <3>1. it[T] = IF T = {} THEN base ELSE f[<<it[T \ {Max(T)}], files[Max(T)]>>]
      BY <1>5 DEF RunsOver
    <3>2. CASE T # {}
      <4>1. Max(T) \in 1..n /\ T \ {Max(T)} \in SUBSET (1..n)
        BY <1>1, <3>2, GreatestNumber
      <4>2. it[T \ {Max(T)}] \in A /\ files[Max(T)] \in F
        BY <1>1, <1>5, <4>1
      <4>3. QED
        BY <1>4, <3>1, <3>2, <4>2
    <3>3. QED
      BY <3>1, <3>2
  <2>2. it = [T \in SUBSET (1..n) |->
                IF T = {} THEN base ELSE WithKeyOf(it[T \ {Max(T)}], files[Max(T)])]
    BY <2>1
  <2>3. QED
    BY <1>1, <2>2 DEF Loading, base
<1> DEFINE made == CHOOSE g : Loading(files, g)
<1>7. Loading(files, made)
  BY <1>6
<1> HIDE DEF made
<1>8. RunsWithin(made, A, f, base, files)
  <2>1. ASSUME NEW T \in SUBSET (1..n), T # {}, made[T \ {Max(T)}] \in A
        PROVE  made[T] = f[<<made[T \ {Max(T)}], files[Max(T)]>>]
    <3>1. Max(T) \in 1..n
      BY <1>1, <2>1, GreatestNumber
    <3>2. files[Max(T)] \in F
      BY <1>1, <3>1
    <3>3. made[T] = WithKeyOf(made[T \ {Max(T)}], files[Max(T)])
      BY <1>1, <1>7, <2>1 DEF Loading
    <3>4. QED
      BY <1>4, <2>1, <3>2, <3>3
  <2>2. made[{}] = base
    BY <1>7 DEF Loading, base
  <2>3. QED
    BY <2>1, <2>2 DEF RunsWithin, n
<1> DEFINE g == [k \in 0..n |-> made[1..k]]
<1> HIDE DEF n
<1>9. Steps(A, f, base, files, g)
  <2>1. g = [k \in 0..Len(files) |-> made[1..k]]
    BY DEF n
  <2> HIDE DEF g
  <2>2. QED
    BY <1>2, <1>4, <1>8, <2>1, StepsAre
<1>10. g[n] = made[1..n]
  BY <1>1
<1> HIDE DEF g
<1>11. load_keys(files) = g[n]
  BY <1>1, <1>10, LoadingIs DEF made
<1>12. ASSUME NEW k \in 1..n PROVE g[k] = WithKeyOf(g[k - 1], files[k])
  <2>1. k - 1 \in 0..n /\ files[k] \in F
    BY <1>1
  <2>2. QED
    BY <1>4, <1>9, <2>1 DEF Steps, n
<1>13. LoadSteps(A, files, g)
  BY <1>9, <1>11, <1>12 DEF LoadSteps, Steps, A, base, n
<1>14. QED
  BY <1>13 DEF Loaded, A

LEMMA StoreIs ==
  ASSUME NEW I, NEW P, NEW F, \A f \in F : f.id \in I \union {None} /\ f.public \in P,
         NEW files \in Seq(F)
  PROVE  StoreOf(I, KeysOf(I, P), files, load_keys(files))
<1> DEFINE n == Len(files)
           K == KeysOf(I, P)
           A == Stores(I, K)
           H == Held(files)
<1>1. n \in Nat /\ DOMAIN files = 1..n /\ \A i \in 1..n : files[i] \in F
  OBVIOUS
<1>2. PICK g : LoadSteps(A, files, g)
  <2>1. Loaded(A, files)
    BY LoadRuns
  <2> HIDE DEF A
  <2>2. QED
    BY <2>1 DEF Loaded
<1>3. H \subseteq 1..n /\ \A i \in 1..n : i \in H <=> Loads(files[i])
  BY <1>1 DEF Held, Loads
<1>4. \A i \in H : parse_key_file(files[i]) \in K /\ files[i].id \in I
                   /\ parse_key_file(files[i]).id = files[i].id
  <2>1. ASSUME NEW i \in H PROVE parse_key_file(files[i]) \in K /\ files[i].id \in I
                                /\ parse_key_file(files[i]).id = files[i].id
    <3> DEFINE file == files[i]
    <3>1. file.id \in I \union {None} /\ file.public \in P /\ Loads(file)
      BY <1>1, <1>3
    <3> HIDE DEF file
    <3>2. parse_key_file(file) = [id |-> file.id, public |-> file.public, enabled |-> TRUE]
          /\ parse_key_file(file) \in K /\ file.id \in I
      BY <3>1, KeyIs
    <3>3. QED
      BY <3>2 DEF file
  <2>2. QED
    BY <2>1
<1> DEFINE Good(k) ==
             /\ DOMAIN g[k] = {files[i].id : i \in {i \in H : i <= k}}
             /\ \A i \in {i \in H : i <= k} :
                  (\A j \in H : i < j /\ j <= k => files[j].id # files[i].id)
                    => g[k][files[i].id] = parse_key_file(files[i])
           G == {k \in 0..n : Good(k)}
<1> HIDE DEF H, K
<1>5. 0 \in G
  <2>1. {i \in H : i <= 0} = {}
    <3>1. \A i \in 1..n : ~(i <= 0)
      BY <1>1
    <3>2. QED
      BY <1>3, <3>1
  <2>2. g[0] = << >> /\ DOMAIN << >> = {}
    BY <1>2 DEF LoadSteps
  <2>3. QED
    BY <1>1, <2>1, <2>2
<1>6. ASSUME NEW k \in 1..n, k - 1 \in G PROVE k \in G
  <2> DEFINE s == g[k - 1]  file == files[k]  key == parse_key_file(file)
  <2>1. k \in 0..n /\ k - 1 \in 0..n
    BY <1>1
  <2>2. s \in A /\ g[k] = WithKeyOf(s, file)
    BY <1>2, <2>1 DEF LoadSteps, n
  <2>3. Good(k - 1)
    BY <1>6
  <2>4. \A i \in H : i \in Nat /\ (i <= k <=> i <= k - 1 \/ i = k)
    <3>1. ASSUME NEW i \in 1..n PROVE i \in Nat /\ (i <= k <=> i <= k - 1 \/ i = k)
      BY <1>1
    <3>2. QED
      BY <1>3, <3>1
  <2>5. CASE k \in H
    <3>1. key \in K /\ key.id = file.id /\ file.id \in I /\ Loads(file)
      BY <1>3, <1>4, <2>5
    <3>2. g[k] = add_key(s, key)
      BY <2>2, <3>1 DEF WithKeyOf
    <3> HIDE DEF key
    <3>3. /\ DOMAIN g[k] = DOMAIN s \union {file.id}
          /\ g[k][file.id] = key
          /\ \A i \in DOMAIN s : i # file.id => g[k][i] = s[i]
      <4> HIDE DEF s, file
      <4>1. s \in Stores(I, K) /\ key.id \in I
        BY <2>2, <3>1
      <4>2. Adds(Stores(I, K), s, key, add_key(s, key))
        BY <3>1, <4>1, AddedIs
      <4>3. QED
        BY <3>1, <3>2, <4>2 DEF Adds
    <3>4. DOMAIN g[k] = {files[i].id : i \in {i \in H : i <= k}}
      BY <2>3, <2>4, <2>5, <3>3
    <3>5. ASSUME NEW i \in H, i <= k, \A j \in H : i < j /\ j <= k => files[j].id # files[i].id
          PROVE  g[k][files[i].id] = parse_key_file(files[i])
      <4>1. CASE i = k
        BY <3>3, <4>1 DEF key
      <4>2. CASE i # k
        <5>1. i <= k - 1 /\ i < k /\ files[i].id # file.id
          BY <2>4, <2>5, <3>5, <4>2
        <5>2. s[files[i].id] = parse_key_file(files[i]) /\ files[i].id \in DOMAIN s
          BY <2>3, <2>4, <3>5, <5>1
        <5>3. QED
          BY <3>3, <5>1, <5>2
      <4>3. QED
        BY <4>1, <4>2
    <3>6. QED
      BY <2>1, <3>4, <3>5
  <2>6. CASE k \notin H
    <3>1. g[k] = s
      BY <1>3, <2>2, <2>6 DEF WithKeyOf
    <3>2. {i \in H : i <= k} = {i \in H : i <= k - 1}
      BY <2>4, <2>6
    <3>3. \A j \in H : j <= k <=> j <= k - 1
      BY <2>4, <2>6
    <3>4. Good(k)
      BY <2>3, <3>1, <3>2, <3>3
    <3>5. QED
      BY <2>1, <3>4
  <2>7. QED
    BY <2>5, <2>6
<1>7. n \in G
  <2> HIDE DEF G
  <2>1. \A k \in 1..n : k - 1 \in G => k \in G
    BY <1>6
  <2>2. \A k \in 0..n : k \in G
    BY <1>1, <1>5, <2>1, UpTo
  <2>3. QED
    BY <1>1, <2>2
<1>8. \A i \in H : i \in Nat /\ i <= n
  BY <1>1, <1>3
<1>9. {i \in H : i <= n} = H
  BY <1>8
<1>10. load_keys(files) = g[n] /\ g[n] \in A
  BY <1>1, <1>2 DEF LoadSteps
<1>11. QED
  BY <1>7, <1>8, <1>9, <1>10 DEF StoreOf, H, K

LEMMA StoreIsKeyed ==
  ASSUME NEW I, NEW P, NEW F, \A f \in F : f.id \in I \union {None} /\ f.public \in P,
         NEW files \in Seq(F)
  PROVE  KeyedBy(files, load_keys(files))
<1> DEFINE n == Len(files)
           K == KeysOf(I, P)
           H == Held(files)
           store == load_keys(files)
<1>1. n \in Nat /\ DOMAIN files = 1..n /\ \A i \in 1..n : files[i] \in F
  OBVIOUS
<1>2. StoreOf(I, K, files, store)
  BY StoreIs
<1>3. H \subseteq 1..n /\ \A i \in H : Loads(files[i])
  BY <1>1 DEF Held, Loads
<1> HIDE DEF H, store
<1>4. ASSUME NEW x \in DOMAIN store PROVE \E i \in LastOf(files) : x = files[i].id
  <2> DEFINE T == {i \in H : files[i].id = x}
  <2>1. T # {} /\ T \in SUBSET (1..n)
    BY <1>2, <1>3, <1>4 DEF StoreOf, H
  <2> HIDE DEF n, T
  <2>2. PICK i \in T : \A j \in T : j <= i
    <3>1. Max(T) \in T /\ \A j \in T : j <= Max(T)
      BY <1>1, <2>1, GreatestNumber
    <3>2. QED
      BY <3>1
  <2>3. \A j \in T : j \in Nat
    BY <1>1, <2>1
  <2>4. \A j \in H : j \in Nat
    BY <1>1, <1>3
  <2>5. i \in H /\ files[i].id = x
    BY <2>2 DEF T
  <2>6. ASSUME NEW j \in H, j > i PROVE files[j].id # files[i].id
    BY <2>2, <2>4, <2>5, <2>6 DEF T
  <2>7. i \in LastOf(files)
    BY <2>5, <2>6 DEF LastOf, H
  <2>8. QED
    BY <2>5, <2>7
<1>5. ASSUME NEW i \in LastOf(files)
      PROVE  /\ files[i].id \in DOMAIN store
             /\ store[files[i].id]
                  = [id |-> files[i].id, public |-> files[i].public, enabled |-> TRUE]
  <2> DEFINE file == files[i]
  <2>1. i \in H /\ \A j \in Held(files) : j > i => files[j].id # files[i].id
    BY DEF LastOf, H
  <2>2. file.id \in I \union {None} /\ file.public \in P /\ Loads(file)
    BY <1>1, <1>3, <2>1
  <2>3. file.id \in DOMAIN store /\ store[file.id] = parse_key_file(file)
    BY <1>2, <2>1 DEF StoreOf, H
  <2> HIDE DEF file
  <2>4. parse_key_file(file) = [id |-> file.id, public |-> file.public, enabled |-> TRUE]
    BY <2>2, KeyIs
  <2>5. QED
    BY <2>3, <2>4 DEF file
<1>6. QED
  BY <1>4, <1>5 DEF KeyedBy, store

\* If each key has an identifier of its own, the order of the files is no matter.
LEMMA StoreReversed ==
  ASSUME NEW I, NEW P, NEW F, \A f \in F : f.id \in I \union {None} /\ f.public \in P,
         NEW files \in Seq(F), Held(files) = LastOf(files)
  PROVE  load_keys(files) = load_keys(Reverse(files))
<1> DEFINE n == Len(files)
           K == KeysOf(I, P)
           back == Reverse(files)
           store == load_keys(files)
           other == load_keys(back)
<1>1. n \in Nat /\ DOMAIN files = 1..n /\ \A i \in 1..n : files[i] \in F
  OBVIOUS
<1>2. /\ back \in Seq(F) /\ DOMAIN back = 1..n
      /\ \A i \in 1..n : (n - i) + 1 \in 1..n /\ back[i] = files[(n - i) + 1]
  <2>1. back = [i \in 1..n |-> files[(n - i) + 1]]
    BY DEF Reverse
  <2>2. \A i \in 1..n : (n - i) + 1 \in 1..n
    BY <1>1
  <2> HIDE DEF n, back
  <2>3. back \in [1..n -> F]
    BY <1>1, <2>1, <2>2
  <2>4. back \in Seq(F)
    BY <1>1, <2>3
  <2>5. QED
    BY <2>1, <2>2, <2>4
<1> HIDE DEF back
<1>3. KeyedBy(files, store) /\ KeyedBy(back, other)
  BY <1>2, StoreIsKeyed
<1>4. StoreOf(I, K, files, store) /\ StoreOf(I, K, back, other)
  BY <1>2, StoreIs
<1>5. \A i \in 1..n : i \in Held(files) <=> Loads(files[i])
  BY <1>1 DEF Held, Loads
<1>6. \A i \in 1..n : i \in Held(back) <=> Loads(back[i])
  BY <1>2 DEF Held, Loads
<1>7. Held(files) \subseteq 1..n /\ Held(back) \subseteq 1..n
  BY <1>1, <1>2 DEF Held
<1> DEFINE Mirror(i) == (n - i) + 1
<1>8. \A i \in 1..n : Mirror(i) \in 1..n /\ Mirror(Mirror(i)) = i /\ back[i] = files[Mirror(i)]
  <2>1. \A i \in 1..n : (n - i) + 1 \in 1..n /\ (n - ((n - i) + 1)) + 1 = i
    BY <1>1
  <2>2. QED
    BY <1>2, <2>1
<1> HIDE DEF n, Mirror
<1>9. \A i \in 1..n : i \in Held(back) <=> Mirror(i) \in Held(files)
  BY <1>5, <1>6, <1>8
<1>10. \A i, j \in Held(files) : files[i].id = files[j].id => i = j
  <2>1. \A i, j \in Held(files) : j > i => files[j].id # files[i].id
    BY DEF LastOf
  <2>2. \A i, j \in Held(files) : i \in Int /\ j \in Int
    BY <1>1, <1>7
  <2>3. QED
    BY <2>1, <2>2
<1>11. \A i, j \in Held(back) : back[i].id = back[j].id => i = j
  <2>1. ASSUME NEW i \in Held(back), NEW j \in Held(back), back[i].id = back[j].id PROVE i = j
    <3>1. i \in 1..n /\ j \in 1..n
      BY <1>7
    <3>2. Mirror(i) \in Held(files) /\ Mirror(j) \in Held(files)
      BY <1>9, <3>1
    <3>3. Mirror(i) = Mirror(j)
      BY <1>8, <1>10, <2>1, <3>1, <3>2
    <3>4. QED
      BY <1>8, <3>1, <3>3
  <2>2. QED
    BY <2>1
<1>12. Held(back) = LastOf(back)
  <2>1. ASSUME NEW i \in Held(back), NEW j \in Held(back), j > i PROVE back[j].id # back[i].id
    <3>1. i \in Int /\ j \in Int
      BY <1>1, <1>7
    <3>2. i # j
      BY <2>1, <3>1
    <3>3. QED
      BY <1>11, <3>2
  <2>2. QED
    BY <2>1 DEF LastOf
<1>13. DOMAIN store = DOMAIN other
  <2>1. DOMAIN store = {files[i].id : i \in Held(files)}
        /\ DOMAIN other = {back[i].id : i \in Held(back)}
    BY <1>4 DEF StoreOf
  <2>2. ASSUME NEW i \in Held(files) PROVE \E j \in Held(back) : files[i].id = back[j].id
    <3>1. i \in 1..n /\ Mirror(i) \in 1..n /\ Mirror(Mirror(i)) = i
      BY <1>7, <1>8
    <3>2. Mirror(i) \in Held(back) /\ back[Mirror(i)] = files[i]
      BY <1>8, <1>9, <3>1
    <3>3. QED
      BY <3>2
  <2>3. ASSUME NEW j \in Held(back) PROVE \E i \in Held(files) : files[i].id = back[j].id
    <3>1. j \in 1..n
      BY <1>7
    <3>2. Mirror(j) \in Held(files) /\ back[j] = files[Mirror(j)]
      BY <1>8, <1>9, <3>1
    <3>3. QED
      BY <3>2
  <2> HIDE DEF store, other
  <2>4. QED
    BY <2>1, <2>2, <2>3
<1>14. ASSUME NEW x \in DOMAIN store PROVE store[x] = other[x]
  <2>1. PICK i \in Held(files) : x = files[i].id
    BY <1>3 DEF KeyedBy, LastOf
  <2>2. i \in 1..n /\ Mirror(i) \in Held(back) /\ back[Mirror(i)] = files[i]
    <3>1. i \in 1..n /\ Mirror(i) \in 1..n /\ Mirror(Mirror(i)) = i
      BY <1>7, <1>8
    <3>2. QED
      BY <1>8, <1>9, <3>1
  <2>3. store[x] = [id |-> files[i].id, public |-> files[i].public, enabled |-> TRUE]
    BY <1>3, <2>1 DEF KeyedBy
  <2>4. other[x] = [id |-> files[i].id, public |-> files[i].public, enabled |-> TRUE]
    <3> DEFINE j == Mirror(i)
    <3>1. j \in LastOf(back) /\ back[j] = files[i]
      BY <1>12, <2>2
    <3> HIDE DEF j, other
    <3>2. \A k \in LastOf(back) :
            other[back[k].id] = [id |-> back[k].id, public |-> back[k].public, enabled |-> TRUE]
      BY <1>3 DEF KeyedBy
    <3>3. other[back[j].id] = [id |-> back[j].id, public |-> back[j].public, enabled |-> TRUE]
      BY <3>1, <3>2
    <3>4. QED
      BY <2>1, <3>1, <3>3
  <2>5. QED
    BY <2>3, <2>4
<1>15. PICK D, E : store \in [D -> K] /\ other \in [E -> K]
  BY <1>4 DEF StoreOf, Stores
<1> HIDE DEF store, other, K
<1>16. /\ store = [x \in DOMAIN store |-> store[x]]
       /\ other = [x \in DOMAIN other |-> other[x]]
  BY <1>15
<1>17. [x \in DOMAIN store |-> store[x]] = [x \in DOMAIN other |-> other[x]]
  BY <1>13, <1>14
<1>18. store = other
  BY <1>16, <1>17, Zenon
<1>19. QED
  BY <1>18 DEF store, other, back

\* Keys are enabled and stand under their identifiers.
LEMMA KeyedHas ==
  ASSUME NEW files, NEW store, KeyedBy(files, store), NEW i \in LastOf(files)
  PROVE  /\ files[i].id \in DOMAIN store
         /\ store[files[i].id].id = files[i].id
         /\ store[files[i].id].public = files[i].public
         /\ store[files[i].id].enabled
<1>1. /\ files[i].id \in DOMAIN store
      /\ store[files[i].id] = [id |-> files[i].id, public |-> files[i].public, enabled |-> TRUE]
  BY Zenon DEF KeyedBy
<1>2. QED
  BY <1>1

(***************************************************************************)
(* Whatever key files there are, in whatever order, a verdict follows the  *)
(* keys of the last file of each identifier and nothing else               *)
(* (verification.rs:138, 256).                                             *)
(***************************************************************************)
THEOREM VerdictsFollowKeys ==
  ASSUME NEW I, NEW P, NEW F, AreKeyFiles(F, I, P),
         NEW files \in Seq(F), NEW allow_unsigned \in BOOLEAN,
         NEW package, package.readable \in BOOLEAN, NEW signature, NEW signing_key
  PROVE  VerdictFollowsKeys(files, allow_unsigned, package, signature, signing_key)
<1> DEFINE store == load_keys(files)
           last  == LastOf(files)
           verdicts == verify_package(store, allow_unsigned, package, signature, signing_key)
           Fits(k) == signature.signer = k.public /\ signature.content = package.content
           fitting == {k \in enabled_keys(store) : Verifies(k, package, signature)}
<1>0. \A f \in F : f.id \in I \union {None} /\ f.public \in P
  BY DEF AreKeyFiles
<1>1. KeyedBy(files, store)
  BY <1>0, StoreIsKeyed
<1>2. Held(files) = last => store = load_keys(Reverse(files))
  BY <1>0, StoreReversed
<1> HIDE DEF store
<1>3. \A x \in DOMAIN store : store[x].id = x /\ store[x].enabled
  <2>1. ASSUME NEW x \in DOMAIN store PROVE store[x].id = x /\ store[x].enabled
    <3>1. PICK i \in LastOf(files) : x = files[i].id
      BY <1>1, Zenon DEF KeyedBy
    <3>2. QED
      BY <1>1, <3>1, KeyedHas
  <2>2. QED
    BY <2>1
<1>4. enabled_keys(store) = {store[x] : x \in DOMAIN store}
  BY <1>3 DEF enabled_keys
<1>5. fitting = {k \in enabled_keys(store) : Fits(k)}
  BY DEF Verifies
<1>6. (\E k \in fitting : TRUE)
        <=> signature.content = package.content
            /\ \E i \in last : files[i].public = signature.signer
  <2>1. ASSUME NEW k \in fitting PROVE \E i \in last : files[i].public = k.public
    <3>1. PICK x \in DOMAIN store : k = store[x]
      BY <1>4
    <3>2. PICK i \in last : x = files[i].id
      BY <1>1 DEF KeyedBy
    <3>3. k.public = files[i].public
      BY <1>1, <3>1, <3>2, KeyedHas
    <3>4. QED
      BY <3>3
  <2>2. ASSUME NEW i \in last, files[i].public = signature.signer,
               signature.content = package.content
        PROVE  \E k \in fitting : TRUE
    <3>1. files[i].id \in DOMAIN store /\ store[files[i].id].public = files[i].public
      BY <1>1, KeyedHas
    <3>2. store[files[i].id] \in fitting
      BY <1>4, <1>5, <2>2, <3>1
    <3>3. QED
      BY <3>2
  <2>3. \A k \in fitting : Fits(k)
    BY <1>5
  <2>4. QED
    BY <2>1, <2>2, <2>3
<1> HIDE DEF fitting, last
<1>7. verdicts =
        IF signature = None
        THEN {SignatureCheck(IF allow_unsigned THEN "Valid" ELSE "MissingSignature", None)}
        ELSE IF ~package.readable THEN {SignatureCheck("Error", None)}
        ELSE IF fitting # {} THEN {SignatureCheck("Valid", k.id) : k \in fitting}
        ELSE IF signing_key \notin DOMAIN store \union {None}
             THEN {SignatureCheck("UntrustedKey", signing_key)}
        ELSE {SignatureCheck("Invalid", signing_key)}
  BY DEF verify_package, fitting
<1> HIDE DEF verdicts
<1>8. /\ \A v, w \in verdicts : v.outcome = w.outcome
      /\ \A v \in verdicts :
           v.outcome = "Valid"
             <=> IF signature = None THEN allow_unsigned
                 ELSE package.readable /\ \E k \in fitting : TRUE
  BY <1>7 DEF SignatureCheck
<1>9. ASSUME NEW v \in verdicts
      PROVE  (audit_verification(v) = "Info") = (v.outcome = "Valid")
  BY DEF audit_verification
<1>10. ASSUME NEW v \in verdicts, v.outcome = "Valid", signature # None
       PROVE  /\ verify_integrity(package, signature.content).outcome = "Valid"
              /\ is_trusted(store, signature.signer)
              /\ \A w \in verify_package(remove_key(store, v.key), allow_unsigned, package,
                                          signature, signing_key) :
                   w.outcome = "Valid" => w.key # v.key
  <2>1. PICK k \in fitting : TRUE
    BY <1>8, <1>10
  <2>2. package.readable /\ signature.content = package.content
    BY <1>6, <1>8, <1>10
  <2>3. verify_integrity(package, signature.content).outcome = "Valid"
    BY <2>2 DEF verify_integrity, SignatureCheck
  <2>4. is_trusted(store, signature.signer)
    <3>1. k \in enabled_keys(store) /\ k.public = signature.signer
      BY <1>5
    <3>2. QED
      BY <3>1 DEF is_trusted
  <2>5. ASSUME NEW w \in verify_package(remove_key(store, v.key), allow_unsigned, package,
                                        signature, signing_key),
               w.outcome = "Valid"
        PROVE  w.key # v.key
    <3> DEFINE rest == remove_key(store, v.key)
               others == {h \in enabled_keys(rest) : Verifies(h, package, signature)}
    <3>1. DOMAIN rest = DOMAIN store \ {v.key} /\ \A x \in DOMAIN rest : rest[x] = store[x]
      BY DEF remove_key
    <3> HIDE DEF rest
    <3>2. \A h \in enabled_keys(rest) : \E x \in DOMAIN rest : h = rest[x]
      BY DEF enabled_keys
    <3>3. \A h \in others : h.id # v.key
      BY <1>3, <3>1, <3>2
    <3>4. w \in IF others # {} THEN {SignatureCheck("Valid", h.id) : h \in others}
                ELSE IF signing_key \notin DOMAIN rest \union {None}
                     THEN {SignatureCheck("UntrustedKey", signing_key)}
                ELSE {SignatureCheck("Invalid", signing_key)}
      BY <1>10, <2>2, <2>5 DEF verify_package, rest
    <3> HIDE DEF others
    <3>5. PICK h \in others : w.key = h.id
      BY <2>5, <3>4 DEF SignatureCheck
    <3>6. QED
      BY <3>3, <3>5
  <2>6. QED
    BY <2>3, <2>4, <2>5
<1>11. \A v \in verdicts :
         v.outcome = "Valid"
           <=> IF signature = None THEN allow_unsigned
               ELSE /\ package.readable /\ signature.content = package.content
                    /\ \E i \in last : files[i].public = signature.signer
  BY <1>6, <1>8
<1>12. Held(files) = last => store = load_keys(Reverse(files))
  BY <1>2
<1>13. last = {i \in Held(files) : \A j \in Held(files) : j > i => files[j].id # files[i].id}
  BY DEF last, LastOf
<1>14. QED
  BY <1>8, <1>9, <1>10, <1>11, <1>12, <1>13 DEF VerdictFollowsKeys, verdicts, store

-----------------------------------------------------------------------------
(***************************************************************************)
(* Texts of two parts.  Where the second begins with what separates, or    *)
(* the first ends with it, the pieces of the whole are those of the one    *)
(* and of the other; so the numbers of a release begin with those of the   *)
(* kernel it names.                                                        *)
(***************************************************************************)
\* Another character changes the last piece only, which is one of the second
\* list where two lists of pieces stand one after the other.
LEMMA SplitAfter ==
  ASSUME NEW S, NEW p \in Seq(Seq(S)), NEW q \in Seq(Seq(S)) \ {<< >>}, NEW c \in S, NEW sep
  PROVE  Split(p \o q, c, sep) = p \o Split(q, c, sep)
<1> DEFINE Q == Seq(S)
           m == Len(p)
           n == Len(q)
           u == p \o q
           v == Split(q, c, sep)
           w == p \o v
           x == Split(u, c, sep)
<1>1. m \in Nat /\ n \in Nat /\ n # 0
  OBVIOUS
<1>2. Joined(Q, p, q, u)
  BY JoinedIs
<1>3. SplitHas(S, q, c, sep, v)
  BY SplitGives
<1>4. v \in Seq(Q) /\ v # << >>
  BY <1>3 DEF SplitHas
<1> HIDE DEF Q, u, v
<1>5. Joined(Q, p, v, w)
  BY <1>4, JoinedIs DEF Q
<1>6. u \in Seq(Q) /\ Len(u) = m + n /\ u # << >>
  <2>1. u \in Seq(Q) /\ Len(u) = m + n
    BY <1>2 DEF Joined
  <2>2. Len(u) # 0
    BY <1>1, <2>1
  <2>3. QED
    BY <2>1, <2>2
<1>7. SplitHas(S, u, c, sep, x)
  <2> HIDE DEF x, m, n
  <2>1. QED
    BY <1>6, SplitGives DEF x, Q
<1> HIDE DEF w, x, m, n
<1>8. x \in Seq(Q) /\ w \in Seq(Q) /\ Len(w) = m + Len(v)
  BY <1>5, <1>7 DEF SplitHas, Joined, Q, m
<1>9. /\ \A i \in 1..m : u[i] = p[i] /\ w[i] = p[i]
      /\ \A i \in 1..n : u[m + i] = q[i]
      /\ \A i \in 1..Len(v) : w[m + i] = v[i]
  BY <1>2, <1>5 DEF Joined, m, n
<1>10. CASE c = sep
  <2>1. /\ Len(v) = n + 1 /\ v[n + 1] = << >>
        /\ \A i \in 1..n : v[i] = q[i]
        /\ Len(x) = (m + n) + 1 /\ x[(m + n) + 1] = << >>
        /\ \A i \in 1..(m + n) : x[i] = u[i]
    BY <1>3, <1>6, <1>7, <1>10 DEF SplitHas, m, n
  <2>2. Len(x) = Len(w)
    BY <1>1, <1>8, <2>1
  <2>3. ASSUME NEW i \in 1..Len(x) PROVE x[i] = w[i]
    <3>1. CASE i \in 1..m
      <4>1. i \in 1..(m + n)
        BY <1>1, <3>1
      <4>2. QED
        BY <1>9, <2>1, <3>1, <4>1
    <3>2. CASE i \notin 1..m /\ i # (m + n) + 1
      <4> DEFINE j == i - m
      <4>1. j \in 1..n /\ j \in 1..(n + 1) /\ i \in 1..(m + n) /\ m + j = i
        BY <1>1, <2>1, <3>2
      <4> HIDE DEF j
      <4>2. u[i] = q[j] /\ w[i] = v[j]
        BY <1>9, <2>1, <4>1
      <4>3. QED
        BY <2>1, <4>1, <4>2
    <3>3. CASE i = (m + n) + 1
      <4>1. n + 1 \in 1..(n + 1) /\ m + (n + 1) = i
        BY <1>1, <3>3
      <4>2. QED
        BY <1>9, <2>1, <3>3, <4>1
    <3>4. QED
      BY <3>1, <3>2, <3>3
  <2>4. QED
    BY <1>8, <2>2, <2>3, SameMembers DEF w, x, u, v
<1>11. CASE c # sep
  <2>1. /\ Len(v) = n /\ v[n] = Append(q[n], c)
        /\ \A i \in 1..n : i # n => v[i] = q[i]
        /\ Len(x) = m + n /\ x[m + n] = Append(u[m + n], c)
        /\ \A i \in 1..(m + n) : i # m + n => x[i] = u[i]
    BY <1>3, <1>6, <1>7, <1>11 DEF SplitHas, m, n
  <2>2. Len(x) = Len(w)
    BY <1>1, <1>8, <2>1
  <2>3. ASSUME NEW i \in 1..Len(x) PROVE x[i] = w[i]
    <3>1. CASE i \in 1..m
      <4>1. i \in 1..(m + n) /\ i # m + n
        BY <1>1, <3>1
      <4>2. QED
        BY <1>9, <2>1, <3>1, <4>1
    <3>2. CASE i \notin 1..m /\ i # m + n
      <4> DEFINE j == i - m
      <4>1. j \in 1..n /\ j # n /\ i \in 1..(m + n) /\ m + j = i
        BY <1>1, <2>1, <3>2
      <4> HIDE DEF j
      <4>2. u[i] = q[j] /\ w[i] = v[j]
        BY <1>9, <2>1, <4>1
      <4>3. QED
        BY <2>1, <3>2, <4>1, <4>2
    <3>3. CASE i = m + n
      <4>1. n \in 1..n
        BY <1>1
      <4>2. QED
        BY <1>9, <2>1, <3>3, <4>1
    <3>4. QED
      BY <3>1, <3>2, <3>3
  <2>4. QED
    BY <1>8, <2>2, <2>3, SameMembers DEF w, x, u, v
<1>12. QED
  BY <1>10, <1>11

LEMMA BetweenIs ==
  ASSUME NEW S, NEW sep \in S, NEW s \in Seq(S), NEW t \in Seq(S)
  PROVE  Between(S, s, sep, t, s \o <<sep>> \o t)
<1> DEFINE m == Len(s)
           n == Len(t)
           one == <<sep>>
           begun == s \o one
           u == begun \o t
<1>1. m \in Nat /\ n \in Nat /\ one \in Seq(S) /\ Len(one) = 1 /\ one[1] = sep
  OBVIOUS
<1> HIDE DEF one
<1>2. Joined(S, s, one, begun)
  BY <1>1, JoinedIs
<1> HIDE DEF begun
<1>3. begun \in Seq(S) /\ Len(begun) = m + 1
  BY <1>1, <1>2 DEF Joined
<1>4. Joined(S, begun, t, u)
  BY <1>3, JoinedIs, Zenon
<1>5. /\ \A i \in 1..m : begun[i] = s[i]
      /\ begun[m + 1] = sep
  <2>1. 1 \in 1..Len(one)
    BY <1>1
  <2>2. QED
    BY <1>1, <1>2, <2>1 DEF Joined
<1> HIDE DEF u
<1>6. /\ u \in Seq(S) /\ Len(u) = (m + 1) + n
      /\ \A i \in 1..(m + 1) : u[i] = begun[i]
      /\ \A i \in 1..n : u[(m + 1) + i] = t[i]
  BY <1>3, <1>4 DEF Joined
<1>7. (\A i \in 1..m : i \in 1..(m + 1)) /\ m + 1 \in 1..(m + 1)
  BY <1>1
<1> HIDE DEF m, n
<1>8. Between(S, s, sep, t, u)
  BY <1>5, <1>6, <1>7 DEF Between, m, n
<1>9. QED
  BY <1>8 DEF u, begun, one

\* Such a text is split into the pieces of the one and of the other.
LEMMA SplitOfTwo ==
  ASSUME NEW S, NEW sep \in S, NEW s \in Seq(S), NEW t \in Seq(S), NEW u, Between(S, s, sep, t, u)
  PROVE  SplitBy(u, sep) = SplitBy(s, sep) \o SplitBy(t, sep)
<1> DEFINE m == Len(s)
           n == Len(t)
           A == Seq(Seq(S)) \ {<< >>}
<1> HIDE DEF A
<1>1. m \in Nat /\ n \in Nat /\ \A i \in 1..n : t[i] \in S
  OBVIOUS
<1>2. /\ u \in Seq(S) /\ Len(u) = (m + 1) + n /\ u[m + 1] = sep
      /\ \A i \in 1..m : u[i] = s[i]
      /\ \A i \in 1..n : u[(m + 1) + i] = t[i] /\ t[i] \in S
  <2>1. Between(S, s, sep, t, u) /\ Len(s) = m /\ Len(t) = n
    OBVIOUS
  <2> HIDE DEF m, n
  <2>2. QED
    BY <1>1, <2>1 DEF Between
<1> USE DEF A
<1>3. PICK f : SplitSteps(S, s, sep, f)
  BY SplitRuns DEF Splits
<1>4. PICK g : SplitSteps(S, t, sep, g)
  BY SplitRuns DEF Splits
<1>5. PICK h : SplitSteps(S, u, sep, h)
  BY <1>2, SplitRuns DEF Splits
<1>6. /\ \A k \in 0..m : f[k] \in A
      /\ f[0] = << << >> >> /\ SplitBy(s, sep) = f[m]
      /\ \A k \in 1..m : f[k] = Split(f[k - 1], s[k], sep)
  BY <1>3 DEF SplitSteps
<1>7. /\ \A k \in 0..n : g[k] \in A
      /\ g[0] = << << >> >> /\ SplitBy(t, sep) = g[n]
      /\ \A k \in 1..n : g[k] = Split(g[k - 1], t[k], sep)
  BY <1>4 DEF SplitSteps
<1>8. /\ h[0] = << << >> >> /\ SplitBy(u, sep) = h[(m + 1) + n]
      /\ \A k \in 1..((m + 1) + n) : h[k] = Split(h[k - 1], u[k], sep)
  BY <1>2, <1>5 DEF SplitSteps
<1> HIDE DEF A, m, n
<1>9. h[m] = f[m]
  <2> DEFINE G == {k \in 0..m : h[k] = f[k]}
  <2>1. 0 \in G
    BY <1>1, <1>6, <1>8
  <2>2. ASSUME NEW k \in 1..m, k - 1 \in G PROVE k \in G
    <3>1. k \in 0..m /\ k \in 1..((m + 1) + n)
      BY <1>1
    <3>2. QED
      BY <1>2, <1>6, <1>8, <2>2, <3>1
  <2>3. m \in G
    <3> HIDE DEF G
    <3>1. \A k \in 1..m : k - 1 \in G => k \in G
      BY <2>2
    <3>2. \A k \in 0..m : k \in G
      BY <1>1, <2>1, <3>1, UpTo
    <3>3. QED
      BY <1>1, <3>2
  <2>4. QED
    BY <2>3
<1>10. f[m] \in Seq(Seq(S)) \ {<< >>}
  BY <1>1, <1>6 DEF A
<1> DEFINE p == f[m]
<1>11. h[m + 1] = p \o << << >> >>
  <2>1. m + 1 \in 1..((m + 1) + n) /\ (m + 1) - 1 = m
    BY <1>1
  <2>2. h[m + 1] = Split(p, sep, sep)
    BY <1>2, <1>8, <1>9, <2>1
  <2>3. Split(p, sep, sep) = Append(p, << >>)
    BY DEF Split
  <2> DEFINE Q == Seq(S)
  <2>4. << >> \in Q /\ p \in Seq(Q)
    BY <1>10
  <2> HIDE DEF p, Q
  <2>5. Append(p, << >>) = p \o << << >> >>
    BY <2>4
  <2>6. QED
    BY <2>2, <2>3, <2>5
<1> HIDE DEF p
<1>12. h[(m + 1) + n] = p \o g[n]
  <2> DEFINE G == {k \in 0..n : h[(m + 1) + k] = p \o g[k]}
  <2>1. 0 \in G
    <3>1. (m + 1) + 0 = m + 1 /\ 0 \in 0..n
      BY <1>1
    <3>2. QED
      BY <1>7, <1>11, <3>1
  <2>2. ASSUME NEW k \in 1..n, k - 1 \in G PROVE k \in G
    <3> DEFINE q == g[k - 1]  c == t[k]
    <3>1. k \in 0..n /\ k - 1 \in 0..n /\ (m + 1) + k \in 1..((m + 1) + n)
          /\ ((m + 1) + k) - 1 = (m + 1) + (k - 1)
      BY <1>1
    <3>2. h[(m + 1) + k] = Split(p \o q, c, sep)
      BY <1>2, <1>8, <2>2, <3>1
    <3>3. p \in Seq(Seq(S)) /\ q \in Seq(Seq(S)) \ {<< >>} /\ c \in S
      BY <1>2, <1>7, <1>10, <3>1 DEF A, p
    <3>4. g[k] = Split(q, c, sep)
      BY <1>7
    <3> HIDE DEF q, c
    <3>5. Split(p \o q, c, sep) = p \o Split(q, c, sep)
      BY <3>3, SplitAfter
    <3>6. QED
      BY <3>1, <3>2, <3>4, <3>5
  <2>3. n \in G
    <3> HIDE DEF G
    <3>1. \A k \in 1..n : k - 1 \in G => k \in G
      BY <2>2
    <3>2. \A k \in 0..n : k \in G
      BY <1>1, <2>1, <3>1, UpTo
    <3>3. QED
      BY <1>1, <3>2
  <2>4. QED
    BY <2>3
<1>13. QED
  BY <1>6, <1>7, <1>8, <1>12 DEF p

\* A text without a separator is one piece.
LEMMA SplitOfOne ==
  ASSUME NEW S, NEW sep, NEW s \in Seq(S), \A i \in 1..Len(s) : s[i] # sep
  PROVE  Len(SplitBy(s, sep)) = 1 /\ SplitBy(s, sep)[1] = s
<1> DEFINE N == Len(s)
           segments == SplitBy(s, sep)
<1>1. N \in Nat /\ \A i \in 1..N : s[i] \in S
  OBVIOUS
<1>2. PICK h : SplitSteps(S, s, sep, h)
  BY SplitRuns DEF Splits
<1>3. /\ \A k \in 0..N : h[k] \in Seq(Seq(S)) \ {<< >>}
      /\ h[0] = << << >> >> /\ segments = h[N]
      /\ \A k \in 1..N : h[k] = Split(h[k - 1], s[k], sep)
  BY <1>2 DEF SplitSteps
<1>4. segments \in Seq(Seq(S))
  BY SplitIsTyped
<1> HIDE DEF segments
<1> DEFINE Same(k) == /\ Len(h[k]) = 1 /\ Len(h[k][1]) = k
                      /\ \A i \in 1..k : h[k][1][i] = s[i]
           G == {k \in 0..N : Same(k)}
<1>5. 0 \in G
  <2>1. Len(h[0]) = 1 /\ h[0][1] = << >> /\ Len(<< >>) = 0 /\ 1..0 = {} /\ 0 \in 0..N
    BY <1>1, <1>3
  <2>2. QED
    BY <2>1
<1>6. ASSUME NEW k \in 1..N, k - 1 \in G PROVE k \in G
  <2> DEFINE q == h[k - 1]  u == h[k]  c == s[k]  piece == q[1]
  <2>1. k \in 0..N /\ k - 1 \in 0..N /\ c \in S /\ c # sep
    BY <1>1
  <2>2. SplitHas(S, q, c, sep, u)
    <3>1. u = Split(q, c, sep) /\ q \in Seq(Seq(S)) \ {<< >>}
      BY <1>3, <2>1
    <3> HIDE DEF q, u, c
    <3>2. QED
      BY <2>1, <3>1, SplitGives
  <2>3. /\ Len(q) = 1 /\ Len(piece) = k - 1
        /\ \A i \in 1..(k - 1) : piece[i] = s[i]
    BY <1>6
  <2>4. q \in Seq(Seq(S))
    BY <1>3, <2>1
  <2> HIDE DEF q, u, c
  <2>5. Len(u) = 1 /\ u[1] = Append(piece, c)
    BY <2>1, <2>2, <2>3 DEF SplitHas
  <2>6. piece \in Seq(S)
    <3> DEFINE Q == Seq(S)
    <3>1. q \in Seq(Q)
      BY <2>4
    <3> HIDE DEF Q
    <3>2. Len(q) = 1
      BY <2>3
    <3>3. \A i \in 1..Len(q) : q[i] \in Q
      BY <3>1
    <3>4. 1 \in 1..1
      OBVIOUS
    <3>5. QED
      BY <3>2, <3>3, <3>4 DEF Q
  <2> HIDE DEF piece
  <2>7. /\ Len(Append(piece, c)) = (k - 1) + 1 /\ Append(piece, c)[(k - 1) + 1] = c
        /\ \A i \in 1..(k - 1) : Append(piece, c)[i] = piece[i]
    BY <2>1, <2>3, <2>6, AppendIs
  <2>8. (k - 1) + 1 = k /\ \A i \in 1..k : i \in 1..(k - 1) \/ i = k
    BY <2>1
  <2> DEFINE longer == Append(piece, c)
  <2> HIDE DEF longer
  <2>9. Len(longer) = k /\ \A i \in 1..k : longer[i] = s[i]
    <3>1. longer[k] = c /\ \A i \in 1..(k - 1) : longer[i] = s[i]
      BY <2>3, <2>7, <2>8 DEF longer
    <3>2. Len(longer) = k
      BY <2>7, <2>8 DEF longer
    <3>3. QED
      BY <2>8, <3>1, <3>2 DEF c
  <2>10. u[1] = longer
    BY <2>5 DEF longer
  <2>11. QED
    BY <2>1, <2>5, <2>9, <2>10 DEF u
<1>7. Same(N)
  <2> HIDE DEF Same
  <2>1. \A k \in 1..N : k - 1 \in G => k \in G
    BY <1>6
  <2> HIDE DEF G
  <2>2. \A k \in 0..N : k \in G
    BY <1>1, <1>5, <2>1, UpTo
  <2>3. N \in G
    BY <1>1, <2>2
  <2>4. QED
    BY <2>3 DEF G
<1> DEFINE piece == segments[1]
<1>8. Len(segments) = 1 /\ Len(piece) = N /\ \A i \in 1..N : piece[i] = s[i]
  BY <1>3, <1>7
<1>9. piece \in Seq(S)
  <2> DEFINE Q == Seq(S)
  <2>1. segments \in Seq(Q)
    BY <1>4
  <2> HIDE DEF Q
  <2>2. \A i \in 1..Len(segments) : segments[i] \in Q
    BY <2>1
  <2>3. 1 \in 1..1
    OBVIOUS
  <2>4. QED
    BY <1>8, <2>2, <2>3 DEF Q
<1> HIDE DEF piece
<1>10. piece = s
  BY <1>8, <1>9, SameMembers
<1>11. QED
  BY <1>8, <1>10 DEF piece, segments

LEMMA FilterBegins ==
  ASSUME NEW S, NEW s \in Seq(S), NEW u \in Seq(S), Begins(s, u),
         NEW X, NEW Y, \A i \in 1..Len(s) : s[i] \in X <=> s[i] \in Y
  PROVE  Begins(filter(s, X), filter(u, Y))
<1> DEFINE m == Len(s)
           n == Len(u)
<1>1. m \in Nat /\ n \in Nat /\ m <= n /\ \A i \in 1..m : u[i] = s[i]
  BY DEF Begins
<1>2. PICK f : FilterSteps(S, s, X, f)
  BY FilterRuns DEF Filters
<1>3. PICK h : FilterSteps(S, u, Y, h)
  BY FilterRuns DEF Filters
<1>4. /\ f[0] = << >> /\ filter(s, X) = f[m]
      /\ \A k \in 1..m : f[k] = IF s[k] \in X THEN Append(f[k - 1], s[k]) ELSE f[k - 1]
  BY <1>2 DEF FilterSteps
<1>5. /\ h[0] = << >> /\ filter(u, Y) = h[n]
      /\ \A k \in 0..n : h[k] \in Seq(S)
      /\ \A k \in 1..n : h[k] = IF u[k] \in Y THEN Append(h[k - 1], u[k]) ELSE h[k - 1]
  BY <1>3 DEF FilterSteps
<1>6. \A k \in 1..n : u[k] \in S
  OBVIOUS
<1> HIDE DEF m, n
<1>7. h[m] = f[m]
  <2> DEFINE G == {k \in 0..m : h[k] = f[k]}
  <2>1. 0 \in G
    BY <1>1, <1>4, <1>5
  <2>2. ASSUME NEW k \in 1..m, k - 1 \in G PROVE k \in G
    <3>1. k \in 0..m /\ k \in 1..n
      BY <1>1
    <3>2. u[k] = s[k] /\ (s[k] \in X <=> s[k] \in Y)
      BY <1>1 DEF m
    <3>3. QED
      BY <1>4, <1>5, <2>2, <3>1, <3>2
  <2>3. m \in G
    <3> HIDE DEF G
    <3>1. \A k \in 1..m : k - 1 \in G => k \in G
      BY <2>2
    <3>2. \A k \in 0..m : k \in G
      BY <1>1, <2>1, <3>1, UpTo
    <3>3. QED
      BY <1>1, <3>2
  <2>4. QED
    BY <2>3
<1>8. Begins(h[m], h[n])
  <2> DEFINE G == {k \in 0..n : m <= k => Begins(h[m], h[k])}
  <2>1. 0 \in G
    <3>1. m <= 0 => m = 0
      BY <1>1
    <3>2. Len(h[0]) \in Nat /\ 0 \in 0..n
      BY <1>1, <1>5
    <3>3. Begins(h[0], h[0])
      BY <3>2 DEF Begins
    <3>4. QED
      BY <3>1, <3>2, <3>3
  <2>2. ASSUME NEW k \in 1..n, k - 1 \in G PROVE k \in G
    <3> DEFINE t == h[k - 1]  c == u[k]
    <3>1. k \in 0..n /\ k - 1 \in 0..n /\ c \in S /\ m \in 0..n /\ (m <= k => m = k \/ m <= k - 1)
      BY <1>1, <1>6
    <3>2. t \in Seq(S) /\ h[m] \in Seq(S)
      BY <1>5, <3>1
    <3>3. h[k] = t \/ h[k] = Append(t, c)
      BY <1>5
    <3>4. Len(h[m]) \in Nat /\ Len(t) \in Nat
      BY <3>2
    <3>5. Begins(h[m], h[m])
      BY <3>4 DEF Begins
    <3>6. ASSUME Begins(h[m], t) PROVE Begins(h[m], h[k])
      <4> HIDE DEF t, c
      <4>1. CASE h[k] = t
        BY <3>6, <4>1
      <4>2. CASE h[k] = Append(t, c)
        <5>1. Len(h[k]) = Len(t) + 1 /\ \A i \in 1..Len(t) : h[k][i] = t[i]
          BY <3>1, <3>2, <4>2, AppendIs
        <5>2. Len(h[m]) <= Len(t) /\ \A i \in 1..Len(h[m]) : t[i] = h[m][i]
          BY <3>6 DEF Begins
        <5>3. Len(h[m]) <= Len(h[k]) /\ \A i \in 1..Len(h[m]) : i \in 1..Len(t)
          BY <3>4, <5>1, <5>2
        <5>4. QED
          BY <5>1, <5>2, <5>3 DEF Begins
      <4>3. QED
        BY <3>3, <4>1, <4>2
    <3>7. QED
      BY <2>2, <3>1, <3>5, <3>6
  <2>3. n \in G
    <3> HIDE DEF G
    <3>1. \A k \in 1..n : k - 1 \in G => k \in G
      BY <2>2
    <3>2. \A k \in 0..n : k \in G
      BY <1>1, <2>1, <3>1, UpTo
    <3>3. QED
      BY <1>1, <3>2
  <2>4. QED
    BY <1>1, <2>3
<1>9. QED
  BY <1>4, <1>5, <1>7, <1>8

LEMMA KernelNumbersAre ==
  ASSUME NEW release
  PROVE  KernelNumbers(release) = NumbersOf(SplitBy(Separated(release), "."))
BY DEF KernelNumbers, NumbersOf, Numeric, Separated

LEMMA SeparatedIs ==
  ASSUME NEW S, NEW release \in Seq(S)
  PROVE  /\ Separated(release) \in Seq(S \union {"."})
         /\ Len(Separated(release)) = Len(release)
         /\ \A i \in 1..Len(release) :
              Separated(release)[i] = IF release[i] \in Digits THEN release[i] ELSE "."
<1> DEFINE n == Len(release)
           T == S \union {"."}
           s == Separated(release)
<1>1. n \in Nat /\ DOMAIN release = 1..n /\ \A i \in 1..n : release[i] \in S
  OBVIOUS
<1>2. s = [i \in 1..n |-> IF release[i] \in Digits THEN release[i] ELSE "."]
  BY <1>1 DEF Separated
<1>3. \A i \in 1..n : (IF release[i] \in Digits THEN release[i] ELSE ".") \in T
  BY <1>1
<1> HIDE DEF s, n, T
<1>4. s \in [1..n -> T]
  BY <1>2, <1>3
<1>5. s \in Seq(T) /\ Len(s) = n
  BY <1>1, <1>4
<1>6. QED
  BY <1>2, <1>5 DEF s, n, T

\* The numbers are those of the pieces that are one.
LEMMA NumbersOfAre ==
  ASSUME NEW S, NEW parts \in Seq(Seq(S))
  PROVE  /\ NumbersOf(parts) \in Seq(Nat)
         /\ Len(NumbersOf(parts)) = Len(filter(parts, Numeric(parts)))
         /\ \A i \in 1..Len(NumbersOf(parts)) :
              NumbersOf(parts)[i] = ParseNumber(filter(parts, Numeric(parts))[i])[1]
<1> DEFINE Q == Seq(S)
           read == filter(parts, Numeric(parts))
           n == Len(read)
           numbers == NumbersOf(parts)
<1>1. read \in Seq(Q) /\ Range(read) = Range(parts) \cap Numeric(parts)
  <2> HIDE DEF Q
  <2>1. parts \in Seq(Q)
    BY DEF Q
  <2>2. QED
    BY <2>1, FilterIs
<1>2. numbers = [i \in DOMAIN read |-> ParseNumber(read[i])[1]]
  BY DEF NumbersOf
<1> HIDE DEF Q, read, numbers
<1>3. n \in Nat /\ DOMAIN read = 1..n /\ \A i \in 1..n : read[i] \in Q
  BY <1>1
<1>4. \A i \in 1..n : ParseNumber(read[i])[1] \in Nat
  <2>1. ASSUME NEW i \in 1..n PROVE ParseNumber(read[i])[1] \in Nat
    <3>1. read[i] \in Numeric(parts)
      BY <1>1, <1>3 DEF Range
    <3>2. read[i] \in Seq(S) /\ ParseNumber(read[i]) # << >>
      BY <1>3, <3>1 DEF Numeric, Q
    <3>3. QED
      BY <3>2, ParseNumberIs
  <2>2. QED
    BY <2>1
<1> HIDE DEF n
<1>5. numbers \in [1..n -> Nat]
  BY <1>2, <1>3, <1>4
<1>6. numbers \in Seq(Nat) /\ Len(numbers) = n
  BY <1>3, <1>5
<1>7. \A i \in 1..n : numbers[i] = ParseNumber(read[i])[1]
  BY <1>2, <1>3
<1>8. QED
  BY <1>6, <1>7 DEF numbers, n, read

\* More pieces add numbers at the end.
LEMMA NumbersBegin ==
  ASSUME NEW S, NEW s \in Seq(Seq(S)), NEW u \in Seq(Seq(S)), Begins(s, u)
  PROVE  Begins(NumbersOf(s), NumbersOf(u))
<1> DEFINE Q == Seq(S)
           X == Numeric(s)  Y == Numeric(u)
           f == filter(s, X)  h == filter(u, Y)
<1>1. \A i \in 1..Len(s) : s[i] \in X <=> s[i] \in Y
  <2>1. \A i \in 1..Len(s) : i \in DOMAIN s /\ i \in DOMAIN u
    BY DEF Begins
  <2>2. \A i \in 1..Len(s) : s[i] \in Range(s) /\ s[i] \in Range(u)
    BY <2>1 DEF Begins, Range
  <2>3. QED
    BY <2>2 DEF Numeric
<1>2. Begins(f, h)
  <2> HIDE DEF Q, X, Y
  <2>1. s \in Seq(Q) /\ u \in Seq(Q)
    BY DEF Q
  <2>2. QED
    BY <1>1, <2>1, FilterBegins
<1> HIDE DEF f, h
<1>3. /\ Len(NumbersOf(s)) = Len(f)
      /\ \A i \in 1..Len(NumbersOf(s)) : NumbersOf(s)[i] = ParseNumber(f[i])[1]
  BY NumbersOfAre DEF f
<1>4. /\ Len(NumbersOf(u)) = Len(h)
      /\ \A i \in 1..Len(NumbersOf(u)) : NumbersOf(u)[i] = ParseNumber(h[i])[1]
  BY NumbersOfAre DEF h
<1>5. Len(f) \in Nat /\ Len(h) \in Nat
  <2>1. f \in Seq(Q) /\ h \in Seq(Q)
    <3> HIDE DEF Q, X, Y
    <3>1. s \in Seq(Q) /\ u \in Seq(Q)
      BY DEF Q
    <3>2. QED
      BY <3>1, FilterIs DEF f, h
  <2> HIDE DEF Q
  <2>2. QED
    BY <2>1
<1>6. Len(f) <= Len(h) /\ \A i \in 1..Len(f) : i \in 1..Len(h) /\ h[i] = f[i]
  BY <1>2, <1>5 DEF Begins
<1>7. QED
  BY <1>3, <1>4, <1>6 DEF Begins

\* What follows the number of a kernel adds pieces at the end, unless it goes
\* on with a digit.
LEMMA SuffixAddsPieces ==
  ASSUME NEW S, NEW base \in Seq(S), NEW suffix \in Seq(S),
         suffix # << >> => suffix[1] \notin Digits
  PROVE  Begins(SplitBy(Separated(base), "."), SplitBy(Separated(base \o suffix), "."))
<1> DEFINE T == S \union {"."}
           m == Len(base)
           n == Len(suffix)
           u == base \o suffix
           p == SplitBy(Separated(base), ".")
           Q == Seq(T)
<1>1. m \in Nat /\ n \in Nat
  OBVIOUS
<1>2. Joined(S, base, suffix, u)
  BY JoinedIs
<1>3. /\ Separated(base) \in Seq(T) /\ Len(Separated(base)) = m
      /\ \A i \in 1..m : Separated(base)[i] = IF base[i] \in Digits THEN base[i] ELSE "."
  BY SeparatedIs
<1>4. p \in Seq(Q)
  BY <1>3, SplitIsTyped
<1>5. CASE suffix = << >>
  <2>1. u = base
    BY <1>5
  <2>2. Len(p) \in Nat
    <3> HIDE DEF p, Q
    <3>1. QED
      BY <1>4
  <2> HIDE DEF p
  <2>3. Begins(p, p)
    BY <2>2 DEF Begins
  <2>4. QED
    BY <2>1, <2>3 DEF p
<1>6. CASE suffix # << >>
  <2> DEFINE rest == [i \in 1..(n - 1) |-> Separated(u)[(m + 1) + i]]
             s == Separated(base)
             w == Separated(u)
  <2>1. n >= 1 /\ suffix[1] \notin Digits
    BY <1>6
  <2> HIDE DEF u
  <2>2. /\ u \in Seq(S) /\ Len(u) = m + n
        /\ \A i \in 1..m : u[i] = base[i]
        /\ u[m + 1] = suffix[1]
    BY <1>1, <1>2, <2>1 DEF Joined
  <2>3. /\ w \in Seq(T) /\ Len(w) = m + n
        /\ \A i \in 1..(m + n) : w[i] = IF u[i] \in Digits THEN u[i] ELSE "."
    BY <2>2, SeparatedIs
  <2> HIDE DEF s, w, T
  <2>4. rest \in Seq(T) /\ Len(rest) = n - 1 /\ \A i \in 1..(n - 1) : rest[i] = w[(m + 1) + i]
    <3>1. \A i \in 1..(n - 1) : (m + 1) + i \in 1..(m + n)
      BY <1>1, <2>1
    <3>2. \A i \in 1..(m + n) : w[i] \in T
      BY <2>3
    <3>3. rest = [i \in 1..(n - 1) |-> w[(m + 1) + i]]
      BY DEF w
    <3> HIDE DEF rest
    <3>4. rest \in [1..(n - 1) -> T] /\ n - 1 \in Nat
      BY <1>1, <2>1, <3>1, <3>2, <3>3
    <3>5. rest \in Seq(T) /\ Len(rest) = n - 1
      BY <3>4
    <3>6. QED
      BY <3>3, <3>5
  <2> HIDE DEF rest
  <2>5. Between(T, s, ".", rest, w)
    <3>1. Len(w) = m + 1 + (n - 1)
      BY <1>1, <2>1, <2>3
    <3>2. \A i \in 1..m : w[i] = s[i]
      <4>1. \A i \in 1..m : i \in 1..(m + n)
        BY <1>1
      <4>2. QED
        BY <1>3, <2>2, <2>3, <4>1 DEF s
    <3>3. w[m + 1] = "."
      <4>1. m + 1 \in 1..(m + n)
        BY <1>1, <2>1
      <4>2. QED
        BY <2>1, <2>2, <2>3, <4>1
    <3> HIDE DEF m, n
    <3>4. QED
      BY <1>3, <2>3, <2>4, <3>1, <3>2, <3>3 DEF Between, s
  <2>6. SplitBy(w, ".") = p \o SplitBy(rest, ".")
    <3>1. "." \in T /\ s \in Seq(T)
      BY <1>3 DEF T, s
    <3>2. SplitBy(w, ".") = SplitBy(s, ".") \o SplitBy(rest, ".")
      BY <2>4, <2>5, <3>1, SplitOfTwo
    <3>3. QED
      BY <3>2 DEF s
  <2> DEFINE q == SplitBy(rest, ".")
  <2>7. q \in Seq(Q)
    BY <2>4, SplitIsTyped
  <2> HIDE DEF p, q, Q
  <2>8. Joined(Q, p, q, p \o q)
    BY <1>4, <2>7, JoinedIs
  <2>9. Len(p) \in Nat /\ Len(q) \in Nat
    BY <1>4, <2>7
  <2>10. Begins(p, p \o q)
    BY <2>8, <2>9 DEF Joined, Begins
  <2>11. QED
    BY <2>6, <2>10 DEF p, q, w, u
<1>7. QED
  BY <1>5, <1>6

\* A kernel whose numbers begin with those of a bound is at the bound.
LEMMA BeginningIsAtBound ==
  ASSUME NEW kernel \in Seq(Nat), NEW bound \in Seq(Nat), Begins(bound, kernel)
  PROVE  Against(kernel, bound) = 0
<1> DEFINE p == Padded(kernel, bound)
           n == Len(bound)
<1>1. /\ p \in Seq(Nat) /\ Len(p) = n /\ n \in Nat
      /\ \A i \in 1..n : p[i] = IF i <= Len(kernel) THEN kernel[i] ELSE 0
  BY PaddedIs
<1>2. Against(kernel, bound) = CompareNumbers(p, bound)
  BY DEF Against, Padded
<1> HIDE DEF p
<1>3. p = bound
  <2>1. \A i \in 1..n : i <= Len(kernel) /\ kernel[i] = bound[i]
    BY DEF Begins
  <2>2. \A i \in 1..Len(p) : p[i] = bound[i]
    BY <1>1, <2>1
  <2>3. QED
    BY <1>1, <2>2, SameMembers
<1>4. CompareNumbers(bound, bound) <= 0
  BY <1>1, NumbersAtMost
<1>5. CompareNumbers(bound, bound) >= 0
  BY <1>4, NumbersTurn
<1>6. CompareNumbers(bound, bound) \in Int
  <2>1. By(NumberOrder, bound, bound) \in Signs
    BY NumberOrderIs, ByIsSign
  <2>2. QED
    BY <2>1, NumbersBy DEF Signs
<1>7. QED
  BY <1>2, <1>3, <1>4, <1>5, <1>6

(***************************************************************************)
(* Whatever a distribution appends to the number of its kernel, so long as *)
(* it does not begin with a digit, a driver for exactly that kernel fits   *)
(* it, and one that needs what the kernel was configured with loses no     *)
(* points (matching.rs:45, 348).                                           *)
(***************************************************************************)
THEOREM KernelsAreDetected ==
  ASSUME NEW S, NEW base \in Seq(S), NEW suffix \in Seq(S),
         suffix # << >> => suffix[1] \notin Digits,
         NEW boot_config, \A l \in boot_config : l.value \in {"y", "m", "n"}
  PROVE  DetectedSystemFits(base, suffix, boot_config)
<1> DEFINE system == detect(base \o suffix, "x86_64", {}, boot_config)
           exact  == KernelNumbers(base)
           whole  == KernelNumbers(base \o suffix)
           needs  == {l.name : l \in {l \in boot_config : l.value # "n"}}
           driver == [arch |-> "amd64", min |-> exact, max |-> exact, needs |-> needs]
<1>1. /\ exact \in Seq(Nat) /\ whole \in Seq(Nat) /\ Begins(exact, whole)
  <2> DEFINE T == S \union {"."}
             s == SplitBy(Separated(base), ".")
             u == SplitBy(Separated(base \o suffix), ".")
  <2>1. base \o suffix \in Seq(S)
    OBVIOUS
  <2>2. Separated(base) \in Seq(T) /\ Separated(base \o suffix) \in Seq(T)
    BY <2>1, SeparatedIs
  <2>3. s \in Seq(Seq(T)) /\ u \in Seq(Seq(T))
    BY <2>2, SplitIsTyped
  <2>4. Begins(s, u)
    BY SuffixAddsPieces
  <2>5. exact = NumbersOf(s) /\ whole = NumbersOf(u)
    BY KernelNumbersAre
  <2> HIDE DEF s, u, T
  <2>6. Begins(NumbersOf(s), NumbersOf(u))
    BY <2>3, <2>4, NumbersBegin
  <2>7. NumbersOf(s) \in Seq(Nat) /\ NumbersOf(u) \in Seq(Nat)
    BY <2>3, NumbersOfAre
  <2>8. QED
    BY <2>5, <2>6, <2>7
<1>2. Against(whole, exact) = 0
  <2> HIDE DEF exact, whole
  <2>1. QED
    BY <1>1, BeginningIsAtBound
<1>3. EnabledFeatures(boot_config) = needs
  BY DEF EnabledFeatures
<1>4. detect_kernel_features({}, boot_config) = needs
  BY <1>3 DEF detect_kernel_features, decompress_gzip, EnabledFeatures
<1>5. system.kernel = whole /\ system.arch = "x86_64" /\ system.features = needs
  BY <1>4 DEF detect
<1> HIDE DEF system, whole, exact, needs
<1>6. KernelAccepted(system, driver)
  BY <1>2, <1>5 DEF KernelAccepted, check_kernel_compatibility
<1>7. check_architecture_match(system, driver)
  BY <1>5 DEF check_architecture_match, Aliases
<1>8. FeaturePoints(system, driver) = 2
  BY <1>5 DEF FeaturePoints
<1>9. QED
  BY <1>6, <1>7, <1>8 DEF DetectedSystemFits, system, exact, needs

-----------------------------------------------------------------------------
(***************************************************************************)
(* The names of devices.  What is looked for stands at one place of the    *)
(* modalias of a bus, or at none, so that the part behind it is the one    *)
(* that was written there.                                                 *)
(***************************************************************************)
\* Where two members stand next to each other in a text, if at one place only.
LEMMA PairStands ==
  ASSUME NEW S, NEW text \in Seq(S), NEW a \in S, NEW b \in S, NEW k \in 0..Len(text)
  PROVE  StandsAt(text, k, <<a, b>>)
           <=> k + 2 <= Len(text) /\ text[k + 1] = a /\ text[k + 2] = b
<1>1. Len(<<a, b>>) = 2 /\ \A i \in 1..2 : i = 1 \/ i = 2
  OBVIOUS
<1>2. 1 \in 1..2 /\ 2 \in 1..2 /\ <<a, b>>[1] = a /\ <<a, b>>[2] = b
  OBVIOUS
<1>3. QED
  BY <1>1, <1>2 DEF StandsAt

LEMMA PairIsFound ==
  ASSUME NEW S, NEW text \in Seq(S), NEW a \in S, NEW b \in S, NEW k \in Nat,
         k + 2 <= Len(text),
         \A i \in 1..(Len(text) - 1) : Next2(text, a, b, i) <=> i = k + 1
  PROVE  find_subslice(text, <<a, b>>) = k
<1> DEFINE part == <<a, b>>
           n == Len(text)
           r == find_subslice(text, part)
<1>1. n \in Nat /\ part \in Seq(S) /\ k \in 0..n
  OBVIOUS
<1>2. \A j \in 0..n : StandsAt(text, j, part) <=> j + 2 <= n /\ text[j + 1] = a /\ text[j + 2] = b
  BY PairStands
<1>3. FirstPlace(text, part, r)
  BY <1>1, FindIs
<1> HIDE DEF r, part, n
<1>4. ASSUME NEW j \in 0..n PROVE StandsAt(text, j, part) <=> j = k
  <2>1. CASE j + 2 <= n
    <3>1. j + 1 \in 1..(n - 1) /\ (j + 1) + 1 = j + 2 /\ (j + 1 = k + 1 <=> j = k)
      BY <1>1, <2>1
    <3>2. Next2(text, a, b, j + 1) <=> text[j + 1] = a /\ text[j + 2] = b
      BY <3>1 DEF Next2
    <3>3. Next2(text, a, b, j + 1) <=> j + 1 = k + 1
      BY <3>1 DEF n
    <3>4. QED
      BY <1>2, <2>1, <3>1, <3>2, <3>3
  <2>2. CASE ~(j + 2 <= n)
    <3>1. k + 2 <= n
      BY DEF n
    <3>2. QED
      BY <1>2, <2>2, <3>1
  <2>3. QED
    BY <2>1, <2>2
<1>5. QED
  BY <1>1, <1>3, <1>4 DEF FirstPlace, r, part, n

LEMMA PairIsNotFound ==
  ASSUME NEW S, NEW text \in Seq(S), NEW a \in S, NEW b \in S,
         \A i \in 1..(Len(text) - 1) : ~Next2(text, a, b, i)
  PROVE  find_subslice(text, <<a, b>>) = -1
<1> DEFINE part == <<a, b>>
           n == Len(text)
           r == find_subslice(text, part)
<1>1. n \in Nat /\ part \in Seq(S)
  OBVIOUS
<1>2. \A j \in 0..n : StandsAt(text, j, part) <=> j + 2 <= n /\ text[j + 1] = a /\ text[j + 2] = b
  BY PairStands
<1>3. FirstPlace(text, part, r)
  BY <1>1, FindIs
<1> HIDE DEF r, part, n
<1>4. ASSUME NEW j \in 0..n, StandsAt(text, j, part) PROVE FALSE
  <2>1. j + 2 <= n /\ text[j + 1] = a /\ text[j + 2] = b
    BY <1>2, <1>4
  <2>2. j + 1 \in 1..(n - 1) /\ (j + 1) + 1 = j + 2
    BY <1>1, <2>1
  <2>3. Next2(text, a, b, j + 1)
    BY <2>1, <2>2 DEF Next2
  <2>4. QED
    BY <2>2, <2>3 DEF n
<1>5. QED
  BY <1>3, <1>4 DEF FirstPlace, r, part, n

\* The field behind the first part with a letter in it.
LEMMA FieldIs ==
  ASSUME NEW S, NEW text \in Seq(S), NEW letter \in {"v", "p"}, NEW k \in 1..(Len(text) - 1),
         text[k] = letter, text[k + 1] \notin Marks,
         \A j \in 1..(k - 1) : text[j] \notin Holding[letter]
  PROVE  AfterLetter(text, letter) = <<"0x", text[k + 1]>>
<1> DEFINE I == {i \in 1..Len(text) : text[i] \in Holding[letter]}
           first == SelectInSeq(text, LAMBDA part : part \in Holding[letter])
<1>1. Len(text) \in Nat /\ k \in 1..Len(text) /\ k # Len(text) /\ k # 0
  OBVIOUS
<1>2. letter \in Holding[letter]
  BY DEF Holding
<1>3. k \in I
  BY <1>1, <1>2
<1>4. \A i \in I : k <= i
  <2>1. \A i \in 1..Len(text) : i < k => i \in 1..(k - 1)
    BY <1>1
  <2>2. \A i \in 1..Len(text) : ~(i < k) => k <= i
    BY <1>1
  <2>3. QED
    BY <2>1, <2>2
<1>5. \A i \in I : i <= k => i = k
  BY <1>1, <1>4
<1>6. first = IF I # {} THEN Min(I) ELSE 0
  BY DEF SelectInSeq
<1> HIDE DEF I, first
<1>7. Min(I) = k
  BY <1>3, <1>4, <1>5 DEF Min
<1>8. first = k
  BY <1>3, <1>6, <1>7
<1>9. AfterLetter(text, letter)
        = IF first \in {0, Len(text)} \/ text[first] # letter \/ ~IsGroup(text[first + 1])
          THEN None ELSE <<"0x", text[first + 1]>>
  BY DEF AfterLetter, first
<1>10. QED
  BY <1>1, <1>8, <1>9 DEF IsGroup

LEMMA NoFieldIs ==
  ASSUME NEW S, NEW text \in Seq(S), NEW letter,
         \A j \in 1..Len(text) : text[j] \notin Holding[letter]
  PROVE  AfterLetter(text, letter) = None
<1> DEFINE first == SelectInSeq(text, LAMBDA part : part \in Holding[letter])
<1>1. first = 0
  <2>1. {i \in 1..Len(text) : text[i] \in Holding[letter]} = {}
    OBVIOUS
  <2>2. QED
    BY <2>1 DEF SelectInSeq
<1>2. QED
  BY <1>1 DEF AfterLetter

LEMMA PciIsOwn ==
  ASSUME NEW S, AreParts(S), NEW vendor \in S \ Marks, NEW device \in S \ Marks, NEW revision
  PROVE  Extracted(KernelModalias("pci", vendor, device, revision),
                   <<"0x", vendor>>, <<"0x", device>>)
<1> DEFINE t == <<"pci:", "v", "0000", vendor, "d", "0000", device, "name">>
<1>1. {"pci:", "v", "d", "name", "0000"} \subseteq S
  BY DEF AreParts, Marks
<1>2. t \in Seq(S)
  BY <1>1
<1>3. /\ Len(t) = 8 /\ t[1] = "pci:" /\ t[2] = "v" /\ t[3] = "0000"
      /\ t[4] = vendor /\ t[5] = "d" /\ t[6] = "0000" /\ t[7] = device /\ t[8] = "name"
  OBVIOUS
<1>4. KernelModalias("pci", vendor, device, revision) = t
  BY DEF KernelModalias
<1> HIDE DEF t
<1>5. \A i \in 1..(Len(t) - 1) : i \in {1, 2, 3, 4, 5, 6, 7}
  BY <1>3
<1>6. \A i \in 1..(Len(t) - 1) : Next2(t, "v", "0000", i) <=> i = 1 + 1
  BY <1>3, <1>5 DEF Next2, Marks
<1>7. \A i \in 1..(Len(t) - 1) : Next2(t, "d", "0000", i) <=> i = 4 + 1
  BY <1>3, <1>5 DEF Next2, Marks
<1>8. 1 + 2 <= Len(t) /\ 4 + 2 <= Len(t)
  BY <1>3
<1>9. find_subslice(t, <<"v", "0000">>) = 1
  BY <1>1, <1>2, <1>6, <1>8, PairIsFound
<1>10. find_subslice(t, <<"d", "0000">>) = 4
  BY <1>1, <1>2, <1>7, <1>8, PairIsFound
<1>11. extract_vendor_from_modalias(t) = <<"0x", vendor>>
  BY <1>3, <1>9 DEF extract_vendor_from_modalias, IsGroup
<1>12. extract_device_from_modalias(t) = <<"0x", device>>
  BY <1>3, <1>10 DEF extract_device_from_modalias
<1>13. QED
  BY <1>4, <1>11, <1>12 DEF Extracted

LEMMA VirtioIsOwn ==
  ASSUME NEW S, AreParts(S), NEW vendor \in S \ Marks, NEW device \in S \ Marks, NEW revision
  PROVE  Extracted(KernelModalias("virtio", vendor, device, revision),
                   <<"0x", vendor>>, <<"0x", device>>)
<1> DEFINE t == <<"virtio:", "d", "0000", device, "v", "0000", vendor>>
<1>1. {"virtio:", "v", "d", "0000"} \subseteq S
  BY DEF AreParts, Marks
<1>2. t \in Seq(S)
  BY <1>1
<1>3. /\ Len(t) = 7 /\ t[1] = "virtio:" /\ t[2] = "d" /\ t[3] = "0000"
      /\ t[4] = device /\ t[5] = "v" /\ t[6] = "0000" /\ t[7] = vendor
  OBVIOUS
<1>4. KernelModalias("virtio", vendor, device, revision) = t
  BY DEF KernelModalias
<1> HIDE DEF t
<1>5. \A i \in 1..(Len(t) - 1) : i \in {1, 2, 3, 4, 5, 6}
  BY <1>3
<1>6. \A i \in 1..(Len(t) - 1) : Next2(t, "v", "0000", i) <=> i = 4 + 1
  BY <1>3, <1>5 DEF Next2, Marks
<1>7. \A i \in 1..(Len(t) - 1) : Next2(t, "d", "0000", i) <=> i = 1 + 1
  BY <1>3, <1>5 DEF Next2, Marks
<1>8. 4 + 2 <= Len(t) /\ 1 + 2 <= Len(t)
  BY <1>3
<1>9. find_subslice(t, <<"v", "0000">>) = 4
  BY <1>1, <1>2, <1>6, <1>8, PairIsFound
<1>10. find_subslice(t, <<"d", "0000">>) = 1
  BY <1>1, <1>2, <1>7, <1>8, PairIsFound
<1>11. extract_vendor_from_modalias(t) = <<"0x", vendor>>
  BY <1>3, <1>9 DEF extract_vendor_from_modalias, IsGroup
<1>12. extract_device_from_modalias(t) = <<"0x", device>>
  BY <1>3, <1>10 DEF extract_device_from_modalias
<1>13. QED
  BY <1>4, <1>11, <1>12 DEF Extracted

LEMMA UsbIsOwn ==
  ASSUME NEW S, AreParts(S), NEW vendor \in S \ Marks, NEW device \in S \ Marks,
         NEW revision \in S \ Marks
  PROVE  Extracted(KernelModalias("usb", vendor, device, revision), <<"0x", vendor>>,
                   IF revision = "0000" THEN <<"0x", "dc09">> ELSE <<"0x", device>>)
<1> DEFINE t == <<"usb:", "v", vendor, "p", device, "d", revision, "dc09", "name">>
<1>1. {"usb:", "v", "p", "d", "name", "0000", "dc09"} \subseteq S
  BY DEF AreParts, Marks
<1>2. t \in Seq(S)
  BY <1>1
<1>3. /\ Len(t) = 9 /\ t[1] = "usb:" /\ t[2] = "v" /\ t[3] = vendor /\ t[4] = "p"
      /\ t[5] = device /\ t[6] = "d" /\ t[7] = revision /\ t[8] = "dc09" /\ t[9] = "name"
  OBVIOUS
<1>4. KernelModalias("usb", vendor, device, revision) = t
  BY DEF KernelModalias
<1> HIDE DEF t
<1>5. \A i \in 1..(Len(t) - 1) : i \in {1, 2, 3, 4, 5, 6, 7, 8}
  BY <1>3
<1>6. \A i \in 1..(Len(t) - 1) : Next2(t, "v", "0000", i) <=> i = 1 + 1 /\ vendor = "0000"
  BY <1>3, <1>5 DEF Next2, Marks
<1>7. \A i \in 1..(Len(t) - 1) : Next2(t, "d", "0000", i) <=> i = 5 + 1 /\ revision = "0000"
  BY <1>3, <1>5 DEF Next2, Marks
<1>8. 1 + 2 <= Len(t) /\ 5 + 2 <= Len(t)
  BY <1>3
<1>9. extract_vendor_from_modalias(t) = <<"0x", vendor>>
  <2>1. CASE vendor = "0000"
    <3>1. \A i \in 1..(Len(t) - 1) : Next2(t, "v", "0000", i) <=> i = 1 + 1
      BY <1>6, <2>1
    <3>2. find_subslice(t, <<"v", "0000">>) = 1
      BY <1>1, <1>2, <1>8, <3>1, PairIsFound
    <3>3. ~IsGroup(t[4])
      BY <1>3 DEF IsGroup, Marks
    <3>4. QED
      BY <1>3, <2>1, <3>2, <3>3 DEF extract_vendor_from_modalias
  <2>2. CASE vendor # "0000"
    <3>1. \A i \in 1..(Len(t) - 1) : ~Next2(t, "v", "0000", i)
      BY <1>6, <2>2
    <3>2. find_subslice(t, <<"v", "0000">>) = -1
      BY <1>1, <1>2, <3>1, PairIsNotFound
    <3>3. \A j \in 1..(2 - 1) : t[j] \notin Holding["v"]
      BY <1>3 DEF Holding
    <3>4. 2 \in 1..(Len(t) - 1) /\ t[2] = "v" /\ t[2 + 1] = vendor
      BY <1>3
    <3>5. AfterLetter(t, "v") = <<"0x", t[2 + 1]>>
      BY <1>2, <3>3, <3>4, FieldIs
    <3>6. QED
      BY <3>2, <3>4, <3>5 DEF extract_vendor_from_modalias
  <2>3. QED
    BY <2>1, <2>2
<1>10. extract_device_from_modalias(t)
         = IF revision = "0000" THEN <<"0x", "dc09">> ELSE <<"0x", device>>
  <2>1. CASE revision = "0000"
    <3>1. \A i \in 1..(Len(t) - 1) : Next2(t, "d", "0000", i) <=> i = 5 + 1
      BY <1>7, <2>1
    <3>2. find_subslice(t, <<"d", "0000">>) = 5
      BY <1>1, <1>2, <1>8, <3>1, PairIsFound
    <3>3. QED
      BY <1>3, <2>1, <3>2 DEF extract_device_from_modalias
  <2>2. CASE revision # "0000"
    <3>1. \A i \in 1..(Len(t) - 1) : ~Next2(t, "d", "0000", i)
      BY <1>7, <2>2
    <3>2. find_subslice(t, <<"d", "0000">>) = -1
      BY <1>1, <1>2, <3>1, PairIsNotFound
    <3>3. \A j \in 1..(4 - 1) : t[j] \notin Holding["p"]
      <4>1. \A j \in 1..(4 - 1) : j \in {1, 2, 3}
        OBVIOUS
      <4>2. Holding["p"] = {"p", "pci:", "spi:"} /\ Holding["p"] \subseteq Marks
        BY DEF Holding, Marks
      <4>3. QED
        BY <1>3, <4>1, <4>2
    <3>4. 4 \in 1..(Len(t) - 1) /\ t[4] = "p" /\ t[4 + 1] = device
      BY <1>3
    <3>5. AfterLetter(t, "p") = <<"0x", t[4 + 1]>>
      BY <1>2, <3>3, <3>4, FieldIs
    <3>6. QED
      BY <2>2, <3>2, <3>4, <3>5 DEF extract_device_from_modalias
  <2>3. QED
    BY <2>1, <2>2
<1>11. QED
  BY <1>4, <1>9, <1>10 DEF Extracted

LEMMA SdioIsOwn ==
  ASSUME NEW S, AreParts(S), NEW vendor \in S \ Marks, NEW device \in S \ Marks, NEW revision
  PROVE  Extracted(KernelModalias("sdio", vendor, device, revision), <<"0x", vendor>>, None)
<1> DEFINE t == <<"sdio:", "c00", "v", vendor, "d", device>>
<1>1. {"sdio:", "c00", "v", "d", "0000"} \subseteq S
  BY DEF AreParts, Marks
<1>2. t \in Seq(S)
  BY <1>1
<1>3. /\ Len(t) = 6 /\ t[1] = "sdio:" /\ t[2] = "c00" /\ t[3] = "v" /\ t[4] = vendor
      /\ t[5] = "d" /\ t[6] = device
  OBVIOUS
<1>4. KernelModalias("sdio", vendor, device, revision) = t
  BY DEF KernelModalias
<1> HIDE DEF t
<1>5. \A i \in 1..(Len(t) - 1) : i \in {1, 2, 3, 4, 5}
  BY <1>3
<1>6. \A i \in 1..(Len(t) - 1) : Next2(t, "v", "0000", i) <=> i = 2 + 1 /\ vendor = "0000"
  BY <1>3, <1>5 DEF Next2, Marks
<1>7. \A i \in 1..(Len(t) - 1) : Next2(t, "d", "0000", i) <=> i = 4 + 1 /\ device = "0000"
  BY <1>3, <1>5 DEF Next2, Marks
<1>8. 2 + 2 <= Len(t) /\ 4 + 2 <= Len(t)
  BY <1>3
<1>9. extract_vendor_from_modalias(t) = <<"0x", vendor>>
  <2>1. CASE vendor = "0000"
    <3>1. \A i \in 1..(Len(t) - 1) : Next2(t, "v", "0000", i) <=> i = 2 + 1
      BY <1>6, <2>1
    <3>2. find_subslice(t, <<"v", "0000">>) = 2
      BY <1>1, <1>2, <1>8, <3>1, PairIsFound
    <3>3. ~IsGroup(t[5])
      BY <1>3 DEF IsGroup, Marks
    <3>4. QED
      BY <1>3, <2>1, <3>2, <3>3 DEF extract_vendor_from_modalias
  <2>2. CASE vendor # "0000"
    <3>1. \A i \in 1..(Len(t) - 1) : ~Next2(t, "v", "0000", i)
      BY <1>6, <2>2
    <3>2. find_subslice(t, <<"v", "0000">>) = -1
      BY <1>1, <1>2, <3>1, PairIsNotFound
    <3>3. \A j \in 1..(3 - 1) : t[j] \notin Holding["v"]
      <4>1. \A j \in 1..(3 - 1) : j \in {1, 2}
        OBVIOUS
      <4>2. QED
        BY <1>3, <4>1 DEF Holding
    <3>4. 3 \in 1..(Len(t) - 1) /\ t[3] = "v" /\ t[3 + 1] = vendor
      BY <1>3
    <3>5. AfterLetter(t, "v") = <<"0x", t[3 + 1]>>
      BY <1>2, <3>3, <3>4, FieldIs
    <3>6. QED
      BY <3>2, <3>4, <3>5 DEF extract_vendor_from_modalias
  <2>3. QED
    BY <2>1, <2>2
<1>10. extract_device_from_modalias(t) = None
  <2>1. CASE device = "0000"
    <3>1. \A i \in 1..(Len(t) - 1) : Next2(t, "d", "0000", i) <=> i = 4 + 1
      BY <1>7, <2>1
    <3>2. find_subslice(t, <<"d", "0000">>) = 4
      BY <1>1, <1>2, <1>8, <3>1, PairIsFound
    <3>3. QED
      BY <1>3, <3>2 DEF extract_device_from_modalias
  <2>2. CASE device # "0000"
    <3>1. \A i \in 1..(Len(t) - 1) : ~Next2(t, "d", "0000", i)
      BY <1>7, <2>2
    <3>2. find_subslice(t, <<"d", "0000">>) = -1
      BY <1>1, <1>2, <3>1, PairIsNotFound
    <3>3. \A j \in 1..Len(t) : t[j] \notin Holding["p"]
      <4>1. \A j \in 1..Len(t) : j \in {1, 2, 3, 4, 5, 6}
        BY <1>3
      <4>2. Holding["p"] = {"p", "pci:", "spi:"} /\ Holding["p"] \subseteq Marks
        BY DEF Holding, Marks
      <4>3. QED
        BY <1>3, <4>1, <4>2
    <3>4. AfterLetter(t, "p") = None
      BY <1>2, <3>3, NoFieldIs
    <3>5. QED
      BY <3>2, <3>4 DEF extract_device_from_modalias
  <2>3. QED
    BY <2>1, <2>2
<1>11. QED
  BY <1>4, <1>9, <1>10 DEF Extracted

\* A part of a text occurs in it.
LEMMA PartOccurs ==
  ASSUME NEW S, NEW text \in Seq(S), NEW i \in 1..Len(text)
  PROVE  Occurs(text, <<text[i]>>)
<1> DEFINE part == <<text[i]>>
           r == find_subslice(text, part)
           k == i - 1
<1>1. part \in Seq(S) /\ Len(part) = 1 /\ part[1] = text[i] /\ Len(text) \in Nat
  OBVIOUS
<1>2. k \in 0..Len(text) /\ k + 1 <= Len(text) /\ k + 1 = i
  OBVIOUS
<1> HIDE DEF part, k
<1>3. \A j \in 1..1 : j = 1
  OBVIOUS
<1>4. StandsAt(text, k, part)
  BY <1>1, <1>2, <1>3 DEF StandsAt
<1>5. FirstPlace(text, part, r)
  BY <1>1, FindIs
<1> HIDE DEF r
<1>6. r # -1
  BY <1>2, <1>4, <1>5 DEF FirstPlace
<1>7. QED
  BY <1>6 DEF Occurs, r, part

LEMMA BareIs ==
  ASSUME NEW x
  PROVE  Bare(<<"0x", x>>) = <<x>>
<1>1. <<"0x", x>> # << >> /\ Head(<<"0x", x>>) = "0x" /\ Tail(<<"0x", x>>) = <<x>>
  OBVIOUS
<1>2. QED
  BY <1>1 DEF Bare

LEMMA FieldIsTyped ==
  ASSUME NEW S, NEW text \in Seq(S), NEW letter
  PROVE  AfterLetter(text, letter) \in Fields(S)
<1> DEFINE I == {i \in 1..Len(text) : text[i] \in Holding[letter]}
           first == SelectInSeq(text, LAMBDA part : part \in Holding[letter])
<1>1. first = IF I # {} THEN Min(I) ELSE 0
  BY DEF SelectInSeq
<1>2. I \in SUBSET Nat /\ Len(text) \in Nat
  OBVIOUS
<1>3. first \in 0..Len(text)
  <2>1. CASE I # {}
    <3> HIDE DEF I
    <3>1. PICK k \in I : \A j \in I : k <= j
      BY <1>2, <2>1, SmallestNumber
    <3>2. Min(I) \in I
      BY <3>1 DEF Min
    <3>3. QED
      BY <1>1, <1>2, <2>1, <3>2 DEF I
  <2>2. CASE I = {}
    BY <1>1, <1>2, <2>2
  <2>3. QED
    BY <2>1, <2>2
<1>4. AfterLetter(text, letter)
        = IF first \in {0, Len(text)} \/ text[first] # letter \/ ~IsGroup(text[first + 1])
          THEN None ELSE <<"0x", text[first + 1]>>
  BY DEF AfterLetter
<1> HIDE DEF first
<1>5. first \notin {0, Len(text)} => text[first + 1] \in S
  BY <1>2, <1>3
<1>6. QED
  BY <1>4, <1>5 DEF Fields

LEMMA ExtractedAreTyped ==
  ASSUME NEW S, AreParts(S), NEW text \in Seq(S)
  PROVE  extract_vendor_from_modalias(text) \in Fields(S)
         /\ extract_device_from_modalias(text) \in Fields(S)
<1>1. Len(text) \in Nat /\ {"v", "d", "0000"} \subseteq S
  BY DEF AreParts, Marks
<1>2. ASSUME NEW letter \in {"v", "d"}, find_subslice(text, <<letter, "0000">>) # -1,
             Len(text) > find_subslice(text, <<letter, "0000">>) + 2
      PROVE  text[find_subslice(text, <<letter, "0000">>) + 3] \in S
  <2> DEFINE part == <<letter, "0000">>
             r == find_subslice(text, part)
  <2>1. part \in Seq(S)
    BY <1>1
  <2> HIDE DEF part
  <2>2. FirstPlace(text, part, r)
    BY <2>1, FindIs
  <2>3. r \in 0..Len(text)
    BY <1>2, <2>2 DEF FirstPlace, part
  <2> HIDE DEF r
  <2>4. Len(text) > r + 2
    BY <1>2 DEF r, part
  <2>5. text[r + 3] \in S
    BY <1>1, <2>3, <2>4
  <2>6. QED
    BY <2>5 DEF r, part
<1>3. AfterLetter(text, "v") \in Fields(S) /\ AfterLetter(text, "p") \in Fields(S)
  BY FieldIsTyped
<1>4. <<"0x", "0000">> \in Fields(S) /\ None \in Fields(S)
  BY <1>1 DEF Fields
<1>5. extract_vendor_from_modalias(text) \in Fields(S)
  <2> DEFINE k == find_subslice(text, <<"v", "0000">>)
             x == text[k + 3]
  <2>1. k # -1 /\ Len(text) > k + 2 => x \in S
    BY <1>2
  <2>2. extract_vendor_from_modalias(text)
          = IF k = -1 THEN AfterLetter(text, "v")
            ELSE IF Len(text) > k + 2 /\ IsGroup(x) THEN <<"0x", x>> ELSE <<"0x", "0000">>
    BY DEF extract_vendor_from_modalias
  <2> HIDE DEF k, x
  <2>3. x \in S => <<"0x", x>> \in Fields(S)
    BY DEF Fields
  <2>4. QED
    BY <1>3, <1>4, <2>1, <2>2, <2>3
<1>6. extract_device_from_modalias(text) \in Fields(S)
  <2> DEFINE k == find_subslice(text, <<"d", "0000">>)
             x == text[k + 3]
  <2>1. k # -1 /\ Len(text) > k + 2 => x \in S
    BY <1>2
  <2>2. extract_device_from_modalias(text)
          = IF k = -1 THEN AfterLetter(text, "p")
            ELSE IF Len(text) > k + 2 THEN <<"0x", x>> ELSE None
    BY DEF extract_device_from_modalias
  <2> HIDE DEF k, x
  <2>3. x \in S => <<"0x", x>> \in Fields(S)
    BY DEF Fields
  <2>4. QED
    BY <1>3, <1>4, <2>1, <2>2, <2>3
<1>7. QED
  BY <1>5, <1>6

\* What a uevent file says of a key is the value of one of its lines.
LEMMA SaidIs ==
  ASSUME NEW L, NEW V, \A l \in L : l.value \in V, NEW lines \in Seq(L), NEW key
  PROVE  UeventGet(UeventParse(lines), key) \in V \union {None}
<1> DEFINE set == {l \in Range(lines) : l.key # None}
           pairs == filter(lines, set)
           n == Len(pairs)
           I == {i \in 1..n : pairs[i].key = key}
           last == SelectLastInSeq(pairs, LAMBDA p : p.key = key)
<1>1. pairs \in Seq(L)
  BY FilterIs
<1> HIDE DEF pairs
<1>2. n \in Nat /\ DOMAIN pairs = 1..n /\ \A i \in 1..n : pairs[i] \in L
  BY <1>1
<1>3. UeventParse(lines) = [k \in {pairs[i].key : i \in DOMAIN pairs} |->
                              pairs[SelectLastInSeq(pairs, LAMBDA p : p.key = k)].value]
  BY DEF UeventParse, pairs
<1>4. last = IF I # {} THEN Max(I) ELSE 0
  BY DEF SelectLastInSeq
<1>5. CASE key \in {pairs[i].key : i \in DOMAIN pairs}
  <2>1. UeventGet(UeventParse(lines), key) = pairs[last].value
    BY <1>3, <1>5 DEF UeventGet
  <2>2. I # {} /\ I \in SUBSET (1..n)
    BY <1>2, <1>5
  <2> HIDE DEF I, last, n
  <2>3. Max(I) \in I
    BY <1>2, <2>2, GreatestNumber
  <2>4. last \in 1..n
    BY <1>4, <2>2, <2>3
  <2>5. QED
    BY <1>2, <2>1, <2>4
<1>6. CASE key \notin {pairs[i].key : i \in DOMAIN pairs}
  BY <1>3, <1>6 DEF UeventGet
<1>7. QED
  BY <1>5, <1>6

LEMMA IdentityIsTyped ==
  ASSUME NEW S, NEW D, NEW m \in Seq(S), NEW v \in Seq(S), NEW d \in Seq(S),
         NEW bus \in BUS_SUBSYSTEMS, NEW driver \in D, NEW works \in BOOLEAN
  PROVE  [id |-> [modalias |-> m, vendor |-> v, device |-> d, bus |-> bus],
          driver |-> driver, operational |-> works] \in Identities(S, D)
BY DEF Identities

LEMMA ModaliasIsTyped ==
  ASSUME NEW S, AreParts(S), NEW bus \in BUS_SUBSYSTEMS,
         NEW vendor \in S, NEW device \in S, NEW revision \in S
  PROVE  KernelModalias(bus, vendor, device, revision) \in Seq(S) \ {<< >>}
<1>1. Marks \union {"0000", "dc09"} \subseteq S
  BY DEF AreParts
<1>2. {"pci:", "usb:", "virtio:", "i2c:", "spi:", "sdio:", "c00", "name", "v", "d", "p", "0000",
       "dc09"} \subseteq S
  BY <1>1 DEF Marks
<1>3. CASE bus = "pci"
  BY <1>2, <1>3 DEF KernelModalias
<1>4. CASE bus = "usb"
  BY <1>2, <1>4 DEF KernelModalias
<1>5. CASE bus = "virtio"
  BY <1>2, <1>5 DEF KernelModalias
<1>6. CASE bus = "sdio"
  BY <1>2, <1>6 DEF KernelModalias
<1>7. CASE bus = "spi"
  BY <1>2, <1>7 DEF KernelModalias
<1>8. CASE bus = "i2c"
  BY <1>2, <1>8 DEF KernelModalias
<1>9. QED
  BY <1>3, <1>4, <1>5, <1>6, <1>7, <1>8 DEF BUS_SUBSYSTEMS

\* An identifier is empty only if the uevent file says so.
LEMMA IdentifierIs ==
  ASSUME NEW S, {"0x", "unknown"} \subseteq S, None # << >>,
         NEW said \in Seq(S) \union {None}, NEW extracted \in Fields(S)
  PROVE  Identifier(said, extracted) \in Seq(S)
         /\ (Identifier(said, extracted) = << >> <=> said = << >>)
<1>1. CASE said # None
  BY <1>1 DEF Identifier
<1>2. CASE said = None /\ extracted # None
  <2>1. PICK x \in S : extracted = <<"0x", x>>
    BY <1>2 DEF Fields
  <2>2. <<"0x", x>> \in Seq(S) /\ <<"0x", x>> # << >>
    OBVIOUS
  <2>3. QED
    BY <1>2, <2>1, <2>2 DEF Identifier
<1>3. CASE said = None /\ extracted = None
  <2>1. <<"unknown">> \in Seq(S) /\ <<"unknown">> # << >>
    OBVIOUS
  <2>2. QED
    BY <1>3, <2>1 DEF Identifier
<1>4. QED
  BY <1>1, <1>2, <1>3

\* The identifiers are parts of the modalias.
LEMMA OwnParts ==
  ASSUME NEW bus \in {"pci", "usb", "virtio"}, NEW vendor, NEW device, NEW revision
  PROVE  LET m == KernelModalias(bus, vendor, device, revision)
         IN  \E i, j \in 1..Len(m) :
               /\ m[i] = vendor
               /\ m[j] = IF bus = "usb" /\ revision = "0000" THEN "dc09" ELSE device
<1> DEFINE m == KernelModalias(bus, vendor, device, revision)
<1>1. CASE bus = "pci"
  <2>1. Len(m) = 8 /\ m[4] = vendor /\ m[7] = device
    BY <1>1 DEF KernelModalias
  <2>2. 4 \in 1..8 /\ 7 \in 1..8
    OBVIOUS
  <2> HIDE DEF m
  <2>3. QED
    BY <1>1, <2>1, <2>2 DEF m
<1>2. CASE bus = "virtio"
  <2>1. Len(m) = 7 /\ m[7] = vendor /\ m[4] = device
    BY <1>2 DEF KernelModalias
  <2>2. 4 \in 1..7 /\ 7 \in 1..7
    OBVIOUS
  <2> HIDE DEF m
  <2>3. QED
    BY <1>2, <2>1, <2>2 DEF m
<1>3. CASE bus = "usb"
  <2>1. Len(m) = 9 /\ m[3] = vendor /\ m[5] = device /\ m[8] = "dc09"
    BY <1>3 DEF KernelModalias
  <2>2. 3 \in 1..9 /\ 5 \in 1..9 /\ 8 \in 1..9
    OBVIOUS
  <2> HIDE DEF m
  <2>3. CASE revision = "0000"
    BY <1>3, <2>1, <2>2, <2>3 DEF m
  <2>4. CASE revision # "0000"
    BY <1>3, <2>1, <2>2, <2>4 DEF m
  <2>5. QED
    BY <2>3, <2>4
<1>4. QED
  BY <1>1, <1>2, <1>3

(***************************************************************************)
(* Whatever a device's identifiers and its uevent file are, it is left out *)
(* only for an empty identifier, and those extracted from its modalias are *)
(* its own and found in it, but for the exceptions IdentityIsOwn names     *)
(* (hwdetect.rs:202, 424, 454).                                            *)
(***************************************************************************)
THEOREM IdentitiesAreOwn ==
  ASSUME NEW S, AreParts(S), {"0x", "unknown"} \subseteq S,
         NEW L, \A l \in L : l.value \in Seq(S),
         NEW D, None \notin Seq(S), None \notin Identities(S, D),
         NEW bus \in BUS_SUBSYSTEMS, NEW vendor \in S \ Marks, NEW device \in S \ Marks,
         NEW revision \in S \ Marks, NEW uevent \in Seq(L), NEW driver \in D
  PROVE  IdentityIsOwn(bus, vendor, device, revision, uevent, driver)
<1> DEFINE modalias == KernelModalias(bus, vendor, device, revision)
           pairs == UeventParse(uevent)
           said1 == UeventGet(pairs, "VENDOR_ID")
           said2 == UeventGet(pairs, "DEVICE_ID")
           taken1 == extract_vendor_from_modalias(modalias)
           taken2 == extract_device_from_modalias(modalias)
           v == Identifier(said1, taken1)
           d == Identifier(said2, taken2)
           id == [modalias |-> modalias, vendor |-> v, device |-> d, bus |-> bus]
           whole == [id |-> id, driver |-> driver, operational |-> driver # None]
           read == read_device([modalias |-> modalias, uevent |-> uevent, driver |-> driver], bus)
           silent == {"VENDOR_ID", "DEVICE_ID"} \cap DOMAIN pairs = {}
<1>1. modalias \in Seq(S) /\ modalias # << >> /\ None # << >>
  <2>1. << >> \in Seq(S)
    OBVIOUS
  <2>2. None # << >>
    BY <2>1, Zenon
  <2>3. QED
    BY <2>2, ModaliasIsTyped
<1>2. said1 \in Seq(S) \union {None} /\ said2 \in Seq(S) \union {None}
  BY SaidIs
<1>3. taken1 \in Fields(S) /\ taken2 \in Fields(S)
  <2> HIDE DEF modalias
  <2>1. QED
    BY <1>1, ExtractedAreTyped
<1>4. read = IF modalias = << >> \/ ~HardwareIdValid(id) THEN None ELSE whole
  BY DEF read_device
<1> HIDE DEF modalias, pairs, said1, said2, taken1, taken2, read
<1>5. v \in Seq(S) /\ d \in Seq(S) /\ (v = << >> <=> said1 = << >>) /\ (d = << >> <=> said2 = << >>)
  BY <1>1, <1>2, <1>3, IdentifierIs
<1> HIDE DEF v, d
<1>6. whole # None
  <2>1. (driver # None) \in BOOLEAN
    OBVIOUS
  <2>2. whole \in Identities(S, D)
    BY <1>1, <1>5, <2>1, IdentityIsTyped
  <2>3. QED
    BY <2>2
<1>7. HardwareIdValid(id) <=> v # << >> /\ d # << >>
  <2>1. validate_bus_type(bus)
    BY DEF validate_bus_type, BUS_SUBSYSTEMS
  <2>2. id.modalias = modalias /\ id.vendor = v /\ id.device = d /\ id.bus = bus
    OBVIOUS
  <2> HIDE DEF id
  <2>3. QED
    BY <1>1, <2>1, <2>2 DEF HardwareIdValid
<1>8. whole.id.vendor = v /\ whole.id.device = d
  OBVIOUS
<1> HIDE DEF whole, id
<1>9. read = None <=> said1 = << >> \/ said2 = << >>
  BY <1>1, <1>4, <1>5, <1>6, <1>7
<1>10. ASSUME read # None, silent, bus \notin {"i2c", "spi"}
       PROVE  /\ read.id.vendor = <<"0x", vendor>>
              /\ read.id.device = IF bus = "sdio" THEN <<"unknown">>
                                  ELSE IF bus = "usb" /\ revision = "0000" THEN <<"0x", "dc09">>
                                  ELSE <<"0x", device>>
              /\ bus # "sdio" => check_vendor_device_match([patterns |-> {modalias}], read.id)
  <2> DEFINE own == IF bus = "usb" /\ revision = "0000" THEN "dc09" ELSE device
  <2>1. read.id = whole.id /\ read.id.vendor = v /\ read.id.device = d
    BY <1>4, <1>8, <1>10
  <2>2. said1 = None /\ said2 = None
    BY <1>10 DEF UeventGet, said1, said2
  <2>3. v = IF taken1 # None THEN taken1 ELSE <<"unknown">>
    BY <2>2 DEF Identifier, v
  <2>4. d = IF taken2 # None THEN taken2 ELSE <<"unknown">>
    BY <2>2 DEF Identifier, d
  <2>5. bus \in {"pci", "usb", "virtio", "sdio"}
    BY <1>10 DEF BUS_SUBSYSTEMS
  <2>6. Extracted(modalias, <<"0x", vendor>>, IF bus = "sdio" THEN None ELSE <<"0x", own>>)
    <3>1. CASE bus = "pci"
      BY <3>1, PciIsOwn DEF modalias
    <3>2. CASE bus = "virtio"
      BY <3>2, VirtioIsOwn DEF modalias
    <3>3. CASE bus = "sdio"
      BY <3>3, SdioIsOwn DEF modalias
    <3>4. CASE bus = "usb"
      <4>1. Extracted(modalias, <<"0x", vendor>>,
                      IF revision = "0000" THEN <<"0x", "dc09">> ELSE <<"0x", device>>)
        BY <3>4, UsbIsOwn DEF modalias
      <4>2. CASE revision = "0000"
        BY <3>4, <4>1, <4>2
      <4>3. CASE revision # "0000"
        BY <3>4, <4>1, <4>3
      <4>4. QED
        BY <4>2, <4>3
    <3>5. QED
      BY <2>5, <3>1, <3>2, <3>3, <3>4
  <2>7. taken1 = <<"0x", vendor>> /\ taken2 = IF bus = "sdio" THEN None ELSE <<"0x", own>>
    BY <2>6 DEF Extracted, taken1, taken2
  <2>8. vendor \in S /\ own \in S /\ device \in S
    BY DEF AreParts
  <2>9. <<"0x", vendor>> # None /\ <<"0x", own>> # None
    <3>1. "0x" \in S
      OBVIOUS
    <3> HIDE DEF own
    <3>2. <<"0x", vendor>> \in Seq(S) /\ <<"0x", own>> \in Seq(S)
      BY <2>8, <3>1
    <3>3. QED
      BY <3>2, Zenon
  <2>10. v = <<"0x", vendor>>
    BY <2>3, <2>7, <2>9
  <2>11. d = IF bus = "sdio" THEN <<"unknown">> ELSE <<"0x", own>>
    BY <2>4, <2>7, <2>9
  <2>12. ASSUME bus # "sdio"
         PROVE  check_vendor_device_match([patterns |-> {modalias}], read.id)
    <3>1. \E i, j \in 1..Len(modalias) : modalias[i] = vendor /\ modalias[j] = own
      BY <2>5, <2>12, OwnParts DEF modalias
    <3>2. Occurs(modalias, <<vendor>>) /\ Occurs(modalias, <<own>>)
      <4> HIDE DEF own
      <4>1. QED
        BY <1>1, <3>1, PartOccurs
    <3>3. Bare(read.id.vendor) = <<vendor>> /\ Bare(read.id.device) = <<own>>
      BY <2>1, <2>10, <2>11, <2>12, BareIs
    <3> HIDE DEF own
    <3>4. QED
      BY <3>2, <3>3 DEF check_vendor_device_match
  <2>13. (IF bus = "sdio" THEN <<"unknown">> ELSE <<"0x", own>>)
          = IF bus = "sdio" THEN <<"unknown">>
            ELSE IF bus = "usb" /\ revision = "0000" THEN <<"0x", "dc09">> ELSE <<"0x", device>>
    BY <2>5
  <2>14. QED
    BY <2>1, <2>10, <2>11, <2>12, <2>13
<1>11. QED
  BY <1>9, <1>10 DEF IdentityIsOwn, read, pairs, said1, said2, modalias

-----------------------------------------------------------------------------
(***************************************************************************)
(* Versions written out and read again.  A text is what its parts come to  *)
(* with dots between them, and split at the dots it is those parts again;  *)
(* a number is read from the digits it is shown by.  So a version is       *)
(* parsed from its own text.                                               *)
(***************************************************************************)
LEMMA JoiningIs ==
  ASSUME NEW base, NEW list
  PROVE  AllJoined(base, list) = (CHOOSE it : Joining(base, list, it))[DOMAIN list]
BY DEF AllJoined, FoldLeft, MapThenFoldSet, Joining, Dot

LEMMA JoinRuns ==
  ASSUME NEW S, "." \in S, NEW base \in Seq(S), NEW list \in Seq(Seq(S))
  PROVE  Joins(S, base, list)
<1> DEFINE n == Len(list)
           A == Seq(S)
           f == [p \in A \X A |-> Dot(p[1], p[2])]
<1>1. n \in Nat /\ DOMAIN list = 1..n /\ \A i \in 1..n : list[i] \in A
  <2>1. list \in Seq(A)
    OBVIOUS
  <2> HIDE DEF A
  <2>2. QED
    BY <2>1
<1>2. base \in A /\ list \in Seq(A)
  OBVIOUS
<1>3. \A a \in A, x \in A : Dot(a, x) \in A
  BY DEF Dot
<1> HIDE DEF A
<1>4. f \in [A \X A -> A] /\ \A a \in A, x \in A : f[<<a, x>>] = Dot(a, x)
  BY <1>3
<1> HIDE DEF f
<1>5. PICK it \in [SUBSET (1..n) -> A] : RunsOver(it, f, base, list, n)
  <2>1. Reaches(A, f, base, list, n)
    BY <1>2, <1>4, RunExists
  <2> HIDE DEF n
  <2>2. QED
    BY <2>1 DEF Reaches
<1> HIDE DEF n
<1>6. Joining(base, list, it)
  <2>1. ASSUME NEW T \in SUBSET (1..n)
        PROVE  it[T] = IF T = {} THEN base ELSE Dot(it[T \ {Max(T)}], list[Max(T)])
    <3>1. it[T] = IF T = {} THEN base ELSE f[<<it[T \ {Max(T)}], list[Max(T)]>>]
      BY <1>5 DEF RunsOver
    <3>2. CASE T # {}
      <4>1. Max(T) \in 1..n /\ T \ {Max(T)} \in SUBSET (1..n)
        BY <1>1, <3>2, GreatestNumber
      <4>2. it[T \ {Max(T)}] \in A /\ list[Max(T)] \in A
        BY <1>1, <1>5, <4>1
      <4>3. QED
        BY <1>4, <3>1, <3>2, <4>2
    <3>3. QED
      BY <3>1, <3>2
  <2>2. it = [T \in SUBSET (1..n) |->
                IF T = {} THEN base ELSE Dot(it[T \ {Max(T)}], list[Max(T)])]
    BY <2>1
  <2>3. QED
    BY <1>1, <2>2 DEF Joining
<1> DEFINE made == CHOOSE g : Joining(base, list, g)
<1>7. Joining(base, list, made)
  BY <1>6
<1> HIDE DEF made
<1>8. RunsWithin(made, A, f, base, list)
  <2>1. ASSUME NEW T \in SUBSET (1..n), T # {}, made[T \ {Max(T)}] \in A
        PROVE  made[T] = f[<<made[T \ {Max(T)}], list[Max(T)]>>]
    <3>1. Max(T) \in 1..n
      BY <1>1, <2>1, GreatestNumber
    <3>2. list[Max(T)] \in A
      BY <1>1, <3>1
    <3>3. made[T] = Dot(made[T \ {Max(T)}], list[Max(T)])
      BY <1>1, <1>7, <2>1 DEF Joining
    <3>4. QED
      BY <1>4, <2>1, <3>2, <3>3
  <2>2. made[{}] = base
    BY <1>7 DEF Joining
  <2>3. QED
    BY <2>1, <2>2 DEF RunsWithin, n
<1> DEFINE g == [k \in 0..n |-> made[1..k]]
<1> HIDE DEF n
<1>9. Steps(A, f, base, list, g)
  <2>1. g = [k \in 0..Len(list) |-> made[1..k]]
    BY DEF n
  <2> HIDE DEF g
  <2>2. QED
    BY <1>2, <1>4, <1>8, <2>1, StepsAre
<1>10. g[n] = made[1..n]
  BY <1>1
<1> HIDE DEF g
<1>11. AllJoined(base, list) = g[n]
  BY <1>1, <1>10, JoiningIs DEF made
<1>12. ASSUME NEW k \in 1..n PROVE g[k] = Dot(g[k - 1], list[k])
  <2>1. k - 1 \in 0..n /\ list[k] \in A
    BY <1>1
  <2>2. QED
    BY <1>4, <1>9, <2>1 DEF Steps, n
<1>13. JoinSteps(S, base, list, g)
  BY <1>9, <1>11, <1>12 DEF JoinSteps, Steps, A, n
<1>14. QED
  BY <1>13 DEF Joins

\* The last identifier is joined last.
LEMMA OneMoreJoined ==
  ASSUME NEW S, "." \in S, NEW base \in Seq(S), NEW list \in Seq(Seq(S)), NEW x \in Seq(S)
  PROVE  /\ AllJoined(base, list) \in Seq(S)
         /\ AllJoined(base, Append(list, x)) = Dot(AllJoined(base, list), x)
<1> DEFINE n == Len(list)
           longer == Append(list, x)
           Q == Seq(S)
<1>1. n \in Nat
  OBVIOUS
<1>2. /\ longer \in Seq(Q) /\ Len(longer) = n + 1 /\ longer[n + 1] = x
      /\ \A i \in 1..n : longer[i] = list[i]
  <2>1. list \in Seq(Q) /\ x \in Q
    OBVIOUS
  <2> HIDE DEF Q
  <2>2. QED
    BY <2>1, AppendIs
<1> HIDE DEF longer
<1>3. PICK f : JoinSteps(S, base, list, f)
  BY JoinRuns DEF Joins
<1>4. PICK g : JoinSteps(S, base, longer, g)
  BY <1>2, JoinRuns DEF Joins
<1>5. /\ f \in [0..n -> Q] /\ f[0] = base /\ AllJoined(base, list) = f[n]
      /\ \A k \in 1..n : f[k] = Dot(f[k - 1], list[k])
  BY <1>3 DEF JoinSteps
<1>6. /\ g[0] = base /\ AllJoined(base, longer) = g[n + 1]
      /\ \A k \in 1..(n + 1) : g[k] = Dot(g[k - 1], longer[k])
  BY <1>2, <1>4 DEF JoinSteps
<1> HIDE DEF n, Q
<1>7. g[n] = f[n]
  <2> DEFINE G == {k \in 0..n : g[k] = f[k]}
  <2>1. 0 \in G
    BY <1>1, <1>5, <1>6
  <2>2. ASSUME NEW k \in 1..n, k - 1 \in G PROVE k \in G
    <3>1. k \in 0..n /\ k \in 1..(n + 1)
      BY <1>1
    <3>2. QED
      BY <1>2, <1>5, <1>6, <2>2, <3>1
  <2>3. n \in G
    <3> HIDE DEF G
    <3>1. \A k \in 1..n : k - 1 \in G => k \in G
      BY <2>2
    <3>2. \A k \in 0..n : k \in G
      BY <1>1, <2>1, <3>1, UpTo
    <3>3. QED
      BY <1>1, <3>2
  <2>4. QED
    BY <2>3
<1>8. g[n + 1] = Dot(f[n], x)
  <2>1. n + 1 \in 1..(n + 1) /\ (n + 1) - 1 = n
    BY <1>1
  <2>2. QED
    BY <1>2, <1>6, <1>7, <2>1
<1>9. f[n] \in Q
  <2>1. n \in 0..n
    BY <1>1
  <2>2. QED
    BY <1>5, <2>1
<1>10. QED
  BY <1>5, <1>6, <1>8, <1>9 DEF longer, Q

LEMMA NoneJoined ==
  ASSUME NEW S, "." \in S, NEW base \in Seq(S)
  PROVE  AllJoined(base, << >>) = base
<1>1. << >> \in Seq(Seq(S)) /\ Len(<< >>) = 0
  OBVIOUS
<1>2. PICK f : JoinSteps(S, base, << >>, f)
  BY <1>1, JoinRuns DEF Joins
<1>3. QED
  BY <1>1, <1>2 DEF JoinSteps

\* One identifier is itself, and one more comes behind a dot.
LEMMA DottedIs ==
  ASSUME NEW S, "." \in S, NEW x \in Seq(S)
  PROVE  /\ Dotted(<<x>>) = x
         /\ \A ids \in Seq(Seq(S)) \ {<< >>} :
              Dotted(ids) \in Seq(S) /\ Dotted(Append(ids, x)) = Dot(Dotted(ids), x)
<1> DEFINE Q == Seq(S)
<1>1. \A ids : Dotted(ids) = AllJoined(Head(ids), Tail(ids))
  BY DEF Dotted, AllJoined
<1>2. Head(<<x>>) = x /\ Tail(<<x>>) = << >>
  OBVIOUS
<1>3. Dotted(<<x>>) = x
  BY <1>1, <1>2, NoneJoined
<1>4. ASSUME NEW ids \in Seq(Q) \ {<< >>}
      PROVE  Dotted(ids) \in Q /\ Dotted(Append(ids, x)) = Dot(Dotted(ids), x)
  <2>1. x \in Q
    OBVIOUS
  <2> HIDE DEF Q
  <2>2. Head(ids) \in Q /\ Tail(ids) \in Seq(Q)
    OBVIOUS
  <2>3. Head(Append(ids, x)) = Head(ids)
    BY <2>1
  <2>4. Tail(Append(ids, x)) = Append(Tail(ids), x)
    BY <2>1
  <2>5. Dotted(ids) = AllJoined(Head(ids), Tail(ids))
        /\ Dotted(Append(ids, x)) = AllJoined(Head(ids), Append(Tail(ids), x))
    BY <1>1, <2>3, <2>4
  <2> DEFINE base == Head(ids)  list == Tail(ids)
  <2>6. base \in Seq(S) /\ list \in Seq(Seq(S))
    BY <2>2 DEF Q
  <2> HIDE DEF base, list
  <2>7. AllJoined(base, list) \in Seq(S)
        /\ AllJoined(base, Append(list, x)) = Dot(AllJoined(base, list), x)
    BY <2>6, OneMoreJoined
  <2>8. QED
    BY <2>5, <2>7 DEF Q, base, list
<1>5. QED
  BY <1>3, <1>4

\* A list that is not empty is its front and its last member.
LEMMA FrontAndLast ==
  ASSUME NEW Q, NEW ids \in Seq(Q) \ {<< >>}
  PROVE  \/ \E y \in Q : ids = <<y>>
         \/ \E front \in Seq(Q) \ {<< >>}, y \in Q : ids = Append(front, y)
<1> DEFINE n == Len(ids)
<1>1. n \in Nat /\ n >= 1 /\ n - 1 \in Nat /\ \A i \in 1..n : ids[i] \in Q
  OBVIOUS
<1>2. CASE n = 1
  <2>1. ids[1] \in Q
    BY <1>1, <1>2
  <2>2. <<ids[1]>> \in Seq(Q) /\ Len(<<ids[1]>>) = 1 /\ <<ids[1]>>[1] = ids[1]
    BY <2>1
  <2>3. \A i \in 1..Len(ids) : ids[i] = <<ids[1]>>[i]
    BY <1>2
  <2> DEFINE one == <<ids[1]>>
  <2>4. one \in Seq(Q) /\ Len(ids) = Len(one) /\ \A i \in 1..Len(ids) : ids[i] = one[i]
    BY <1>2, <2>2, <2>3
  <2> HIDE DEF one
  <2>5. ids = one
    BY <2>4, SameMembers
  <2>6. QED
    BY <2>1, <2>5 DEF one
<1>3. CASE n # 1
  <2> DEFINE front == SubSeq(ids, 1, n - 1)
             y == ids[n]
             whole == Append(front, y)
  <2>1. n - 1 \in 0..Len(ids)
    BY <1>1
  <2>2. /\ front \in Seq(Q) /\ Len(front) = n - 1
        /\ \A i \in 1..(n - 1) : front[i] = ids[i]
    BY <2>1, PartIs
  <2>3. y \in Q
    BY <1>1
  <2> HIDE DEF front, y
  <2>4. /\ whole \in Seq(Q) /\ Len(whole) = (n - 1) + 1 /\ whole[(n - 1) + 1] = y
        /\ \A i \in 1..(n - 1) : whole[i] = front[i]
    BY <2>2, <2>3, AppendIs
  <2> HIDE DEF whole
  <2>5. (n - 1) + 1 = n /\ \A i \in 1..n : i \in 1..(n - 1) \/ i = n
    BY <1>1
  <2>6. Len(whole) = Len(ids) /\ \A i \in 1..Len(ids) : ids[i] = whole[i]
    BY <2>2, <2>4, <2>5 DEF y
  <2>7. ids = whole
    BY <2>4, <2>6, SameMembers
  <2>8. front # << >>
    BY <1>1, <1>3, <2>2
  <2>9. QED
    BY <2>2, <2>3, <2>7, <2>8 DEF whole
<1>4. QED
  BY <1>2, <1>3

LEMMA LastReplaced ==
  ASSUME NEW Q, NEW front \in Seq(Q), NEW y \in Q, NEW z \in Q
  PROVE  [Append(front, y) EXCEPT ![Len(Append(front, y))] = z] = Append(front, z)
<1> DEFINE m == Len(front)
           s == Append(front, y)
           u == Append(front, z)
           w == [s EXCEPT ![m + 1] = z]
<1>1. m \in Nat
  OBVIOUS
<1>2. /\ s \in Seq(Q) /\ Len(s) = m + 1 /\ \A i \in 1..m : s[i] = front[i]
      /\ u \in Seq(Q) /\ Len(u) = m + 1 /\ u[m + 1] = z /\ \A i \in 1..m : u[i] = front[i]
  BY AppendIs
<1> HIDE DEF s, u
<1>3. w \in Seq(Q) /\ Len(w) = m + 1
  BY <1>1, <1>2
<1>4. w[m + 1] = z /\ \A i \in 1..m : w[i] = s[i]
  BY <1>1, <1>2
<1> HIDE DEF w, m
<1>5. \A i \in 1..(m + 1) : i \in 1..m \/ i = m + 1
  BY <1>1
<1>6. Len(w) = Len(u) /\ \A i \in 1..Len(w) : w[i] = u[i]
  BY <1>2, <1>3, <1>4, <1>5
<1>7. w = u
  BY <1>2, <1>3, <1>6, SameMembers
<1>8. QED
  BY <1>2, <1>7 DEF s, u, w, m

\* The character that is split off is joined again.
LEMMA DottedSplit ==
  ASSUME NEW S, "." \in S, NEW pieces \in Seq(Seq(S)) \ {<< >>}, NEW c \in S
  PROVE  Dotted(Split(pieces, c, ".")) = Append(Dotted(pieces), c)
<1> DEFINE Q == Seq(S)
<1>1. << >> \in Q
  OBVIOUS
<1>2. ASSUME NEW x \in Q
      PROVE  /\ Dotted(<<x>>) = x
             /\ \A ids \in Seq(Q) \ {<< >>} :
                  Dotted(ids) \in Q /\ Dotted(Append(ids, x)) = Dot(Dotted(ids), x)
  BY <1>2, DottedIs
<1>3. ASSUME NEW s \in Q PROVE Dot(s, << >>) = Append(s, ".")
  BY <1>3 DEF Dot
<1>4. ASSUME NEW s \in Q, NEW x \in Q PROVE Dot(s, Append(x, c)) = Append(Dot(s, x), c)
  BY <1>4, SMTT(30) DEF Dot
<1>5. \A x \in Q : Append(x, c) \in Q
  OBVIOUS
<1> HIDE DEF Q
<1>6. CASE c = "."
  <2>1. Split(pieces, c, ".") = Append(pieces, << >>)
    BY <1>6 DEF Split
  <2>2. pieces \in Seq(Q) \ {<< >>}
    BY DEF Q
  <2>3. Dotted(Append(pieces, << >>)) = Dot(Dotted(pieces), << >>) /\ Dotted(pieces) \in Q
    BY <1>1, <1>2, <2>2
  <2>4. QED
    BY <1>3, <1>6, <2>1, <2>3
<1>7. CASE c # "."
  <2>1. Split(pieces, c, ".") = [pieces EXCEPT ![Len(pieces)] = Append(@, c)]
    BY <1>7 DEF Split
  <2>2. pieces \in Seq(Q) \ {<< >>}
    BY DEF Q
  <2>3. CASE \E y \in Q : pieces = <<y>>
    <3>1. PICK y \in Q : pieces = <<y>>
      BY <2>3
    <3>2. [<<y>> EXCEPT ![Len(<<y>>)] = Append(@, c)] = <<Append(y, c)>>
      OBVIOUS
    <3>3. Append(y, c) \in Q
      BY <1>5
    <3>4. QED
      BY <1>2, <2>1, <3>1, <3>2, <3>3
  <2>4. CASE \E front \in Seq(Q) \ {<< >>}, y \in Q : pieces = Append(front, y)
    <3>1. PICK front \in Seq(Q) \ {<< >>}, y \in Q : pieces = Append(front, y)
      BY <2>4
    <3>2. Append(y, c) \in Q
      BY <1>5
    <3> DEFINE z == Append(y, c)
               u == Append(front, z)
               m == Len(front)
    <3>3. Split(pieces, c, ".") = [pieces EXCEPT ![Len(pieces)] = z]
      <4>1. pieces[Len(pieces)] = y
        BY <3>1
      <4>2. QED
        BY <2>1, <4>1
    <3> HIDE DEF z
    <3>4. [pieces EXCEPT ![Len(pieces)] = z] = u
      <4>1. z \in Q
        BY <3>2 DEF z
      <4>2. QED
        BY <3>1, <4>1, LastReplaced
    <3>5. Dotted(u) = Dot(Dotted(front), z)
      BY <1>2, <3>2 DEF z
    <3>6. Dotted(front) \in Q /\ Dotted(pieces) = Dot(Dotted(front), y)
      BY <1>2, <3>1
    <3>7. QED
      BY <1>4, <3>3, <3>4, <3>5, <3>6 DEF z
  <2>5. QED
    BY <2>2, <2>3, <2>4, FrontAndLast
<1>8. QED
  BY <1>6, <1>7

\* What is split at the dots is joined with dots.
LEMMA DottedSplits ==
  ASSUME NEW S, "." \in S, NEW t \in Seq(S)
  PROVE  Dotted(SplitBy(t, ".")) = t
<1> DEFINE n == Len(t)
           A == Seq(Seq(S)) \ {<< >>}
<1>1. n \in Nat /\ \A i \in 1..n : t[i] \in S
  OBVIOUS
<1>2. PICK g : SplitSteps(S, t, ".", g)
  BY SplitRuns DEF Splits
<1>3. /\ \A k \in 0..n : g[k] \in A
      /\ g[0] = << << >> >> /\ SplitBy(t, ".") = g[n]
      /\ \A k \in 1..n : g[k] = Split(g[k - 1], t[k], ".")
  BY <1>2 DEF SplitSteps
<1> DEFINE Read(k) == /\ Dotted(g[k]) \in Seq(S) /\ Len(Dotted(g[k])) = k
                      /\ \A i \in 1..k : Dotted(g[k])[i] = t[i]
           G == {k \in 0..n : Read(k)}
<1>4. 0 \in G
  <2>1. << >> \in Seq(S) /\ Len(<< >>) = 0 /\ 1..0 = {} /\ 0 \in 0..n
    BY <1>1
  <2>2. Dotted(<< << >> >>) = << >>
    BY <2>1, DottedIs
  <2>3. QED
    BY <1>3, <2>1, <2>2
<1>5. ASSUME NEW k \in 1..n, k - 1 \in G PROVE k \in G
  <2> DEFINE q == g[k - 1]  c == t[k]  u == Dotted(q)  w == Append(u, c)
  <2>1. k \in 0..n /\ k - 1 \in 0..n /\ c \in S
    BY <1>1
  <2>2. q \in Seq(Seq(S)) \ {<< >>} /\ g[k] = Split(q, c, ".")
    BY <1>3, <2>1
  <2>3. /\ u \in Seq(S) /\ Len(u) = k - 1 /\ \A i \in 1..(k - 1) : u[i] = t[i]
    BY <1>5
  <2> HIDE DEF q, c
  <2>4. Dotted(g[k]) = w
    BY <2>1, <2>2, DottedSplit
  <2> HIDE DEF u
  <2>5. /\ w \in Seq(S) /\ Len(w) = (k - 1) + 1 /\ w[(k - 1) + 1] = c
        /\ \A i \in 1..(k - 1) : w[i] = u[i]
    BY <2>1, <2>3, AppendIs
  <2>6. (k - 1) + 1 = k /\ \A i \in 1..k : i \in 1..(k - 1) \/ i = k
    BY <2>1
  <2> HIDE DEF w
  <2>7. Len(w) = k /\ \A i \in 1..k : w[i] = t[i]
    BY <2>3, <2>5, <2>6 DEF c
  <2>8. QED
    BY <2>1, <2>4, <2>5, <2>7
<1>6. n \in G
  <2> HIDE DEF G
  <2>1. \A k \in 1..n : k - 1 \in G => k \in G
    BY <1>5
  <2>2. \A k \in 0..n : k \in G
    BY <1>1, <1>4, <2>1, UpTo
  <2>3. QED
    BY <1>1, <2>2
<1> DEFINE d == Dotted(g[n])
<1>7. d \in Seq(S) /\ Len(d) = Len(t) /\ \A i \in 1..Len(d) : d[i] = t[i]
  BY <1>6
<1> HIDE DEF d
<1>8. d = t
  BY <1>7, SameMembers
<1>9. QED
  BY <1>3, <1>8 DEF d

\* A number that was read is shown by a text that is read as that number.
LEMMA ShowIs ==
  ASSUME NEW s \in Seq(Digits), s # << >>, Value(s) <= U64Max
  PROVE  /\ Show(Value(s)) \in Seq(Digits) /\ Show(Value(s)) # << >>
         /\ ParseNumber(Show(Value(s))) = <<Value(s)>>
<1> DEFINE n == Value(s)
           m == Len(s)
           shown(k) == [1..k -> Digits]
           T == UNION {shown(k) : k \in 1..n}
<1>1. n \in Nat /\ m \in Nat /\ m >= 1 /\ n >= m
  BY ValueIsLong
<1>2. ParseNumber(s) = <<n>>
  <2>1. \A i \in DOMAIN s : s[i] \in Digits
    OBVIOUS
  <2>2. Unsigned(s) = s
    BY <2>1 DEF Unsigned, Digits
  <2>3. ~(Value(s) > U64Max)
    BY <1>1, U64Assumption
  <2>4. QED
    BY <2>1, <2>2, <2>3, Zenon DEF ParseNumber
<1>3. s \in T
  <2>1. s \in shown(m)
    OBVIOUS
  <2>2. m \in 1..n
    BY <1>1
  <2> HIDE DEF shown, m, n
  <2>3. QED
    BY <2>1, <2>2
<1>4. Show(n) \in T /\ ParseNumber(Show(n)) = <<n>>
  <2>1. Show(n) = CHOOSE t \in T : ParseNumber(t) = <<n>>
    BY Zenon DEF Show
  <2> HIDE DEF T, n
  <2>2. QED
    BY <1>2, <1>3, <2>1
<1>5. PICK k \in 1..n : Show(n) \in shown(k)
  <2> HIDE DEF shown, n
  <2>1. QED
    BY <1>4
<1>6. k \in Nat /\ k >= 1
  BY <1>1
<1> HIDE DEF n
<1>7. Show(n) \in Seq(Digits) /\ Len(Show(n)) = k
  BY <1>5, <1>6
<1>8. Show(n) # << >>
  BY <1>6, <1>7
<1>9. QED
  BY <1>4, <1>7, <1>8 DEF n

LEMMA FirstIs ==
  ASSUME NEW S, NEW s \in Seq(S), NEW sep
  PROVE  IsFirst(s, sep, FirstOf(s, sep))
<1> DEFINE I == {j \in 1..Len(s) : s[j] = sep}
           i == FirstOf(s, sep)
<1>1. i = IF I # {} THEN Min(I) ELSE 0
  BY DEF SelectInSeq, FirstOf
<1>2. I \in SUBSET Nat /\ Len(s) \in Nat
  OBVIOUS
<1> HIDE DEF i
<1>3. CASE I # {}
  <2> HIDE DEF I
  <2>1. PICK k \in I : \A j \in I : k <= j
    BY <1>2, <1>3, SmallestNumber
  <2>2. i \in I /\ \A j \in I : i <= j
    BY <1>1, <1>3, <2>1 DEF Min
  <2>3. i \in 1..Len(s) /\ s[i] = sep
    BY <2>2 DEF I
  <2>4. ASSUME NEW j \in 1..(i - 1) PROVE s[j] # sep
    <3>1. j \in 1..Len(s) /\ ~(i <= j)
      BY <1>2, <2>3
    <3>2. QED
      BY <2>2, <3>1 DEF I
  <2>5. QED
    BY <2>3, <2>4 DEF IsFirst, i
<1>4. CASE I = {}
  BY <1>1, <1>4 DEF IsFirst, i
<1>5. QED
  BY <1>3, <1>4

LEMMA FirstIsAt ==
  ASSUME NEW S, NEW s \in Seq(S), NEW sep, NEW k, IsFirst(s, sep, k)
  PROVE  FirstOf(s, sep) = k
<1> DEFINE i == FirstOf(s, sep)
<1>1. IsFirst(s, sep, i) /\ Len(s) \in Nat
  BY FirstIs
<1> HIDE DEF i
<1>2. CASE i = 0 \/ k = 0
  BY <1>1, <1>2 DEF IsFirst, i
<1>3. CASE i # 0 /\ k # 0
  <2>1. /\ i \in 1..Len(s) /\ s[i] = sep /\ \A j \in 1..(i - 1) : s[j] # sep
        /\ k \in 1..Len(s) /\ s[k] = sep /\ \A j \in 1..(k - 1) : s[j] # sep
    BY <1>1, <1>3 DEF IsFirst
  <2>2. i < k => i \in 1..(k - 1)
    BY <2>1
  <2>3. k < i => k \in 1..(i - 1)
    BY <2>1
  <2>4. ~(i < k) /\ ~(k < i)
    BY <2>1, <2>2, <2>3
  <2>5. i = k
    BY <1>1, <2>1, <2>4
  <2>6. QED
    BY <2>5 DEF i
<1>4. QED
  BY <1>2, <1>3

\* A text is what stands before its first separator, or that with the
\* separator and what comes behind it.
LEMMA HeadIs ==
  ASSUME NEW S, NEW s \in Seq(S), NEW sep
  PROVE  /\ FirstOf(s, sep) = 0 => Head1(s, sep) = s /\ Ids(s, sep) = << >>
         /\ FirstOf(s, sep) # 0 =>
              /\ Head1(s, sep) = SubSeq(s, 1, FirstOf(s, sep) - 1)
              /\ Ids(s, sep) = IF FirstOf(s, sep) = Len(s) THEN << >>
                               ELSE SplitBy(Without(s, FirstOf(s, sep)), ".")
<1>1. Head1(s, sep) = IF FirstOf(s, sep) = 0 THEN s ELSE SubSeq(s, 1, FirstOf(s, sep) - 1)
  BY Zenon DEF Head1, FirstOf
<1>2. Ids(s, sep) = IF FirstOf(s, sep) = 0 \/ FirstOf(s, sep) = Len(s) THEN << >>
                    ELSE SplitBy(Without(s, FirstOf(s, sep)), ".")
  BY Zenon DEF Ids, FirstOf
<1>3. QED
  BY <1>1, <1>2

LEMMA HeadIsTyped ==
  ASSUME NEW S, NEW s \in Seq(S), NEW sep
  PROVE  /\ Head1(s, sep) \in Seq(S) /\ Free(Head1(s, sep), sep)
         /\ IsOf(Head1(s, sep), s)
         /\ AreIds(S, Ids(s, sep), s)
<1> DEFINE k == FirstOf(s, sep)
           n == Len(s)
<1>1. IsFirst(s, sep, k) /\ n \in Nat
  BY FirstIs
<1>2. /\ k = 0 => Head1(s, sep) = s /\ Ids(s, sep) = << >>
      /\ k # 0 => /\ Head1(s, sep) = SubSeq(s, 1, k - 1)
                  /\ Ids(s, sep) = IF k = n THEN << >> ELSE SplitBy(Without(s, k), ".")
  BY HeadIs
<1> HIDE DEF k
<1>3. CASE k = 0
  BY <1>1, <1>2, <1>3 DEF IsFirst, Free, IsOf, AreIds
<1>4. CASE k # 0
  <2> DEFINE x == SubSeq(s, 1, k - 1)
             t == Without(s, k)
  <2>1. k \in 1..n /\ \A j \in 1..(k - 1) : s[j] # sep
    BY <1>1, <1>4 DEF IsFirst
  <2>2. k - 1 \in 0..n /\ k \in 0..n
    BY <1>1, <2>1
  <2>3. x \in Seq(S) /\ Len(x) = k - 1 /\ \A i \in 1..(k - 1) : x[i] = s[i]
    BY <2>2, PartIs
  <2>4. /\ t \in Seq(S) /\ Len(t) = n - k
        /\ \A i \in 1..(n - k) : t[i] = s[k + i]
    <3>1. Leaves(S, s, k, t)
      BY <2>2, WithoutIs
    <3>2. QED
      BY <3>1 DEF Leaves
  <2>5. \A i \in 1..(k - 1) : i \in 1..n
    BY <1>1, <2>1
  <2>6. \A i \in 1..(n - k) : k + i \in 1..n
    BY <1>1, <2>1
  <2> HIDE DEF x, t, n
  <2>7. Free(x, sep) /\ IsOf(x, s)
    BY <2>1, <2>3, <2>5 DEF Free, IsOf, n
  <2>8. IsOf(t, s)
    BY <2>4, <2>6 DEF IsOf, n
  <2>9. k # n => t # << >>
    BY <1>1, <2>1, <2>4
  <2>10. AreIds(S, Ids(s, sep), s)
    BY <1>2, <1>4, <2>4, <2>8, <2>9 DEF AreIds, t
  <2>11. QED
    BY <1>2, <1>4, <2>3, <2>7, <2>10 DEF x
<1>5. QED
  BY <1>3, <1>4

LEMMA ShownIsRead ==
  ASSUME NEW S, {".", "+", "-"} \subseteq S, NEW sep \in {"+", "-"},
         NEW x \in Seq(S), Free(x, sep), NEW ids, NEW s, AreIds(S, ids, s)
  PROVE  /\ Head1(x \o Shown(sep, ids), sep) = x
         /\ Ids(x \o Shown(sep, ids), sep) = ids
<1> DEFINE m == Len(x)
<1>1. sep \in S /\ "." \in S /\ m \in Nat
  OBVIOUS
<1>2. CASE ids = << >>
  <2>1. x \o Shown(sep, ids) = x
    BY <1>2 DEF Shown
  <2>2. IsFirst(x, sep, 0)
    BY DEF IsFirst, Free
  <2>3. FirstOf(x, sep) = 0
    BY <2>2, FirstIsAt
  <2>4. QED
    BY <1>2, <2>1, <2>3, HeadIs
<1>3. CASE ids # << >>
  <2>1. PICK t \in Seq(S) \ {<< >>} : ids = SplitBy(t, ".")
    BY <1>3 DEF AreIds
  <2> DEFINE n == Len(t)
             u == x \o Shown(sep, ids)
  <2>2. n \in Nat /\ n >= 1
    OBVIOUS
  <2>3. Dotted(ids) = t
    BY <1>1, <2>1, DottedSplits
  <2>4. u = x \o <<sep>> \o t
    <3>1. u = x \o (<<sep>> \o t)
      BY <1>3, <2>3 DEF Shown
    <3>2. x \o (<<sep>> \o t) = x \o <<sep>> \o t
      BY <1>1
    <3>3. QED
      BY <3>1, <3>2
  <2>5. Between(S, x, sep, t, u)
    BY <1>1, <2>4, BetweenIs
  <2> HIDE DEF u, m, n
  <2>6. /\ u \in Seq(S) /\ Len(u) = m + 1 + n /\ u[m + 1] = sep
        /\ \A i \in 1..m : u[i] = x[i]
        /\ \A i \in 1..n : u[m + 1 + i] = t[i]
    BY <2>5 DEF Between, m, n
  <2>7. IsFirst(u, sep, m + 1)
    <3>1. m + 1 \in 1..Len(u) /\ (m + 1) - 1 = m
      BY <1>1, <2>2, <2>6
    <3>2. \A j \in 1..m : u[j] # sep
      BY <2>6 DEF Free, m
    <3>3. QED
      BY <2>6, <3>1, <3>2 DEF IsFirst
  <2>8. FirstOf(u, sep) = m + 1
    BY <2>6, <2>7, FirstIsAt
  <2>9. m + 1 # 0 /\ m + 1 # Len(u) /\ (m + 1) - 1 = m
    BY <1>1, <2>2, <2>6
  <2>10. Head1(u, sep) = SubSeq(u, 1, m) /\ Ids(u, sep) = SplitBy(Without(u, m + 1), ".")
    BY <2>6, <2>8, <2>9, HeadIs
  <2>11. SubSeq(u, 1, m) = x
    <3> DEFINE w == SubSeq(u, 1, m)
    <3>1. m \in 0..Len(u)
      BY <1>1, <2>2, <2>6
    <3>2. w \in Seq(S) /\ Len(w) = m /\ \A i \in 1..m : w[i] = u[i]
      BY <2>6, <3>1, PartIs
    <3> HIDE DEF w
    <3>3. Len(w) = Len(x) /\ \A i \in 1..Len(w) : w[i] = x[i]
      BY <2>6, <3>2 DEF m
    <3>4. w = x
      BY <3>2, <3>3, SameMembers
    <3>5. QED
      BY <3>4 DEF w
  <2>12. Without(u, m + 1) = t
    <3> DEFINE w == Without(u, m + 1)
    <3>1. m + 1 \in 0..Len(u) /\ Len(u) - (m + 1) = n
      BY <1>1, <2>2, <2>6
    <3>2. Leaves(S, u, m + 1, w)
      BY <2>6, <3>1, WithoutIs
    <3>3. w \in Seq(S) /\ Len(w) = n /\ \A i \in 1..n : w[i] = u[m + 1 + i]
      BY <3>1, <3>2 DEF Leaves
    <3> HIDE DEF w
    <3>4. Len(w) = Len(t) /\ \A i \in 1..Len(w) : w[i] = t[i]
      BY <2>6, <3>3 DEF n
    <3>5. w = t
      BY <3>3, <3>4, SameMembers
    <3>6. QED
      BY <3>5 DEF w
  <2>13. QED
    BY <2>1, <2>10, <2>11, <2>12 DEF u
<1>4. QED
  BY <1>2, <1>3

\* Identifiers without a character are shown without it.
LEMMA ShownIsFree ==
  ASSUME NEW S, {".", "+", "-"} \subseteq S, NEW ids, NEW s, AreIds(S, ids, s), Free(s, "+"),
         NEW x \in Seq(S), Free(x, "+")
  PROVE  x \o Shown("-", ids) \in Seq(S) /\ Free(x \o Shown("-", ids), "+")
<1>1. "." \in S /\ "-" \in S
  OBVIOUS
<1>2. CASE ids = << >>
  <2>1. x \o Shown("-", ids) = x
    BY <1>2 DEF Shown
  <2>2. QED
    BY <2>1
<1>3. CASE ids # << >>
  <2>1. PICK t \in Seq(S) : ids = SplitBy(t, ".") /\ IsOf(t, s)
    BY <1>3 DEF AreIds
  <2> DEFINE u == x \o Shown("-", ids)  m == Len(x)  n == Len(t)
  <2>2. Dotted(ids) = t /\ m \in Nat /\ n \in Nat
    BY <1>1, <2>1, DottedSplits
  <2>3. u = x \o <<"-">> \o t
    <3>1. u = x \o (<<"-">> \o t)
      BY <1>3, <2>2 DEF Shown
    <3>2. x \o (<<"-">> \o t) = x \o <<"-">> \o t
      BY <1>1
    <3>3. QED
      BY <3>1, <3>2
  <2>4. Between(S, x, "-", t, u)
    BY <1>1, <2>3, BetweenIs
  <2> HIDE DEF u, m, n
  <2>5. /\ u \in Seq(S) /\ Len(u) = m + 1 + n /\ u[m + 1] = "-"
        /\ \A i \in 1..m : u[i] = x[i]
        /\ \A i \in 1..n : u[m + 1 + i] = t[i]
    BY <2>4 DEF Between, m, n
  <2>6. \A i \in 1..n : t[i] # "+"
    BY <2>1 DEF IsOf, Free, n
  <2>7. ASSUME NEW i \in 1..Len(u) PROVE u[i] # "+"
    <3> DEFINE j == i - (m + 1)
    <3>1. i \in 1..m \/ i = m + 1 \/ (j \in 1..n /\ m + 1 + j = i)
      BY <2>2, <2>5
    <3> HIDE DEF j
    <3>2. CASE i \in 1..m
      BY <2>5, <3>2 DEF Free, m
    <3>3. CASE i = m + 1
      BY <2>5, <3>3
    <3>4. CASE j \in 1..n /\ m + 1 + j = i
      BY <2>5, <2>6, <3>4
    <3>5. QED
      BY <3>1, <3>2, <3>3, <3>4
  <2>8. QED
    BY <2>5, <2>7 DEF Free, u
<1>4. QED
  BY <1>2, <1>3

LEMMA ThreeJoined ==
  ASSUME NEW x, NEW y, NEW z
  PROVE  <<x>> \o <<y>> = <<x, y>> /\ <<x, y>> \o <<z>> = <<x, y, z>>
<1> DEFINE S == {x, y, z}
<1>1. /\ <<x>> \in Seq(S) /\ <<y>> \in Seq(S) /\ <<z>> \in Seq(S)
      /\ <<x, y>> \in Seq(S) /\ <<x, y, z>> \in Seq(S)
  OBVIOUS
<1>2. Len(<<x>> \o <<y>>) = 2 /\ Len(<<x, y>> \o <<z>>) = 3
  BY <1>1
<1>3. /\ (<<x>> \o <<y>>)[1] = x /\ (<<x>> \o <<y>>)[2] = y
      /\ (<<x, y>> \o <<z>>)[1] = x /\ (<<x, y>> \o <<z>>)[2] = y
      /\ (<<x, y>> \o <<z>>)[3] = z
  BY <1>1
<1>4. <<x>> \o <<y>> \in Seq(S) /\ <<x, y>> \o <<z>> \in Seq(S)
  BY <1>1
<1>5. <<x>> \o <<y>> = <<x, y>>
  <2> DEFINE p == <<x>> \o <<y>>  q == <<x, y>>
  <2>1. /\ p \in Seq(S) /\ q \in Seq(S) /\ Len(p) = 2 /\ Len(q) = 2
        /\ p[1] = q[1] /\ p[2] = q[2]
    BY <1>1, <1>2, <1>3, <1>4
  <2> HIDE DEF p, q, S
  <2>2. \A i \in 1..Len(p) : p[i] = q[i]
    BY <2>1
  <2>3. p = q
    BY <2>1, <2>2, SameMembers
  <2>4. QED
    BY <2>3 DEF p, q
<1>6. <<x, y>> \o <<z>> = <<x, y, z>>
  <2> DEFINE p == <<x, y>> \o <<z>>  q == <<x, y, z>>
  <2>1. /\ p \in Seq(S) /\ q \in Seq(S) /\ Len(p) = 3 /\ Len(q) = 3
        /\ p[1] = q[1] /\ p[2] = q[2] /\ p[3] = q[3]
    BY <1>1, <1>2, <1>3, <1>4
  <2> HIDE DEF p, q, S
  <2>2. \A i \in 1..Len(p) : p[i] = q[i]
    BY <2>1
  <2>3. p = q
    BY <2>1, <2>2, SameMembers
  <2>4. QED
    BY <2>3 DEF p, q
<1>7. QED
  BY <1>5, <1>6

\* Three numbers with dots between them are split into the three.
LEMMA ThreeAreSplit ==
  ASSUME NEW a \in Seq(Digits), NEW b \in Seq(Digits), NEW c \in Seq(Digits)
  PROVE  /\ Dotted(<<a, b, c>>) \in Seq(Digits \union {"."})
         /\ SplitBy(Dotted(<<a, b, c>>), ".") = <<a, b, c>>
<1> DEFINE T == Digits \union {"."}
           Q == Seq(T)
           ab == Dot(a, b)
           abc == Dot(ab, c)
<1>1. "." \in T /\ a \in Q /\ b \in Q /\ c \in Q /\ "." \notin Digits
  BY DEF Digits
<1>2. ASSUME NEW x \in Seq(Digits) PROVE SplitBy(x, ".") = <<x>>
  <2> DEFINE p == SplitBy(x, ".")
  <2>1. x \in Q /\ \A i \in 1..Len(x) : x[i] # "."
    BY <1>1
  <2>2. Len(p) = 1 /\ p[1] = x
    BY <2>1, SplitOfOne
  <2>3. p \in Seq(Q)
    BY <2>1, SplitIsTyped
  <2>4. <<x>> \in Seq(Q) /\ Len(<<x>>) = 1 /\ <<x>>[1] = x
    BY <2>1
  <2> DEFINE one == <<x>>
  <2> HIDE DEF Q, p
  <2>5. Len(p) = Len(one) /\ \A i \in 1..Len(p) : p[i] = one[i]
    BY <2>2, <2>4
  <2>6. p = one
    <3>1. one \in Seq(Q)
      BY <2>4
    <3> HIDE DEF one
    <3>2. QED
      BY <2>3, <2>5, <3>1, SameMembers
  <2>7. QED
    BY <2>6 DEF p
<1>3. ab \in Q /\ abc \in Q
  BY <1>1 DEF Dot
<1>4. ab = a \o <<".">> \o b /\ abc = ab \o <<".">> \o c
  BY DEF Dot
<1> HIDE DEF T, ab, abc
<1>5. Between(T, a, ".", b, ab) /\ Between(T, ab, ".", c, abc)
  BY <1>1, <1>3, <1>4, BetweenIs
<1>6. SplitBy(ab, ".") = SplitBy(a, ".") \o SplitBy(b, ".")
  BY <1>1, <1>5, SplitOfTwo
<1>7. SplitBy(abc, ".") = SplitBy(ab, ".") \o SplitBy(c, ".")
  BY <1>1, <1>3, <1>5, SplitOfTwo
<1>8. SplitBy(abc, ".") = <<a, b, c>>
  <2>1. SplitBy(a, ".") = <<a>> /\ SplitBy(b, ".") = <<b>> /\ SplitBy(c, ".") = <<c>>
    BY <1>2
  <2>2. <<a>> \o <<b>> = <<a, b>> /\ <<a, b>> \o <<c>> = <<a, b, c>>
    BY ThreeJoined
  <2>3. QED
    BY <1>6, <1>7, <2>1, <2>2
<1>9. Dotted(<<a, b, c>>) = abc
  <2>1. /\ <<a>> \in Seq(Q) \ {<< >>} /\ <<a, b>> \in Seq(Q) \ {<< >>}
        /\ <<a, b>> = Append(<<a>>, b) /\ <<a, b, c>> = Append(<<a, b>>, c)
    BY <1>1
  <2>2. \A x \in Q : /\ Dotted(<<x>>) = x
                     /\ \A ids \in Seq(Q) \ {<< >>} : Dotted(Append(ids, x)) = Dot(Dotted(ids), x)
    BY <1>1, DottedIs
  <2> HIDE DEF Q
  <2>3. Dotted(<<a>>) = a
    BY <1>1, <2>2
  <2>4. Dotted(<<a, b>>) = ab
    BY <1>1, <2>1, <2>2, <2>3 DEF ab
  <2>5. QED
    BY <1>1, <2>1, <2>2, <2>4 DEF abc
<1>10. QED
  BY <1>3, <1>8, <1>9 DEF T

\* What there is to a text that is a version.
LEMMA ParsedIs ==
  ASSUME NEW s, parse(s) # << >>
  PROVE  LET core == Head1(s, "+")
             parts == SplitBy(Head1(core, "-"), ".")
         IN  /\ Len(parts) = 3 /\ \A i \in 1..3 : ParseNumber(parts[i]) # << >>
             /\ Numbers(parts, 3) = <<[i \in 1..3 |-> ParseNumber(parts[i])[1]]>>
             /\ parse(s) = <<[numbers |-> [i \in 1..3 |-> ParseNumber(parts[i])[1]],
                              pre |-> Ids(core, "-"), build |-> Ids(s, "+")]>>
<1> DEFINE core == Head1(s, "+")
           parts == SplitBy(Head1(core, "-"), ".")
           numbers == Numbers(parts, 3)
           read == [i \in 1..3 |-> ParseNumber(parts[i])[1]]
<1>1. parse(s) = IF Len(parts) # 3 \/ numbers = << >> THEN << >>
                 ELSE << [numbers |-> numbers[1], pre |-> Ids(core, "-"), build |-> Ids(s, "+")] >>
  BY DEF parse
<1>2. numbers = IF Len(parts) < 3 \/ \E i \in 1..3 : ParseNumber(parts[i]) = << >>
                THEN << >> ELSE <<read>>
  BY DEF Numbers
<1> HIDE DEF parts, core, read, numbers
<1>3. Len(parts) = 3 /\ numbers # << >>
  BY <1>1
<1>4. numbers = <<read>> /\ \A i \in 1..3 : ParseNumber(parts[i]) # << >>
  BY <1>2, <1>3
<1>5. parse(s) = <<[numbers |-> read, pre |-> Ids(core, "-"), build |-> Ids(s, "+")]>>
  BY <1>1, <1>3, <1>4
<1>6. QED
  BY <1>3, <1>4, <1>5 DEF parts, core, read, numbers

\* Conversely, a text of three numbers and what follows them.
LEMMA ParseOf ==
  ASSUME NEW s, NEW a, NEW b, NEW c,
         SplitBy(Head1(Head1(s, "+"), "-"), ".") = <<a, b, c>>,
         ParseNumber(a) # << >>, ParseNumber(b) # << >>, ParseNumber(c) # << >>
  PROVE  parse(s) = <<[numbers |-> [i \in 1..3 |-> ParseNumber(<<a, b, c>>[i])[1]],
                       pre |-> Ids(Head1(s, "+"), "-"), build |-> Ids(s, "+")]>>
<1> DEFINE parts == <<a, b, c>>
           numbers == Numbers(parts, 3)
           read == [i \in 1..3 |-> ParseNumber(parts[i])[1]]
<1>1. numbers = IF Len(parts) < 3 \/ \E i \in 1..3 : ParseNumber(parts[i]) = << >>
                THEN << >> ELSE <<read>>
  BY DEF Numbers
<1>2. Len(parts) = 3 /\ \A i \in 1..3 : ParseNumber(parts[i]) # << >>
  OBVIOUS
<1>3. numbers = <<read>>
  <2> HIDE DEF numbers, parts, read
  <2>1. QED
    BY <1>1, <1>2
<1>4. parse(s) = IF Len(parts) # 3 \/ numbers = << >> THEN << >>
                 ELSE << [numbers |-> numbers[1], pre |-> Ids(Head1(s, "+"), "-"),
                          build |-> Ids(s, "+")] >>
  BY DEF parse
<1> HIDE DEF numbers, parts, read
<1>5. numbers # << >> /\ numbers[1] = read
  BY <1>3
<1>6. QED
  BY <1>2, <1>4, <1>5 DEF read, parts

LEMMA ParsedHas ==
  ASSUME NEW S, NEW s \in Seq(S), parse(s) # << >>
  PROVE  \E x, y, z \in Seq(Digits) : \E pre, build : IsParsed(S, s, x, y, z, pre, build)
<1> DEFINE core == Head1(s, "+")
           d == Head1(core, "-")
           parts == SplitBy(d, ".")
           pre == Ids(core, "-")
           build == Ids(s, "+")
           x == parts[1]  y == parts[2]  z == parts[3]
           read == [i \in 1..3 |-> ParseNumber(parts[i])[1]]
           values == [i \in 1..3 |-> <<Value(x), Value(y), Value(z)>>[i]]
<1>1. core \in Seq(S) /\ Free(core, "+") /\ AreIds(S, build, s)
  BY HeadIsTyped
<1> DEFINE R == S \ {"+"}
<1>2. d \in Seq(R) /\ AreIds(S, pre, core)
  <2> HIDE DEF core
  <2>1. core \in Seq(R)
    BY <1>1 DEF Free
  <2> HIDE DEF R
  <2>2. QED
    BY <1>1, <2>1, HeadIsTyped
<1>3. /\ Len(parts) = 3 /\ \A i \in 1..3 : ParseNumber(parts[i]) # << >>
      /\ parse(s) = <<[numbers |-> read, pre |-> pre, build |-> build]>>
  BY ParsedIs
<1> HIDE DEF core, pre, build
<1>4. \A i \in 1..3 : parts[i] \in Seq(R)
  <2> DEFINE Q == Seq(R)
  <2>1. parts \in Seq(Q)
    BY <1>2, SplitIsTyped
  <2> HIDE DEF Q, parts
  <2>2. \A i \in 1..Len(parts) : parts[i] \in Q
    BY <2>1
  <2>3. \A i \in 1..3 : parts[i] \in Q
    BY <1>3, <2>2
  <2>4. QED
    BY <2>3 DEF Q
<1> HIDE DEF d, parts
<1>5. ASSUME NEW i \in 1..3
      PROVE  /\ parts[i] \in Seq(Digits) /\ parts[i] # << >>
             /\ ParseNumber(parts[i])[1] = Value(parts[i]) /\ Value(parts[i]) <= U64Max
  <2>1. parts[i] \in Seq(R) /\ ParseNumber(parts[i]) # << >>
    BY <1>3, <1>4
  <2>2. Free(parts[i], "+")
    BY <2>1 DEF Free
  <2>3. /\ parts[i] \in Seq(Digits) /\ parts[i] # << >>
        /\ ParseNumber(parts[i]) = <<Value(parts[i])>> /\ ~(Value(parts[i]) > U64Max)
    BY <2>1, <2>2, NumberIs
  <2>4. Value(parts[i]) \in Nat
    BY <2>3, ValueIsLong
  <2>5. QED
    BY <2>3, <2>4, U64Assumption
<1>6. /\ x \in Seq(Digits) /\ y \in Seq(Digits) /\ z \in Seq(Digits)
      /\ \A n \in {x, y, z} : n # << >> /\ Value(n) <= U64Max
  BY <1>5
<1>7. read = values
  <2>1. \A i \in 1..3 : read[i] = values[i]
    BY <1>5
  <2>2. QED
    BY <2>1
<1> HIDE DEF read, values
<1>8. parse(s) = <<[numbers |-> values, pre |-> pre, build |-> build]>>
  BY <1>3, <1>7
<1> HIDE DEF x, y, z
<1>9. IsParsed(S, s, x, y, z, pre, build)
  BY <1>1, <1>2, <1>6, <1>8 DEF values, core, IsParsed
<1>10. QED
  BY <1>6, <1>9

\* Whatever text a version is read from, the version that is shown is read as
\* the same one; and a text without a build that is a version is the version of
\* a driver with the same numbers (version.rs:185, inventory.rs:185).
THEOREM TextsAgree ==
  ASSUME NEW S, Digits \union {".", "+", "-"} \subseteq S, NEW s \in Seq(S)
  PROVE  TextAgrees(s)
<1> SUFFICES ASSUME parse(s) # << >>
             PROVE  /\ parse(display(parse(s)[1])) = parse(s)
                    /\ "+" \notin {s[i] : i \in DOMAIN s} =>
                         /\ DriverVersionParse(s) # << >>
                         /\ DriverVersionParse(s)[1].numbers = parse(s)[1].numbers
  BY DEF TextAgrees
<1>1. PICK x, y, z \in Seq(Digits) : \E pre, build : IsParsed(S, s, x, y, z, pre, build)
  BY ParsedHas
<1>2. PICK pre, build : IsParsed(S, s, x, y, z, pre, build)
  BY <1>1
<1>3. /\ \A n \in {x, y, z} : n # << >> /\ Value(n) <= U64Max
      /\ parse(s) = <<[numbers |-> [i \in 1..3 |-> <<Value(x), Value(y), Value(z)>>[i]],
                       pre |-> pre, build |-> build]>>
      /\ AreIds(S, pre, Head1(s, "+")) /\ Free(Head1(s, "+"), "+")
      /\ AreIds(S, build, s)
  BY <1>2 DEF IsParsed
<1> DEFINE v == parse(s)[1]
           values == [i \in 1..3 |-> <<Value(x), Value(y), Value(z)>>[i]]
<1>4. parse(display(v)) = parse(s)
  <2> DEFINE a == Show(Value(x))  b == Show(Value(y))  c == Show(Value(z))
             d == Dotted(<<a, b, c>>)
             core == d \o Shown("-", pre)
             u == core \o Shown("+", build)
             w == Head1(s, "+")
             again == [i \in 1..3 |-> ParseNumber(<<a, b, c>>[i])[1]]
  <2>1. /\ a \in Seq(Digits) /\ b \in Seq(Digits) /\ c \in Seq(Digits)
        /\ ParseNumber(a) = <<Value(x)>> /\ ParseNumber(b) = <<Value(y)>>
        /\ ParseNumber(c) = <<Value(z)>>
    BY <1>3, ShowIs
  <2>2. v = [numbers |-> values, pre |-> pre, build |-> build]
    BY <1>3
  <2>3. display(v) = u
    <3>1. [i \in 1..3 |-> Show(v.numbers[i])] = <<a, b, c>>
      <4>1. \A i \in 1..3 : v.numbers[i] = <<Value(x), Value(y), Value(z)>>[i]
        BY <2>2
      <4>2. QED
        BY <4>1
    <3>2. display(v) = Dotted([i \in 1..3 |-> Show(v.numbers[i])])
                         \o (IF v.pre = << >> THEN << >> ELSE <<"-">> \o Dotted(v.pre))
                         \o (IF v.build = << >> THEN << >> ELSE <<"+">> \o Dotted(v.build))
      BY DEF display
    <3>3. v.pre = pre /\ v.build = build
      BY <2>2
    <3> HIDE DEF v, a, b, c
    <3>4. QED
      BY <3>1, <3>2, <3>3 DEF Shown
  <2> HIDE DEF v, a, b, c
  <2>4. /\ d \in Seq(Digits \union {"."}) /\ SplitBy(d, ".") = <<a, b, c>>
    BY <2>1, ThreeAreSplit
  <2> HIDE DEF d
  <2>5. d \in Seq(S) /\ Free(d, "+") /\ Free(d, "-")
    <3> DEFINE T == Digits \union {"."}
    <3>1. T \subseteq S /\ "+" \notin T /\ "-" \notin T
      BY DEF Digits
    <3> HIDE DEF T
    <3>2. \A i \in 1..Len(d) : d[i] \in T
      BY <2>4 DEF T
    <3>3. d \in Seq(S)
      BY <2>4, <3>1 DEF T
    <3>4. QED
      BY <3>1, <3>2, <3>3 DEF Free
  <2>6. core \in Seq(S) /\ Free(core, "+")
    <3> HIDE DEF w
    <3>1. AreIds(S, pre, w) /\ Free(w, "+")
      BY <1>3 DEF w
    <3>2. QED
      BY <2>5, <3>1, ShownIsFree
  <2>7. Head1(core, "-") = d /\ Ids(core, "-") = pre
    BY <1>3, <2>5, ShownIsRead
  <2> HIDE DEF core
  <2>8. Head1(u, "+") = core /\ Ids(u, "+") = build
    BY <1>3, <2>6, ShownIsRead
  <2> HIDE DEF u
  <2>9. SplitBy(Head1(Head1(u, "+"), "-"), ".") = <<a, b, c>>
    BY <2>4, <2>7, <2>8
  <2>10. parse(u) = <<[numbers |-> again, pre |-> pre, build |-> build]>>
    <3>1. ParseNumber(a) # << >> /\ ParseNumber(b) # << >> /\ ParseNumber(c) # << >>
      BY <2>1
    <3>2. parse(u) = <<[numbers |-> again, pre |-> Ids(Head1(u, "+"), "-"),
                        build |-> Ids(u, "+")]>>
      BY <2>9, <3>1, ParseOf
    <3> HIDE DEF again
    <3>3. QED
      BY <2>7, <2>8, <3>2
  <2>11. again = values
    <3>1. \A i \in 1..3 : again[i] = values[i]
      BY <2>1
    <3>2. QED
      BY <3>1
  <2> HIDE DEF again
  <2>12. QED
    BY <1>3, <2>3, <2>10, <2>11
<1>5. ASSUME "+" \notin {s[i] : i \in DOMAIN s}
      PROVE  /\ DriverVersionParse(s) # << >>
             /\ DriverVersionParse(s)[1].numbers = parse(s)[1].numbers
  <2> DEFINE parts == SplitBy(Head1(s, "-"), ".")
             numbers == Numbers(parts, 3)
             read == [i \in 1..3 |-> ParseNumber(parts[i])[1]]
             rest == IF FirstOf(s, "-") = 0 THEN << >> ELSE Without(s, FirstOf(s, "-"))
  <2>1. Head1(s, "+") = s
    <3>1. \A i \in 1..Len(s) : s[i] # "+"
      BY <1>5
    <3>2. FirstOf(s, "+") = 0
      BY <3>1, FirstIsAt DEF IsFirst
    <3>3. QED
      BY <3>2, HeadIs
  <2>2. /\ numbers = <<read>>
        /\ parse(s)[1].numbers = read
    <3>1. /\ numbers = <<read>>
          /\ parse(s) = <<[numbers |-> read, pre |-> Ids(Head1(s, "+"), "-"),
                           build |-> Ids(s, "+")]>>
      BY <2>1, ParsedIs, Zenon
    <3> HIDE DEF read, numbers
    <3>2. QED
      BY <3>1
  <2>3. DriverVersionParse(s) = IF numbers = << >> THEN << >>
                                ELSE <<[numbers |-> numbers[1], pre |-> rest]>>
    BY DEF DriverVersionParse, FirstOf
  <2> HIDE DEF numbers, read, rest
  <2>4. numbers # << >> /\ numbers[1] = read
    BY <2>2
  <2>5. QED
    BY <2>2, <2>3, <2>4
<1>6. QED
  BY <1>4, <1>5

-----------------------------------------------------------------------------
(***************************************************************************)
(* The questions of MCDecisions, which are among what the theorems cover.  *)
(***************************************************************************)
LEMMA ComparedAreVersions ==
  /\ \A v \in Compared : IsVersion(v)
  /\ \A v \in DriverCompared : IsDriverVersion(v)
<1>1. /\ <<1, 1, 2>> \in Seq(Nat) /\ <<1, 2, 1>> \in Seq(Nat)
      /\ << >> \in Strings /\ <<"2">> \in Strings /\ <<"1">> \in Strings
      /\ <<"1", "1">> \in Strings /\ <<"1", "a">> \in Strings /\ <<"a">> \in Strings
  BY DEF Strings, Characters, Alphabet
<1>2. ASSUME NEW S, NEW x \in S, NEW y \in S
      PROVE  << >> \in Seq(S) /\ <<x>> \in Seq(S) /\ <<x, y>> \in Seq(S)
  OBVIOUS
<1>3. /\ << >> \in Seq(Strings) /\ <<<<"2">>>> \in Seq(Strings) /\ <<<<"1", "1">>>> \in Seq(Strings)
      /\ <<<<"1", "a">>>> \in Seq(Strings) /\ <<<<"a">>>> \in Seq(Strings)
      /\ <<<<"2">>, <<"1">>>> \in Seq(Strings)
  BY <1>1, <1>2
<1>4. ASSUME NEW v \in Compared PROVE IsVersion(v)
  <2>1. v.numbers \in {<<1, 1, 2>>, <<1, 2, 1>>}
        /\ v.pre \in {<< >>, <<<<"2">>>>, <<<<"1", "1">>>>, <<<<"1", "a">>>>, <<<<"a">>>>,
                      <<<<"2">>, <<"1">>>>}
    BY DEF Compared
  <2>2. QED
    BY <1>1, <1>3, <2>1, Zenon DEF IsVersion
<1>5. ASSUME NEW v \in DriverCompared PROVE IsDriverVersion(v)
  <2>1. v.numbers \in {<<1, 1, 2>>, <<1, 2, 1>>}
        /\ v.pre \in {<< >>, <<"2">>, <<"1", "1">>, <<"a">>}
    BY DEF DriverCompared
  <2>2. QED
    BY <1>1, <2>1, Zenon DEF IsDriverVersion
<1>6. QED
  BY <1>4, <1>5

LEMMA BoundsAreNumbers ==
  Kernels \subseteq Seq(Nat) /\ Bounds \union {<< >>} \subseteq Seq(Nat)
<1>1. ASSUME NEW kernel \in Kernels PROVE kernel \in Seq(Nat)
  <2>1. ASSUME NEW n \in Nat, kernel \in [1..n -> Nat] PROVE kernel \in Seq(Nat)
    BY <2>1
  <2>2. kernel \in [1..2 -> Nat] \/ kernel \in [1..3 -> Nat]
    BY DEF Kernels
  <2>3. QED
    BY <2>1, <2>2, Zenon
<1>2. Bounds \union {<< >>} \subseteq Seq(Nat)
  BY DEF Bounds
<1>3. QED
  BY <1>1, <1>2

LEMMA OrdersAreOrders == AskOne => VersionsAreOrdered'
<1> USE DEF VersionsAreOrdered, Asked, Of
<1>1. ASSUME AskOrder PROVE VersionsAreOrdered'
  <2>1. PICK a \in Compared, b \in Compared, c \in Compared :
          question' = [kind |-> "order", of |-> <<a, b, c>>]
    BY <1>1, Zenon DEF AskOrder, Ask
  <2>2. IsVersion(a) /\ IsVersion(b) /\ IsVersion(c)
    BY ComparedAreVersions
  <2>3. IsOrder(cmp, a, b, c)
    BY <2>2, VersionsHaveAnOrder
  <2>4. FollowsSemver(a, b)
    BY <2>2, PrefixesComeFirst
  <2>5. QED
    BY <2>1, <2>3, <2>4 DEF IsOrder
<1>2. ASSUME AskDriverOrder PROVE VersionsAreOrdered'
  <2>1. PICK a \in DriverCompared, b \in DriverCompared, c \in DriverCompared :
          question' = [kind |-> "drivers", of |-> <<a, b, c>>]
    BY <1>2, Zenon DEF AskDriverOrder, Ask
  <2>2. IsDriverVersion(a) /\ IsDriverVersion(b) /\ IsDriverVersion(c)
    BY ComparedAreVersions
  <2>3. IsOrder(DriverVersionCmp, a, b, c)
    BY <2>2, DriverVersionsHaveAnOrder
  <2>4. QED
    BY <2>1, <2>3 DEF IsOrder
<1>3. ASSUME AskRange PROVE VersionsAreOrdered'
  <2>1. PICK min \in Bounds, max \in Bounds \union {<< >>},
             low \in Kernels, middle \in Kernels, high \in Kernels :
          question' = [kind |-> "range", of |-> <<min, max, low, middle, high>>]
    BY <1>3, Zenon DEF AskRange, Ask
  <2>2. /\ min \in Seq(Nat) /\ max \in Seq(Nat)
        /\ low \in Seq(Nat) /\ middle \in Seq(Nat) /\ high \in Seq(Nat)
    BY BoundsAreNumbers
  <2>3. IsRange(min, max, low, middle, high)
    BY <2>2, RangesHaveNoGap
  <2>4. QED
    BY <2>1, <2>3
<1>4. SUFFICES ASSUME AskOne, ~AskOrder, ~AskDriverOrder, ~AskRange
               PROVE  VersionsAreOrdered'
  BY <1>1, <1>2, <1>3
<1>5. question'.kind \notin {"order", "drivers", "range"}
  <2>1. AskText \/ AskGlob \/ AskMatch \/ AskSelection \/ AskEntry \/ AskMetadata
          => question'.kind \notin {"order", "drivers", "range"}
    BY DEF AskText, AskGlob, AskMatch, AskSelection, AskEntry, AskMetadata, Ask
  <2>2. AskConfig => question'.kind \notin {"order", "drivers", "range"}
    BY DEF AskConfig, Ask
  <2>3. AskRule \/ AskPacket \/ AskPath \/ AskSources \/ AskDevice \/ AskModules
          \/ AskVerdict \/ AskSystem => question'.kind \notin {"order", "drivers", "range"}
    BY DEF AskRule, AskPacket, AskPath, AskSources, AskDevice, AskModules, AskVerdict,
           AskSystem, Ask
  <2>4. QED
    BY <1>4, <2>1, <2>2, <2>3 DEF AskOne
<1>6. QED
  BY <1>5

LEMMA NoneIsNoValue == NoValue
BY NoneAssumption, ListsAre DEF NoValue, Networks

LEMMA RulesetsAreFaithful == AskOne => FirewallIsFaithful'
<1> USE DEF FirewallIsFaithful, Asked, Of
<1>1. ASSUME AskRule PROVE FirewallIsFaithful'
  <2>1. PICK rule \in Rules, packet \in Packets :
          question' = [kind |-> "rule", of |-> <<rule, packet>>]
    BY <1>1 DEF AskRule, Ask
  <2>2. /\ rule.protocol \in Protocols \union {None} /\ rule.enabled \in BOOLEAN
        /\ rule.action \in RuleActions
    BY Zenon DEF Rules, RuleShapes, RuleActions
  <2>3. LineIsRule(rule, packet)
    BY <2>2, NoneAssumption, LinesAreRules
  <2>4. QED
    BY <2>1, <2>3
<1>2. ASSUME AskPacket PROVE FirewallIsFaithful'
  <2>1. PICK packet \in Packets : question' = [kind |-> "packet", of |-> packet]
    BY <1>2 DEF AskPacket, Ask
  <2>2. IsPacket(packet)
    BY DEF Packets, IsPacket, Networks
  <2>3. ProfilesWiden(packet)
    BY <2>2, NoneIsNoValue, ProfilesAreWider
  <2>4. QED
    BY <2>1, <2>3
<1>3. SUFFICES ASSUME AskOne, ~AskRule, ~AskPacket
               PROVE  FirewallIsFaithful'
  BY <1>1, <1>2
<1>4. question'.kind \notin {"rule", "packet"}
  <2>1. AskOrder \/ AskDriverOrder \/ AskRange \/ AskText \/ AskGlob \/ AskMatch
          => question'.kind \notin {"rule", "packet"}
    BY DEF AskOrder, AskDriverOrder, AskRange, AskText, AskGlob, AskMatch, Ask
  <2>2. AskSelection \/ AskEntry \/ AskMetadata => question'.kind \notin {"rule", "packet"}
    BY DEF AskSelection, AskEntry, AskMetadata, Ask
  <2>3. AskConfig => question'.kind \notin {"rule", "packet"}
    BY DEF AskConfig, Ask
  <2>4. AskPath \/ AskSources \/ AskDevice \/ AskModules \/ AskVerdict \/ AskSystem
          => question'.kind \notin {"rule", "packet"}
    BY DEF AskPath, AskSources, AskDevice, AskModules, AskVerdict, AskSystem, Ask
  <2>5. QED
    BY <1>3, <2>1, <2>2, <2>3, <2>4 DEF AskOne
<1>5. QED
  BY <1>4

LEMMA OfferedAreTyped ==
  ASSUME NEW registry \in Registries, NEW drivers \in Inventories,
         NEW a \in Ours, NEW b \in Theirs, NEW c \in Theirs
  PROVE  /\ drivers \in Seq(Range(drivers)) /\ <<a, b, c>> \in Seq(Ours \union Theirs)
         /\ AreTyped(registry, Range(drivers), Range(<<a, b, c>>))
<1>1. <<"1">> \in Strings /\ <<"2">> \in Strings
  BY DEF Strings, Characters
<1>2. \A id \in DOMAIN registry : registry[id].priority \in Int
  BY DEF Registries, Source
<1>3. \A p \in Ours \union Theirs : IsDriverVersion(p.version)
  <2>1. \A n \in {1, 2}, pre \in {<< >>, <<"a">>} : IsDriverVersion(Release(n, pre))
    <3>1. << >> \in Strings /\ <<"a">> \in Strings
      BY DEF Strings, Characters
    <3>2. \A n \in {1, 2} : <<1, 1, n>> \in Seq(Nat) /\ Len(<<1, 1, n>>) = 3
      OBVIOUS
    <3>3. QED
      BY <3>1, <3>2 DEF Release, IsDriverVersion
  <2>2. \A p \in Ours : p.version \in {Release(1, << >>), Release(2, <<"a">>)}
    BY DEF Ours, Package
  <2>3. \A p \in Theirs : p.version = Release(1, << >>)
    BY DEF Theirs, Package
  <2>4. QED
    BY <2>1, <2>2, <2>3
<1>4. PICK d, f : /\ drivers = <<d, f>> /\ d.name \in Strings /\ f.name \in Strings
  <2>1. \A name, patterns, needs : Fit(name, "amd64", patterns, <<6>>, needs).name = <<name>>
    BY DEF Fit
  <2> DEFINE first == Fit("1", "amd64", {<<"p", "*">>}, <<6>>, {})
             seconds == {Fit("2", "amd64", {<<"*", "2">>}, <<6>>, {}),
                         Fit("2", "amd64", {<<"*", "1", "2">>}, <<6>>, {"g"})}
  <2>2. first.name \in Strings /\ \A s \in seconds : s.name \in Strings
    BY <1>1, <2>1
  <2>3. Inventories = {<<first, s>> : s \in seconds}
    BY DEF Inventories
  <2> HIDE DEF first, seconds
  <2>4. PICK s \in seconds : drivers = <<first, s>>
    BY <2>3
  <2>5. QED
    BY <2>2, <2>4
<1>5. Range(drivers) = {d, f} /\ drivers \in Seq(Range(drivers))
  <2>1. Range(<<d, f>>) = {d, f}
    BY DEF Range
  <2>2. <<d, f>> \in Seq({d, f})
    OBVIOUS
  <2>3. QED
    BY <1>4, <2>1, <2>2
<1>6. Range(<<a, b, c>>) \subseteq Ours \union Theirs
  BY DEF Range
<1>7. <<a, b, c>> \in Seq(Ours \union Theirs)
  OBVIOUS
<1>8. QED
  BY <1>2, <1>3, <1>4, <1>5, <1>6, <1>7 DEF AreTyped

LEMMA SelectionsAreTheBest == AskOne => SelectionIsBest'
<1> USE DEF SelectionIsBest, Asked, Of
<1>1. ASSUME AskSelection PROVE SelectionIsBest'
  <2>1. PICK registry \in Registries, verified \in Verifications, drivers \in Inventories,
             a \in Ours, b \in Theirs, c \in Theirs :
          question' = [kind |-> "selection",
                       of |-> <<registry, verified, drivers, <<a, b, c>>>>]
    BY <1>1 DEF AskSelection, Ask
  <2>2. SelectedIsBest(TheSystem, registry, verified, Device, drivers, <<a, b, c>>)
    BY OfferedAreTyped, SelectionsAreBest, Zenon
  <2>3. QED
    BY <2>1, <2>2
<1>2. SUFFICES ASSUME AskOne, ~AskSelection PROVE SelectionIsBest'
  BY <1>1
<1>3. question'.kind # "selection"
  <2>1. AskOrder \/ AskDriverOrder \/ AskRange \/ AskText \/ AskGlob \/ AskMatch
          => question'.kind # "selection"
    BY DEF AskOrder, AskDriverOrder, AskRange, AskText, AskGlob, AskMatch, Ask
  <2>2. AskEntry \/ AskMetadata \/ AskRule \/ AskPacket => question'.kind # "selection"
    BY DEF AskEntry, AskMetadata, AskRule, AskPacket, Ask
  <2>3. AskConfig => question'.kind # "selection"
    BY DEF AskConfig, Ask
  <2>4. AskPath \/ AskSources \/ AskDevice \/ AskModules \/ AskVerdict \/ AskSystem
          => question'.kind # "selection"
    BY DEF AskPath, AskSources, AskDevice, AskModules, AskVerdict, AskSystem, Ask
  <2>5. QED
    BY <1>2, <2>1, <2>2, <2>3, <2>4 DEF AskOne
<1>4. QED
  BY <1>3

\* Versions and the versions of drivers are ordered, and kernel ranges have no
\* gap, whatever is asked; behind it stand the theorems above, for all versions,
\* kernels and bounds (version.rs:341, inventory.rs:243, matching.rs:360).
THEOREM OrdersAreRight == Questions => []VersionsAreOrdered
<1>1. Unasked => VersionsAreOrdered
  <2>1. Unasked => question.kind \notin {"order", "drivers", "range"}
    BY NoneAssumption DEF Unasked
  <2>2. QED
    BY <2>1 DEF VersionsAreOrdered, Asked, IsOrder
<1>2. VersionsAreOrdered /\ [AskOne]_question => VersionsAreOrdered'
  <2>1. VersionsAreOrdered /\ UNCHANGED question => VersionsAreOrdered'
    BY DEF VersionsAreOrdered, Asked, Of, IsOrder
  <2>2. QED
    BY <2>1, OrdersAreOrders
<1>3. QED
  BY <1>1, <1>2, PTL DEF Questions

\* A line of the firewall that is read means its rule, and the profiles widen the
\* public one, whatever is asked; LinesAreRules and ProfilesAreWider have it for
\* all rules and packets (nftables.rs:184, 86).
THEOREM RulesetsAreRight == Questions => []FirewallIsFaithful
<1>1. Unasked => FirewallIsFaithful
  <2>1. Unasked => question.kind \notin {"rule", "packet"}
    BY NoneAssumption DEF Unasked
  <2>2. QED
    BY <2>1 DEF FirewallIsFaithful, Asked
<1>2. FirewallIsFaithful /\ [AskOne]_question => FirewallIsFaithful'
  <2>1. FirewallIsFaithful /\ UNCHANGED question => FirewallIsFaithful'
    BY DEF FirewallIsFaithful, Asked, Of
  <2>2. QED
    BY <2>1, RulesetsAreFaithful
<1>3. QED
  BY <1>1, <1>2, PTL DEF Questions

\* The selector picks what its criteria leave over, whatever is asked;
\* SelectionsAreBest has it for all inventories and catalogs (selector.rs:247).
THEOREM SelectionsAreRight == Questions => []SelectionIsBest
<1>1. Unasked => SelectionIsBest
  <2>1. Unasked => question.kind # "selection"
    BY NoneAssumption DEF Unasked
  <2>2. QED
    BY <2>1 DEF SelectionIsBest, Asked
<1>2. SelectionIsBest /\ [AskOne]_question => SelectionIsBest'
  <2>1. SelectionIsBest /\ UNCHANGED question => SelectionIsBest'
    BY DEF SelectionIsBest, Asked, Of
  <2>2. QED
    BY <2>1, SelectionsAreTheBest
<1>3. QED
  BY <1>1, <1>2, PTL DEF Questions

LEMMA TextsAreTyped ==
  ASSUME NEW S, NEW T \in SUBSET S, NEW n \in Nat, NEW s \in Texts(T, n)
  PROVE  s \in Seq(S)
<1>1. PICK k \in 0..n : s \in [1..k -> T]
  BY DEF Texts
<1>2. k \in Nat
  OBVIOUS
<1>3. s \in Seq(T)
  BY <1>1, <1>2
<1>4. QED
  BY <1>3

LEMMA GlobsAsked ==
  ASSUME NEW pattern \in Texts({"1", "2", "*"}, 4), NEW text \in Texts({"1", "2"}, 4)
  PROVE  GlobIsExact(pattern, text)
<1> DEFINE S == {"1", "2", "*"}
<1>1. ASSUME NEW T \in SUBSET S, NEW s \in Texts(T, 4) PROVE s \in Seq(S)
  BY <1>1, TextsAreTyped
<1>2. pattern \in Seq(S) /\ text \in Seq(S)
  BY <1>1
<1>3. "*" \in S
  OBVIOUS
<1>4. QED
  BY <1>2, <1>3, GlobsAreExact, Zenon

LEMMA MatchesAsked ==
  ASSUME NEW system, NEW a \in SomeDrivers("1"), NEW b \in Fitting("2"), NEW c \in Fitting("a")
  PROVE  MatchesAreRanked(system, Device, <<a, b, c>>)
<1>1. a.name = <<"1">> /\ b.name = <<"2">> /\ c.name = <<"a">>
  BY DEF SomeDrivers, Fitting, Fit
<1>2. a # b /\ b # c /\ a # c
  BY <1>1
<1>3. <<a, b, c>> \in Seq({a, b, c})
  OBVIOUS
<1>4. Once(<<a, b, c>>)
  BY <1>2 DEF Once
<1>5. QED
  BY <1>3, <1>4, MatchesHaveTheirOrder, Zenon

LEMMA SystemsAsked ==
  ASSUME NEW base \in Texts({"1", "2", "."}, 5),
         NEW suffix \in {<< >>} \union {<<"-">> \o t : t \in Texts({"1", "a", "."}, 3)},
         NEW boot \in Configurations
  PROVE  DetectedSystemFits(base, suffix, boot)
<1> DEFINE S == {"1", "2", ".", "-", "a"}
<1>1. ASSUME NEW T \in SUBSET S, NEW n \in Nat, NEW s \in Texts(T, n) PROVE s \in Seq(S)
  BY <1>1, TextsAreTyped
<1>2. base \in Seq(S)
  BY <1>1
<1>3. suffix \in Seq(S) /\ (suffix # << >> => suffix[1] = "-")
  <2>1. CASE suffix = << >>
    BY <2>1
  <2>2. CASE suffix # << >>
    <3>1. PICK t \in Texts({"1", "a", "."}, 3) : suffix = <<"-">> \o t
      BY <2>2
    <3>2. t \in Seq(S)
      BY <1>1
    <3>3. QED
      BY <3>1, <3>2
  <2>3. QED
    BY <2>1, <2>2
<1>4. "-" \notin Digits
  BY DEF Digits
<1>5. \A l \in boot : l.value \in {"y", "m", "n"}
  BY DEF Configurations
<1> HIDE DEF S
<1>6. suffix # << >> => suffix[1] \notin Digits
  BY <1>3, <1>4
<1>7. suffix \in Seq(S)
  BY <1>3
<1>8. QED
  BY <1>2, <1>5, <1>6, <1>7, KernelsAreDetected, Zenon

LEMMA DevicesAsked ==
  ASSUME NEW bus \in BUS_SUBSYSTEMS, NEW vendor \in {"8086", "0000"},
         NEW device \in {"0A0C", "0000"}, NEW revision \in {"0000", "0515"},
         NEW uevent \in Texts(Pairs, 2), NEW driver \in {None, "e1000e"}
  PROVE  IdentityIsOwn(bus, vendor, device, revision, uevent, driver)
<1> DEFINE D == {None, "e1000e"}
<1>1. AreParts(DeviceParts) /\ {"0x", "unknown"} \subseteq DeviceParts
  BY DEF AreParts, DeviceParts
<1>2. {"8086", "0000", "0A0C", "0515"} \subseteq DeviceParts \ Marks
  BY DEF DeviceParts, Marks
<1>3. vendor \in DeviceParts \ Marks /\ device \in DeviceParts \ Marks /\ revision \in DeviceParts \ Marks
  BY <1>2
<1>4. ASSUME NEW l \in Pairs PROVE l.value \in Seq(DeviceParts)
  <2>1. "1AF4" \in DeviceParts
    BY DEF DeviceParts
  <2>2. << >> \in Seq(DeviceParts) /\ <<"1AF4">> \in Seq(DeviceParts)
    BY <2>1
  <2>3. l.value = << >> \/ l.value = <<"1AF4">>
    BY DEF Pairs
  <2>4. QED
    BY <2>2, <2>3
<1>5. uevent \in Seq(Pairs)
  BY TextsAreTyped
<1>6. None \notin Seq(DeviceParts) /\ None \notin Identities(DeviceParts, D)
  BY NoneAssumption DEF Identities
<1>7. driver \in D
  OBVIOUS
<1> HIDE DEF D
<1>8. \A l \in Pairs : l.value \in Seq(DeviceParts)
  BY <1>4
<1>9. QED
  BY <1>1, <1>3, <1>5, <1>6, <1>7, <1>8, IdentitiesAreOwn, Zenon

LEMMA ModulesAsked ==
  ASSUME NEW sys \in SysModules, NEW tree \in ModuleTrees, NEW lines \in ProcLines
  PROVE  FilesAreFound(sys, tree) /\ AnswersAgree(sys, tree, lines)
<1> DEFINE Stem == {"a", "b"}
           H    == {{}}
           F    == [stem : Stem, extensions : Extensions \union {<< >>}]
<1>1. "" \notin Stem /\ {} \in H
  OBVIOUS
<1>2. None \notin [state : {"BuiltIn", "Live", "Unloaded"}, used_by : H]
  BY NoneAssumption
<1>3. \A name \in DOMAIN sys : sys[name].holders \in H
  <2>1. PICK s : sys \in [s -> [hold : BOOLEAN, holders : {{}}]]
    BY DEF SysModules
  <2>2. QED
    BY <2>1
<1>4. tree \in [{"kernel", "updates", "extra"} -> SUBSET F]
  <2>1. ModuleFiles \subseteq F
    BY DEF ModuleFiles, Extensions
  <2>2. [stem |-> "a", extensions |-> <<".ko", ".gz">>] \in F
    BY DEF Extensions
  <2>3. [stem |-> "b", extensions |-> <<".ko">>] \in F
    BY DEF Extensions
  <2> HIDE DEF F
  <2>4. PICK k \in SUBSET ModuleFiles,
             u \in {{}, {[stem |-> "a", extensions |-> <<".ko", ".gz">>]}},
             x \in {{}, {[stem |-> "b", extensions |-> <<".ko">>]}} :
          tree = [kernel |-> k, updates |-> u, extra |-> x]
    BY DEF ModuleTrees
  <2>5. k \in SUBSET F /\ u \in SUBSET F /\ x \in SUBSET F
    BY <2>1, <2>2, <2>3
  <2>6. QED
    BY <2>4, <2>5
<1>5. FilesAreFound(sys, tree)
  <2> HIDE DEF Stem, H
  <2>1. QED
    BY <1>1, <1>2, <1>3, <1>4, ModulesAreFound, Zenon
<1>6. \A l, k \in lines : l.name = k.name => l = k
  BY DEF ProcLines
<1>7. QED
  BY <1>5, <1>6, AnswersAreTheSame

LEMMA MatchesAnswered == AskOne => MatchesAreSound'
<1> USE DEF MatchesAreSound, Asked, Of
<1> DEFINE Kinds == {"glob", "match", "system", "device", "modules"}
<1>1. ASSUME AskGlob PROVE MatchesAreSound'
  <2>1. PICK pattern \in Texts({"1", "2", "*"}, 4), text \in Texts({"1", "2"}, 4) :
          question' = [kind |-> "glob", of |-> <<pattern, text>>]
    BY <1>1, Zenon DEF AskGlob, Ask
  <2>2. QED
    BY <2>1, GlobsAsked
<1>2. ASSUME AskMatch PROVE MatchesAreSound'
  <2>1. PICK system \in Systems, a \in SomeDrivers("1"), b \in Fitting("2"), c \in Fitting("a") :
          question' = [kind |-> "match", of |-> <<system, Device, <<a, b, c>>>>]
    BY <1>2, Zenon DEF AskMatch, Ask
  <2>2. MatchesAreRanked(system, Device, <<a, b, c>>)
    BY MatchesAsked
  <2>3. QED
    BY <2>1, <2>2
<1>3. ASSUME AskSystem PROVE MatchesAreSound'
  <2>1. PICK base \in Texts({"1", "2", "."}, 5),
             suffix \in {<< >>} \union {<<"-">> \o t : t \in Texts({"1", "a", "."}, 3)},
             boot \in Configurations :
          question' = [kind |-> "system", of |-> <<base, suffix, boot>>]
    BY <1>3, Zenon DEF AskSystem, Ask
  <2>2. DetectedSystemFits(base, suffix, boot)
    BY SystemsAsked
  <2>3. QED
    BY <2>1, <2>2
<1>4. ASSUME AskDevice PROVE MatchesAreSound'
  <2>1. PICK bus \in BUS_SUBSYSTEMS, vendor \in {"8086", "0000"}, device \in {"0A0C", "0000"},
             revision \in {"0000", "0515"}, uevent \in Texts(Pairs, 2),
             driver \in {None, "e1000e"} :
          question' = [kind |-> "device", of |-> <<bus, vendor, device, revision, uevent, driver>>]
    BY <1>4, Zenon DEF AskDevice, Ask
  <2>2. IdentityIsOwn(bus, vendor, device, revision, uevent, driver)
    BY DevicesAsked
  <2>3. QED
    BY <2>1, <2>2
<1>5. ASSUME AskModules PROVE MatchesAreSound'
  <2>1. PICK sys \in SysModules, tree \in ModuleTrees, lines \in ProcLines :
          question' = [kind |-> "modules", of |-> <<sys, tree, lines>>]
    BY <1>5, Zenon DEF AskModules, Ask
  <2>2. FilesAreFound(sys, tree) /\ AnswersAgree(sys, tree, lines)
    BY ModulesAsked
  <2>3. QED
    BY <2>1, <2>2
<1>6. SUFFICES ASSUME AskOne, ~AskGlob, ~AskMatch, ~AskSystem, ~AskDevice, ~AskModules
               PROVE  MatchesAreSound'
  BY <1>1, <1>2, <1>3, <1>4, <1>5
<1>7. question'.kind \notin Kinds
  <2>1. AskOrder \/ AskDriverOrder \/ AskRange \/ AskText => question'.kind \notin Kinds
    BY DEF AskOrder, AskDriverOrder, AskRange, AskText, Ask
  <2>2. AskSelection \/ AskEntry \/ AskMetadata => question'.kind \notin Kinds
    BY DEF AskSelection, AskEntry, AskMetadata, Ask
  <2>3. AskConfig => question'.kind \notin Kinds
    BY DEF AskConfig, Ask
  <2>4. AskRule \/ AskPacket \/ AskPath \/ AskSources \/ AskVerdict => question'.kind \notin Kinds
    BY DEF AskRule, AskPacket, AskPath, AskSources, AskVerdict, Ask
  <2>5. QED
    BY <1>6, <2>1, <2>2, <2>3, <2>4 DEF AskOne
<1>8. QED
  BY <1>7

\* Globs are exact, matches are ranked, systems and devices are what they are
\* detected as and modules are found, whatever is asked; the theorems above have
\* it for all patterns, texts, inventories, releases, devices and trees
\* (matching.rs:485, 186, hwdetect.rs:202, kmod.rs:248).
THEOREM MatchesAreRight == Questions => []MatchesAreSound
<1>1. Unasked => MatchesAreSound
  <2>1. Unasked => question.kind \notin {"glob", "match", "system", "device", "modules"}
    BY NoneAssumption DEF Unasked
  <2>2. QED
    BY <2>1 DEF MatchesAreSound, Asked
<1>2. MatchesAreSound /\ [AskOne]_question => MatchesAreSound'
  <2>1. MatchesAreSound /\ UNCHANGED question => MatchesAreSound'
    BY DEF MatchesAreSound, Asked, Of
  <2>2. QED
    BY <2>1, MatchesAnswered
<1>3. QED
  BY <1>1, <1>2, PTL DEF Questions

LEMMA TextsAsked ==
  ASSUME NEW s \in VersionTexts
  PROVE  TextAgrees(s)
<1> DEFINE S == Digits \union {".", "+", "-", "a"}
           Q == Seq(S)
<1>1. /\ "1" \in S /\ "2" \in S /\ "a" \in S /\ "." \in S /\ "+" \in S /\ "-" \in S
      /\ Digits \union {".", "+", "-"} \subseteq S
  BY DEF Digits
<1> HIDE DEF S
<1>2. AfterCore \union {<< >>} \subseteq Q
  BY <1>1 DEF AfterCore
<1>3. ASSUME NEW rest \in Rests PROVE rest \in Q
  <2>1. << >> \in Q /\ <<"-">> \in Q /\ <<"+">> \in Q
    BY <1>1
  <2>2. CASE rest # << >>
    <3>1. PICK sep \in {"-", "+"}, t \in AfterCore \union {<< >>} : rest = <<sep>> \o t
      BY <2>2 DEF Rests
    <3>2. <<sep>> \in Q /\ t \in Q
      BY <1>2, <2>1
    <3>3. QED
      BY <3>1, <3>2
  <2>3. QED
    BY <2>1, <2>2
<1>4. s \in Q
  <2>1. PICK core \in Cores, end \in TwoRests : s = core \o end
    BY DEF VersionTexts
  <2>2. PICK a \in {"1", "2"}, b \in {"1", "2", "a"} : core = <<"1", ".", a, ".", b>>
    BY DEF Cores
  <2>3. PICK rest \in Rests, more \in Rests : end = rest \o more
    BY DEF TwoRests
  <2>4. core \in Q
    BY <1>1, <2>2
  <2>5. end \in Q
    BY <1>3, <2>3
  <2>6. QED
    BY <2>1, <2>4, <2>5
<1>5. QED
  BY <1>1, <1>4, TextsAgree

LEMMA MetadataAsked ==
  ASSUME NEW m \in Metadata
  PROVE  RangeIsRead(m)
<1> DEFINE S == {"1", ".", "a", "+", "2"}
<1>1. m.min \in KernelTexts /\ m.max \in {None, <<"1", ".">>, <<"1", ".", "2">>}
  BY Zenon DEF Metadata
<1>2. m.min \in Seq(S)
  <2>1. {"1", ".", "a", "+"} \in SUBSET S
    OBVIOUS
  <2> HIDE DEF S
  <2>2. QED
    BY <1>1, <2>1, TextsAreTyped DEF KernelTexts
<1>3. m.max \in Seq(S) \union {None}
  <2>1. <<"1", ".">> \in Seq(S) /\ <<"1", ".", "2">> \in Seq(S)
    OBVIOUS
  <2> HIDE DEF S
  <2>2. QED
    BY <1>1, <2>1
<1>4. QED
  BY <1>2, <1>3, RangesAreRead

LEMMA PathsAsked ==
  ASSUME NEW files, NEW path \in Beside \union {Path("/tmp", "..", <<"ko">>)}
  PROVE  SignatureIsOwn(files, path)
<1> DEFINE Dir == {"/tmp"}
           Stem == {"a", "b", ".."}
           E == {"ko", "xz", "sig"}
<1>1. "sig" \in E /\ "ko" \in E
  OBVIOUS
<1>2. {<<"ko">>, <<"xz">>, <<"sig">>, <<"ko", "sig">>, <<"xz", "sig">>} \subseteq Seq(E)
  OBVIOUS
<1> HIDE DEF E
<1>3. path \in [dir : Dir, stem : Stem, extensions : Seq(E)]
  <2>1. ASSUME NEW d \in Dir, NEW stem \in Stem, NEW e \in Seq(E)
        PROVE  Path(d, stem, e) \in [dir : Dir, stem : Stem, extensions : Seq(E)]
    BY DEF Path
  <2>2. CASE path \in Beside
    <3>1. PICK stem \in {"a", "b"},
               e \in {<<"ko">>, <<"xz">>, <<"sig">>, <<"ko", "sig">>, <<"xz", "sig">>} :
            path = Path("/tmp", stem, e)
      BY <2>2 DEF Beside
    <3>2. "/tmp" \in Dir /\ stem \in Stem /\ e \in Seq(E)
      BY <1>2
    <3> HIDE DEF Dir, Stem
    <3>3. QED
      BY <2>1, <3>1, <3>2
  <2>3. CASE path = Path("/tmp", "..", <<"ko">>)
    <3>1. "/tmp" \in Dir /\ ".." \in Stem /\ <<"ko">> \in Seq(E)
      BY <1>2
    <3> HIDE DEF Dir, Stem
    <3>2. QED
      BY <2>1, <2>3, <3>1
  <2>4. QED
    BY <2>2, <2>3
<1>4. QED
  BY <1>1, <1>3, SignaturesAreOwn

LEMMA VerdictsAsked ==
  ASSUME NEW files \in Texts(KeyFiles, 2), NEW allow \in BOOLEAN, NEW package,
         package.readable \in BOOLEAN, NEW signature, NEW key
  PROVE  VerdictFollowsKeys(files, allow, package, signature, key)
<1> DEFINE I == {"i", "j", "m"}  P == {"k", "l"}
<1>1. files \in Seq(KeyFiles)
  BY TextsAreTyped
<1>2. ASSUME NEW f \in KeyFiles PROVE f.id \in I \union {None} /\ f.public \in P
  BY DEF KeyFiles, KeyFile
<1>3. \A f \in KeyFiles : f.id \in I \union {None} /\ f.public \in P
  BY <1>2
<1>4. allow \in BOOLEAN /\ package.readable \in BOOLEAN
  OBVIOUS
<1> DEFINE F == KeyFiles
<1>5. files \in Seq(F) /\ AreKeyFiles(F, I, P)
  BY <1>1, <1>3 DEF AreKeyFiles
<1> HIDE DEF I, P, F
<1>6. VerdictFollowsKeys(files, allow, package, signature, key)
  BY <1>4, <1>5, VerdictsFollowKeys
<1>7. QED
  BY <1>6

LEMMA RegistriesAsked ==
  ASSUME NEW config \in Configs
  PROVE  RegistryIsUsable(default_sources \o <<config>>)
         /\ SourcesAreFound(default_sources \o <<config>>)
<1> DEFINE configs == default_sources \o <<config>>
           m == default_sources[1]
           l == default_sources[2]
           S == {m, l, config}
           Schemes == {"https", "http", "file"}
           Parts == {"@", "long"}
           U == [scheme : Schemes, parts : SUBSET Parts]
<1>1. /\ default_sources = <<m, l>> /\ m.priority = 10 /\ l.priority = 20
      /\ m.urls = {[scheme |-> "https", parts |-> {}]} /\ l.urls = {}
  BY DEF default_sources
<1>2. config.priority \in {10, 15, 1001}
      /\ config.urls \in SUBSET {Url("https", {}), Url("https", {"@"}), Url("http", {}),
                                 Url("file", {"long"})}
  BY Zenon DEF Configs
<1>3. m.urls \subseteq U /\ l.urls \subseteq U /\ config.urls \subseteq U
  BY <1>1, <1>2, SMTT(30) DEF Url
<1> HIDE DEF m, l
<1>4. configs = <<m, l, config>>
  BY <1>1, ThreeJoined
<1>5. configs \in Seq(S) /\ \A s \in S : s.priority \in Int
  BY <1>1, <1>2, <1>4
<1> HIDE DEF configs, S, U
<1>6. SourcesAreFound(configs)
  BY <1>5, EnabledSourcesAreFound
<1>7. \A i \in DOMAIN configs : configs[i].urls \subseteq U
  <2>1. \A s \in S : s.urls \subseteq U
    BY <1>3 DEF S
  <2>2. QED
    BY <1>5, <2>1
<1>8. RegistryIsUsable(configs)
  BY <1>7, RegistriesAreUsable DEF U
<1>9. QED
  BY <1>6, <1>8 DEF configs

LEMMA DescriptionsAnswered == AskOne => DescriptionsAreUsable'
<1> USE DEF DescriptionsAreUsable, Asked, Of
<1> DEFINE Kinds == {"text", "entry", "metadata", "path", "sources", "verdict", "registry"}
<1>1. ASSUME AskText PROVE DescriptionsAreUsable'
  <2>1. PICK s \in VersionTexts : question' = [kind |-> "text", of |-> s]
    BY <1>1, Zenon DEF AskText, Ask
  <2>2. TextAgrees(s)
    BY TextsAsked
  <2>3. QED
    BY <2>1, <2>2
<1>2. ASSUME AskEntry PROVE DescriptionsAreUsable'
  <2>1. PICK entry \in Entries : question' = [kind |-> "entry", of |-> entry]
    BY <1>2, Zenon DEF AskEntry, Ask
  <2>2. EntryIsUsable(entry)
    BY EntriesAreUsable
  <2>3. QED
    BY <2>1, <2>2
<1>3. ASSUME AskMetadata PROVE DescriptionsAreUsable'
  <2>1. PICK m \in Metadata : question' = [kind |-> "metadata", of |-> m]
    BY <1>3, Zenon DEF AskMetadata, Ask
  <2>2. RangeIsRead(m)
    BY MetadataAsked
  <2>3. QED
    BY <2>1, <2>2
<1>4. ASSUME AskPath PROVE DescriptionsAreUsable'
  <2>1. PICK files \in SmallTrees, path \in Beside \union {Path("/tmp", "..", <<"ko">>)} :
          question' = [kind |-> "path", of |-> <<files, path>>]
    BY <1>4, Zenon DEF AskPath, Ask
  <2>2. SignatureIsOwn(files, path)
    BY PathsAsked
  <2>3. QED
    BY <2>1, <2>2
<1>5. ASSUME AskSources PROVE DescriptionsAreUsable'
  <2> DEFINE Sources == {"mission", "linux", "linux-firmware", "vendor:v", "vendor", "local"}
  <2>1. PICK ids \in Texts(Sources, 3) : question' = [kind |-> "sources", of |-> ids]
    BY <1>5, Zenon DEF AskSources, Ask
  <2> HIDE DEF Sources
  <2>2. ids \in Seq(Sources)
    BY TextsAreTyped
  <2>3. SourcesAgree(ids)
    BY <2>2, NoneAssumption, SourceListsAgree
  <2>4. QED
    BY <2>1, <2>3
<1>6. ASSUME AskVerdict PROVE DescriptionsAreUsable'
  <2>1. PICK files \in Texts(KeyFiles, 2), allow \in BOOLEAN, readable \in BOOLEAN,
             signature \in Signatures, key \in {None, "i", "j"} :
          question' = [kind |-> "verdict",
                       of |-> <<files, allow, [readable |-> readable, content |-> "c"],
                                signature, key>>]
    BY <1>6 DEF AskVerdict, Ask
  <2> DEFINE package == [readable |-> readable, content |-> "c"]
  <2>2. package.readable \in BOOLEAN
    OBVIOUS
  <2>3. VerdictFollowsKeys(files, allow, package, signature, key)
    <3> HIDE DEF package
    <3>1. QED
      BY <2>2, VerdictsAsked
  <2>4. QED
    BY <2>1, <2>3
<1>7. ASSUME AskConfig PROVE DescriptionsAreUsable'
  <2>1. PICK config \in Configs :
          question' = [kind |-> "registry", of |-> default_sources \o <<config>>]
    BY <1>7, Zenon DEF AskConfig, Ask
  <2>2. RegistryIsUsable(default_sources \o <<config>>)
        /\ SourcesAreFound(default_sources \o <<config>>)
    BY RegistriesAsked
  <2>3. QED
    BY <2>1, <2>2
<1>8. SUFFICES ASSUME AskOne, ~AskText, ~AskEntry, ~AskMetadata, ~AskPath, ~AskSources,
                      ~AskVerdict, ~AskConfig
               PROVE  DescriptionsAreUsable'
  BY <1>1, <1>2, <1>3, <1>4, <1>5, <1>6, <1>7
<1>9. question'.kind \notin Kinds
  <2>1. AskOrder \/ AskDriverOrder \/ AskRange \/ AskGlob \/ AskMatch => question'.kind \notin Kinds
    BY DEF AskOrder, AskDriverOrder, AskRange, AskGlob, AskMatch, Ask
  <2>2. AskSelection \/ AskRule \/ AskPacket => question'.kind \notin Kinds
    BY DEF AskSelection, AskRule, AskPacket, Ask
  <2>3. AskDevice \/ AskModules \/ AskSystem => question'.kind \notin Kinds
    BY DEF AskDevice, AskModules, AskSystem, Ask
  <2>4. QED
    BY <1>8, <2>1, <2>2, <2>3 DEF AskOne
<1>10. QED
  BY <1>9

\* What one part of the daemon shows or accepts the next reads as the same and
\* can use, whatever is asked; the theorems above have it for all texts, entries,
\* metadata, files, keys and lists of sources (version.rs:300,
\* repository.rs:344, source.rs:205).
THEOREM DescriptionsAreRight == Questions => []DescriptionsAreUsable
<1>1. Unasked => DescriptionsAreUsable
  <2>1. Unasked => question.kind \notin
          {"text", "entry", "metadata", "path", "sources", "verdict", "registry"}
    BY NoneAssumption DEF Unasked
  <2>2. QED
    BY <2>1 DEF DescriptionsAreUsable, Asked
<1>2. DescriptionsAreUsable /\ [AskOne]_question => DescriptionsAreUsable'
  <2>1. DescriptionsAreUsable /\ UNCHANGED question => DescriptionsAreUsable'
    BY DEF DescriptionsAreUsable, Asked, Of
  <2>2. QED
    BY <2>1, DescriptionsAnswered
<1>3. QED
  BY <1>1, <1>2, PTL DEF Questions
=============================================================================
