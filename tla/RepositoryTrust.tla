--------------------------- MODULE RepositoryTrust ---------------------------
(***************************************************************************)
(* The manifests of a driver repository (repository.rs): how old a list of *)
(* packages mission-driverd accepts, by its own clock, from a mirror that  *)
(* may serve any list the repository ever signed, or one it did not.       *)
(*                                                                         *)
(* The repository writes the time of its clock into a manifest; the daemon *)
(* reads another clock, which is drift ahead of it (behind, if negative)   *)
(* and reads zero before the epoch.  Who fetches the manifest and keeps    *)
(* the result is not in the repository yet: Refresh stands for that caller *)
(* of RepositoryManager::verify_manifest, which hands the verification to  *)
(* the selector as update_manifest_verification says.                      *)
(***************************************************************************)
EXTENDS Integers, Sequences, FiniteSets

CONSTANTS
  Skew,         \* FreshnessPolicy::clock_skew_secs
  MaxAge,       \* FreshnessPolicy::max_age_secs
  Drifts,       \* the differences of the clocks that are considered
  Lifetimes,    \* how long the manifests of the repository are valid
  EndOfTime,    \* the bound on the repository's clock
  MaxPublished, \* the bound on the number of manifests
  RepositoryKey,\* the key the repository signs with
  TrustedKeys,  \* TrustConfig::trusted_keys, in the order they are tried
  Malformed     \* those of them that are not 64 hexadecimal digits

ASSUME PolicyAssumption ==
  /\ Skew \in Nat /\ MaxAge \in Nat /\ EndOfTime \in Nat /\ MaxPublished \in Nat
  /\ Drifts \subseteq Int /\ Lifetimes \subseteq Nat
  /\ TrustedKeys \in Seq(Malformed \union {RepositoryKey})
  /\ RepositoryKey \notin Malformed

VARIABLES
  time,       \* the clock of the repository
  drift,      \* how far the daemon's clock is ahead of it
  published,  \* the manifests the repository has signed
  answer,     \* the result of the last verification, what it was given and when
  audit       \* what the last verification recorded

vars == <<time, drift, published, answer, audit>>

(***************************************************************************)
(* A manifest is [issued, expires, complete]: complete stands for the      *)
(* parts of validate that do not depend on a time, the identifiers, the    *)
(* version and the package entries (see PackageDescription).               *)
(***************************************************************************)
Manifests == [issued : Nat, expires : Nat, complete : BOOLEAN]
NoManifest == [issued |-> 0, expires |-> 0, complete |-> FALSE]

\* Keys that may have made a signature: the repository's, or none it uses.
Signers == {"repository", "somebody", "nobody"}

Results == {"Verified", "Unverified", "InvalidSignature", "UnknownKey", "NotFresh", "NotValid", "None"}

Init ==
  /\ time = 1
  /\ drift \in Drifts
  /\ published = {}
  /\ answer = [manifest |-> NoManifest, signer |-> "nobody",
               result |-> "None", at |-> time]
  /\ audit = "none"

-----------------------------------------------------------------------------
\* u64::saturating_sub
Minus(a, b) == IF a < b THEN 0 ELSE a - b

\* SystemTime::now, zero for a clock before the epoch.
Now == IF time + drift < 0 THEN 0 ELSE time + drift

\* RepositoryManifest::validate
ManifestValid(m) ==
  m.complete /\ m.issued # 0 /\ m.expires # 0 /\ m.issued < m.expires

\* A difference that wraps around when the manifest is ahead of the clock.
Mutcheck_freshness(m) ==
  /\ m.issued <= Now + Skew
  /\ Minus(Now, Skew) <= m.expires
  /\ (Now - m.issued) % 256 <= MaxAge

\* The skew tolerated in the age as well.
MutFreshTooLong(m) ==
  /\ m.issued <= Now + Skew
  /\ Minus(Now, Skew) <= m.expires
  /\ Minus(Minus(Now, Skew), m.issued) <= MaxAge

check_freshness(m) ==
  /\ m.issued <= Now + Skew
  /\ Minus(Now, Skew) <= m.expires
  /\ Minus(Now, m.issued) <= MaxAge

\* Malformed keys are passed over; without any key the signer is unknown.
verify_manifest_signature(signer) ==
  IF \/ signer = "nobody"
     \/ TrustedKeys # << >> /\ ~(/\ signer = "repository"
                                 /\ \E i \in DOMAIN TrustedKeys : TrustedKeys[i] = RepositoryKey)
  THEN "InvalidSignature"
  ELSE IF TrustedKeys = << >> THEN "UnknownKey" ELSE "Verified"

\* RepositoryManager::verify_manifest: structure, freshness, signature.
verify_manifest(m, signer) ==
  IF ~ManifestValid(m) THEN "NotValid"
  ELSE IF ~check_freshness(m) THEN "NotFresh"
  ELSE verify_manifest_signature(signer)

\* RepositoryManager::validate_unsigned_manifest: structure and freshness only.
validate_unsigned_manifest(m) ==
  IF ~ManifestValid(m) THEN "NotValid"
  ELSE IF ~check_freshness(m) THEN "NotFresh" ELSE "Unverified"

\* The record of the audited variants; what is not valid, and what is accepted
\* unsigned, leaves none.
AuditOf(result) ==
  IF result = "NotFresh" THEN "metadata_freshness_rejected"
  ELSE IF result = "Verified" THEN "metadata_authentication_success"
  ELSE IF result = "UnknownKey" THEN "metadata_unknown_key"
  ELSE IF result = "InvalidSignature" THEN "metadata_authentication_failure"
  ELSE audit

-----------------------------------------------------------------------------
Tick ==
  /\ time < EndOfTime
  /\ time' = time + 1
  /\ UNCHANGED <<drift, published, answer, audit>>

\* ManifestBuilder: issued now, for as long as the repository chooses.
Publish(lifetime, complete) ==
  /\ Cardinality(published) < MaxPublished
  /\ published' = published \union
       {[issued |-> time, expires |-> time + lifetime, complete |-> complete]}
  /\ UNCHANGED <<time, drift, answer, audit>>

Verify(m, signer, result) ==
  /\ answer' = [manifest |-> m, signer |-> signer, result |-> result, at |-> time]
  /\ audit' = AuditOf(result)
  /\ UNCHANGED <<time, drift, published>>

Refresh(m, signer) == Verify(m, signer, verify_manifest(m, signer))

\* The mirror serves a manifest that was published, new or old.
RefreshPublished == \E m \in published : Refresh(m, "repository")

\* It serves one with the times changed, whose signature is not the repository's.
Altered(m) == [issued |-> time, expires |-> time + 1, complete |-> m.complete]

RefreshAltered ==
  \E m \in published, signer \in {"somebody", "nobody"} : Refresh(Altered(m), signer)

\* A caller that takes manifests without a signature.
RefreshUnsigned ==
  \E m \in published :
    \/ Verify(m, "repository", validate_unsigned_manifest(m))
    \/ Verify(Altered(m), "nobody", validate_unsigned_manifest(Altered(m)))

Next ==
  \/ Tick
  \/ \E lifetime \in Lifetimes, complete \in BOOLEAN : Publish(lifetime, complete)
  \/ RefreshPublished
  \/ RefreshUnsigned
  \/ RefreshAltered

Spec == Init /\ [][Next]_vars

-----------------------------------------------------------------------------
TypeOK ==
  /\ time \in Nat \ {0} /\ drift \in Drifts /\ published \subseteq Manifests
  /\ answer \in [manifest : Manifests, signer : Signers, result : Results, at : Nat]

\* How far the daemon's clock is behind.
Behind == IF drift < 0 THEN -drift ELSE 0

(***************************************************************************)
(* What is accepted as signed was published by the repository, and the     *)
(* trail says so; and whatever is accepted is, by the repository's clock,  *)
(* older than the policy allows, or past its end, by no more than the      *)
(* daemon's clock is behind (and, past its end, the skew): a mirror can    *)
(* hold an update back for that long and no longer (repository.rs:507).    *)
(***************************************************************************)
ReplayIsBounded ==
  answer.result \in {"Verified", "Unverified"} =>
    /\ answer.result = "Verified" =>
         answer.manifest \in published /\ audit = "metadata_authentication_success"
    /\ answer.at - answer.manifest.issued <= MaxAge + Behind
    /\ answer.at <= answer.manifest.expires + Skew + Behind

(***************************************************************************)
(* What the repository published is not refused for its times, as long as  *)
(* the clocks differ by no more than the skew and it was, by the clock of  *)
(* the repository, that far from the limits (repository.rs:507-540).       *)
(***************************************************************************)
FreshIsAccepted ==
  LET m == answer.manifest
  IN  /\ answer.signer = "repository" /\ m.complete /\ m.issued < m.expires
      /\ \E i \in DOMAIN TrustedKeys : TrustedKeys[i] = RepositoryKey
      /\ -Skew <= drift /\ drift <= Skew
      /\ answer.at - m.issued + Skew <= MaxAge /\ answer.at <= m.expires
      => answer.result \in {"Verified", "Unverified"}
=============================================================================
