------------------------ MODULE PackageVerification ------------------------
(***************************************************************************)
(* The key store and the signature check of mission-driverd                *)
(* (verification.rs).                                                      *)
(*                                                                         *)
(* A key file is [extension, readable, json, id, digits, public]: digits   *)
(* is [length, hex], where hex tells whether every pair of characters is   *)
(* read as a byte, and public the key they stand for.  The store maps      *)
(* identifiers to keys [id, public, enabled].  A package is [readable,     *)
(* content] and a signature None or [signer, content].                     *)
(***************************************************************************)
EXTENDS Naturals, Sequences, SequencesExt, Common

\* A key is 32 bytes long.
parse_key_file(file) ==
  IF ~file.json \/ file.id = None \/ hex_decode(file.digits) # 32 THEN None
  ELSE [id |-> file.id, public |-> file.public, enabled |-> TRUE]

add_key(store, key) ==
  [id \in DOMAIN store \union {key.id} |-> IF id = key.id THEN key ELSE store[id]]

remove_key(store, id) == [i \in DOMAIN store \ {id} |-> store[i]]

\* The files in the order in which the directory lists them.
load_keys(files) ==
  FoldLeft(LAMBDA store, file :
             IF file.extension \in {"pem", "key"} /\ file.readable /\ parse_key_file(file) # None
             THEN add_key(store, parse_key_file(file)) ELSE store,
           << >>, files)

enabled_keys(store) == {k \in {store[id] : id \in DOMAIN store} : k.enabled}

is_trusted(store, public) == \E k \in enabled_keys(store) : k.public = public

\* mission_crypto::verify
Verifies(key, package, signature) ==
  signature.signer = key.public /\ signature.content = package.content

SignatureCheck(outcome, key) == [outcome |-> outcome, key |-> key]

\* The verdicts a package can get: the keys of the store are tried in any
\* order, and the one that is named need not be the one that fits.
verify_package(store, allow_unsigned, package, signature, signing_key) ==
  LET fitting == {k \in enabled_keys(store) : Verifies(k, package, signature)}
  IN  IF signature = None
      THEN {SignatureCheck(IF allow_unsigned THEN "Valid" ELSE "MissingSignature", None)}
      ELSE IF ~package.readable THEN {SignatureCheck("Error", None)}
      ELSE IF fitting # {} THEN {SignatureCheck("Valid", k.id) : k \in fitting}
      ELSE IF signing_key \notin DOMAIN store \union {None}
           THEN {SignatureCheck("UntrustedKey", signing_key)}
      ELSE {SignatureCheck("Invalid", signing_key)}

\* A hash stands for the content it is made of.
verify_integrity(package, expected) ==
  SignatureCheck(IF ~package.readable THEN "Error"
          ELSE IF package.content = expected THEN "Valid" ELSE "Invalid", None)

\* The severity of the record of a verdict.
audit_verification(verdict) ==
  IF verdict.outcome = "Valid" THEN "Info"
  ELSE IF verdict.outcome = "Error" THEN "Error" ELSE "Warning"

-----------------------------------------------------------------------------
(***************************************************************************)
(* The order in which the store tries its keys never decides the outcome.  *)
(* A package is valid exactly if unsigned ones are allowed and it is one,  *)
(* or it can be read and a key signed it that some readable file of the    *)
(* store holds and no later file of the same identifier replaces           *)
(* (verification.rs:138, 256); with an identifier for each key the order   *)
(* of the directory does not matter either.  A key that is removed no      *)
(* longer counts, and only valid packages leave an Info record.            *)
(***************************************************************************)
Held(files) ==
  {i \in DOMAIN files :
     files[i].extension \in {"pem", "key"} /\ files[i].readable /\ parse_key_file(files[i]) # None}

VerdictFollowsKeys(files, allow_unsigned, package, signature, signing_key) ==
  LET held     == Held(files)
      last     == {i \in held : \A j \in held : j > i => files[j].id # files[i].id}
      store    == load_keys(files)
      verdicts == verify_package(store, allow_unsigned, package, signature, signing_key)
  IN  /\ \A v, w \in verdicts : v.outcome = w.outcome
      /\ \A v \in verdicts :
           /\ v.outcome = "Valid"
                <=> IF signature = None THEN allow_unsigned
                    ELSE /\ package.readable /\ signature.content = package.content
                         /\ \E i \in last : files[i].public = signature.signer
           /\ (audit_verification(v) = "Info") = (v.outcome = "Valid")
           /\ v.outcome = "Valid" /\ signature # None =>
                /\ verify_integrity(package, signature.content).outcome = "Valid"
                /\ is_trusted(store, signature.signer)
                /\ \A w \in verify_package(remove_key(store, v.key), allow_unsigned, package,
                                           signature, signing_key) :
                     w.outcome = "Valid" => w.key # v.key
      /\ held = last => store = load_keys(Reverse(files))
=============================================================================
