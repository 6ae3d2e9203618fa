-------------------------- MODULE PackageDownload --------------------------
(***************************************************************************)
(* DownloadManager::download: the retry loop, the resume of a partial file *)
(* by an HTTP range request and the digest check, with the server free to  *)
(* answer anything, the disk free to fail and the process free to die.     *)
(*                                                                         *)
(* A file is its length and whether its bytes are the package's first      *)
(* ones.  Lengths count blocks, the units in which a body arrives.  One    *)
(* call runs at a time.  The partial file, which only a resumed download   *)
(* writes, is there from the start or not.  The URL is a valid one.  The   *)
(* code looks at no error of a removal: each of them may fail.             *)
(***************************************************************************)
EXTENDS Naturals

CONSTANTS
  Size,         \* length of the package the digest is of
  MaxSize,      \* DownloadConfig.max_response_size
  MaxBody,      \* bound: length of the longest body a server sends
  MaxRetries,   \* RetryPolicy.max_retries
  Expectations, \* what expected_size may be: a set of acceptable sizes
  NoFile        \* a path at which there is no file

File  == [len : Nat, ok : BOOLEAN]
Empty == [len |-> 0, ok |-> TRUE]

ASSUME SizesAssumption ==
  /\ Size \in Nat \ {0} /\ MaxSize \in Nat /\ MaxBody \in Nat /\ MaxRetries \in Nat
  /\ \A E \in Expectations : E \subseteq Nat

ASSUME NoFileAssumption == NoFile \notin File

VARIABLES
  phase,    \* where the call is
  offset,   \* existing_size, read once; 0: nothing to resume
  attempt,  \* failed attempts of this call
  expected, \* the sizes expected_size accepts
  body,     \* the response being read
  total,    \* total_bytes
  partial,  \* <partials>/dl-<digest>.part
  tmp,      \* <destination>.tmp
  dest,     \* <destination>
  result,   \* the last error of the call, or its answer
  leftover  \* history: the file at the destination was never checked, or was
            \* refused and could not be removed

vars ==
  <<phase, offset, attempt, expected, body, total, partial, tmp, dest, result, leftover>>

call  == <<offset, attempt, expected>>
files == <<partial, tmp, dest>>

Errors  == {"network", "range", "InvalidArgument", "VerificationFailed", "Internal"}
Results == Errors \cup {"none", "Ok", "died"}

\* A response: whether it answers a range request, whether its bytes are the
\* package's, what is left of it and whether its length was declared.
Bodies == [resumed : BOOLEAN, good : BOOLEAN, left : 0..MaxBody, declared : BOOLEAN]

\* What a server may send from the given position.
Served(from, resumed) ==
  {b \in Bodies : b.resumed = resumed /\ (b.good => from + b.left = Size)}

Whole(f) == f = [len |-> Size, ok |-> TRUE]

\* What is at a path after a removal whose error nobody looks at.
AfterRemoval(f) == {NoFile, f}

Init ==
  /\ phase = "idle"
  /\ offset = 0 /\ attempt = 0 /\ total = 0
  /\ expected \in Expectations
  /\ body \in Served(0, FALSE) /\ body.left = 0
  /\ partial \in {NoFile} \cup {[len |-> n, ok |-> TRUE] : n \in 0..Size}
  /\ tmp = NoFile /\ dest = NoFile
  /\ result = "none"
  /\ leftover = FALSE

-----------------------------------------------------------------------------
\* RetryPolicy::should_retry: what the code calls DownloadFailed.
should_retry(e) == e \in {"network", "range"}

MutFail(e) ==
  /\ result' = e
  /\ attempt' = attempt + 1
  /\ phase' = IF attempt' <= MaxRetries + 1 /\ should_retry(e) THEN "attempt" ELSE "idle"
  /\ UNCHANGED <<offset, expected>>

MutFailForever(e) ==
  /\ result' = e
  /\ UNCHANGED attempt
  /\ phase' = IF should_retry(e) THEN "attempt" ELSE "idle"
  /\ UNCHANGED <<offset, expected>>

\* The attempt fails: another one, after the backoff, or the answer.
Fail(e) ==
  /\ result' = e
  /\ attempt' = attempt + 1
  /\ phase' = IF attempt' < MaxRetries + 1 /\ should_retry(e) THEN "attempt" ELSE "idle"
  /\ UNCHANGED <<offset, expected>>

Return(r) ==
  /\ result' = r
  /\ phase' = "idle"
  /\ UNCHANGED <<call, body, total>>

\* download() is called; the partial file is looked at once, before the loop,
\* and not resumed if its metadata cannot be read.
Download ==
  /\ phase = "idle"
  /\ phase' = "attempt"
  /\ offset' \in IF partial = NoFile THEN {0} ELSE {0, partial.len}
  /\ attempt' = 0
  /\ expected' \in Expectations
  /\ result' = "none"
  /\ UNCHANGED <<body, total, files, leftover>>

\* The range request fails.
RangeFails ==
  /\ phase = "attempt" /\ offset > 0
  /\ Fail("network")
  /\ UNCHANGED <<body, total, files, leftover>>

\* The server cannot continue: 416, a redirect, or a Content-Range that is
\* missing, malformed or does not start at the offset.
RangeRefused ==
  /\ phase = "attempt" /\ offset > 0
  /\ Fail("range")
  /\ UNCHANGED <<body, total, files, leftover>>

\* 206: the rest of the body goes to the partial file, if it is still there.
RangeAnswered ==
  /\ phase = "attempt" /\ offset > 0
  /\ IF partial = NoFile
     THEN Fail("Internal") /\ UNCHANGED <<body, total>>
     ELSE /\ body' \in Served(offset, TRUE)
          /\ total' = offset
          /\ phase' = "reading"
          /\ UNCHANGED <<call, result>>
  /\ UNCHANGED <<files, leftover>>

\* 200: the server does not do ranges; the partial file goes if it can be
\* removed, and the package is asked for again, whatever its length.
RangeIgnored ==
  /\ phase = "attempt" /\ offset > 0
  /\ partial' \in AfterRemoval(partial)
  /\ phase' = "restart"
  /\ UNCHANGED <<call, body, total, tmp, dest, result, leftover>>

AsksAll == phase = "restart" \/ (phase = "attempt" /\ offset = 0)

\* The request for the whole package fails, ends in a redirect to another
\* scheme, or its answer has no file to go to.
RequestFails ==
  /\ AsksAll
  /\ Fail("network") \/ Fail("InvalidArgument") \/ Fail("Internal")
  /\ UNCHANGED <<body, total, files, leftover>>

\* A declared length must be the expected one and not too large.
Acceptable(b) ==
  b.declared => (phase = "restart" \/ b.left \in expected) /\ b.left <= MaxSize

MutRequestAnswered ==
  /\ AsksAll
  /\ \E b \in Served(0, FALSE) :
       IF Acceptable(b)
       THEN /\ body' = b
            /\ total' = 0
            /\ tmp' = IF tmp = NoFile THEN Empty ELSE tmp
            /\ phase' = "reading"
            /\ UNCHANGED <<call, result>>
       ELSE Fail("InvalidArgument") /\ UNCHANGED <<body, total, tmp>>
  /\ UNCHANGED <<partial, dest, leftover>>

\* The server sends a body; the temporary file is created or truncated.
RequestAnswered ==
  /\ AsksAll
  /\ \E b \in Served(0, FALSE) :
       IF Acceptable(b)
       THEN /\ body' = b
            /\ total' = 0
            /\ tmp' = Empty
            /\ phase' = "reading"
            /\ UNCHANGED <<call, result>>
       ELSE Fail("InvalidArgument") /\ UNCHANGED <<body, total, tmp>>
  /\ UNCHANGED <<partial, dest, leftover>>

\* The block at position total of the package goes to the end of the file.
Append(f) == [len |-> f.len + 1, ok |-> f.ok /\ body.good /\ f.len = total]

Read ==
  /\ phase = "reading" /\ body.left > 0
  /\ total < MaxSize
  /\ IF body.resumed
     THEN partial' = Append(partial) /\ UNCHANGED tmp
     ELSE tmp' = Append(tmp) /\ UNCHANGED partial
  /\ total' = total + 1
  /\ body' = [body EXCEPT !.left = @ - 1]
  /\ UNCHANGED <<phase, call, dest, result, leftover>>

\* One block too many; only the temporary file is removed, if it can be.
ReadTooMuch ==
  /\ phase = "reading" /\ body.left > 0
  /\ total >= MaxSize
  /\ total' = total + 1
  /\ tmp' \in IF body.resumed THEN {tmp} ELSE AfterRemoval(tmp)
  /\ Fail("InvalidArgument")
  /\ UNCHANGED <<body, partial, dest, leftover>>

\* The connection is reset or times out: what was written stays.
ReadFails ==
  /\ phase = "reading" /\ body.left > 0
  /\ Fail("network")
  /\ UNCHANGED <<body, total, files, leftover>>

\* The body ends, early perhaps if its length was not declared, and the file
\* is renamed to the destination.
EndOfBody ==
  /\ phase = "reading"
  /\ body.declared => body.left = 0
  /\ phase' = "fetched"
  /\ IF body.resumed
     THEN dest' = partial /\ partial' = NoFile /\ UNCHANGED tmp
     ELSE dest' = tmp /\ tmp' = NoFile /\ UNCHANGED partial
  /\ leftover' = FALSE
  /\ UNCHANGED <<call, body, total, result>>

\* The directory of the destination cannot be made; a write or the rename
\* fails; reading the destination back fails.  Only the second is an attempt
\* that failed: the others end the call.
DiskFails ==
  /\ \/ phase = "attempt" /\ attempt = 0 /\ Return("Internal")
     \/ phase = "reading" /\ Fail("Internal") /\ UNCHANGED <<body, total>>
     \/ phase = "fetched" /\ Return("Internal")
  /\ leftover' = (leftover \/ phase = "fetched")
  /\ UNCHANGED files

\* The call refuses what it fetched and removes it, if it can.
Refuse(r) ==
  /\ Return(r)
  /\ dest' \in AfterRemoval(dest)
  /\ leftover' = (dest' = dest)

MutVerify ==
  /\ phase = "fetched"
  /\ IF ~Whole(dest) /\ ~body.resumed
     THEN Refuse("VerificationFailed") /\ partial' \in AfterRemoval(partial)
     ELSE IF total \notin expected
     THEN Refuse("InvalidArgument") /\ UNCHANGED partial
     ELSE Return("Ok") /\ partial' \in AfterRemoval(partial) /\ UNCHANGED <<dest, leftover>>
  /\ UNCHANGED tmp

\* The digest of the destination, then its size, are checked.
Verify ==
  /\ phase = "fetched"
  /\ IF ~Whole(dest)
     THEN Refuse("VerificationFailed") /\ partial' \in AfterRemoval(partial)
     ELSE IF total \notin expected
     THEN Refuse("InvalidArgument") /\ UNCHANGED partial
     ELSE Return("Ok") /\ partial' \in AfterRemoval(partial) /\ UNCHANGED <<dest, leftover>>
  /\ UNCHANGED tmp

\* The process dies; the files stay as they are.
Die ==
  /\ phase # "idle"
  /\ Return("died")
  /\ leftover' = (leftover \/ phase = "fetched")
  /\ UNCHANGED files

Step ==
  \/ RangeFails \/ RangeRefused \/ RangeAnswered \/ RangeIgnored
  \/ RequestFails \/ RequestAnswered
  \/ Read \/ ReadTooMuch \/ ReadFails \/ EndOfBody \/ DiskFails \/ Verify

Next == Download \/ Step \/ Die

Spec == Init /\ [][Next]_vars

\* Every wait of the loop has a timeout, so that it never stands still.
FairSpec == Spec /\ WF_vars(Step)

-----------------------------------------------------------------------------
\* Types; no call makes more than MaxRetries + 1 attempts.
TypeOK ==
  /\ phase \in {"idle", "attempt", "restart", "reading", "fetched"}
  /\ offset \in Nat /\ total \in Nat
  /\ attempt \in 0..(MaxRetries + 1)
  /\ phase # "idle" => attempt <= MaxRetries
  /\ expected \in Expectations
  /\ body \in Bodies
  /\ {partial, tmp, dest} \subseteq File \cup {NoFile}
  /\ result \in Results
  /\ leftover \in BOOLEAN

\* download.rs:30 "Resume does NOT bypass digest verification": whatever was
\* resumed, retried or left behind by an earlier process, a call that answers
\* Ok leaves the whole package at the destination.  And wrong bytes are there
\* outside a check only if that check was cut short, by a death or by a read
\* that failed, or if it refused them and their removal failed: a retry, a
\* resumption or a failing fetch never puts them there.
OkIsVerified ==
  /\ result = "Ok" => Whole(dest)
  /\ dest # NoFile /\ ~Whole(dest) => phase = "fetched" \/ leftover

\* The digest of a package that was fetched from the start is never blamed on
\* what an earlier attempt left behind: a right body, read to its declared
\* length, is the whole package.  And the first attempt of a call continues a
\* partial file without a gap or a repetition, so that its length is right;
\* later attempts, which append at an offset that may have passed, do not.
FreshIsFaithful ==
  phase = "fetched" /\ body.good /\ body.declared =>
    /\ ~body.resumed => Whole(dest)
    /\ attempt = 0 => dest.len = Size

\* download.rs:37 "Retry is bounded": every call ends.
DownloadReturns == phase # "idle" ~> phase = "idle"
=============================================================================
