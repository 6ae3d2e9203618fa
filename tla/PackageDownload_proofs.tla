----------------------- MODULE PackageDownload_proofs -----------------------
(***************************************************************************)
(* For every package, limit, number of retries and server: a call that     *)
(* answers Ok leaves the whole package at the destination, wrong bytes are *)
(* there only if no check was made of them or they could not be removed,   *)
(* and a body that was read from the start loses and gains nothing.        *)
(***************************************************************************)
EXTENDS PackageDownload, TLAPS

\* A body that is being written has a file to go to.
HasFile ==
  /\ phase = "reading" => IF body.resumed THEN partial \in File ELSE tmp \in File
  /\ phase = "fetched" => dest \in File

\* A file that has been written from the start is as long as what was read,
\* and right if all of that was.
WrittenFromTheStart(f) ==
  f.len = total /\ (body.good => f.ok /\ total + body.left = Size)

FreshPart ==
  /\ phase = "reading" /\ ~body.resumed => WrittenFromTheStart(tmp)
  /\ phase = "fetched" /\ ~body.resumed =>
       WrittenFromTheStart(dest) /\ (body.declared => body.left = 0)

\* In the first attempt the partial file ends where the next block goes.
ResumedPart == attempt = 0 =>
  /\ phase = "attempt" /\ offset > 0 => partial \in File /\ partial.len = offset
  /\ phase = "reading" /\ body.resumed =>
       partial.len = total /\ (body.good => total + body.left = Size)
  /\ phase = "fetched" /\ body.resumed =>
       /\ dest.len = total /\ (body.good => total + body.left = Size)
       /\ body.declared => body.left = 0

OkPart == result = "Ok" => phase = "idle" /\ Whole(dest)

LeftPart == dest # NoFile /\ ~Whole(dest) => phase = "fetched" \/ leftover

IInv == TypeOK /\ HasFile /\ FreshPart /\ ResumedPart /\ OkPart /\ LeftPart

-----------------------------------------------------------------------------
LEMMA Initially == Init => IInv
<1> SUFFICES ASSUME Init PROVE IInv
  OBVIOUS
<1>1. partial \in File \cup {NoFile}
  <2>1. CASE partial = NoFile
    BY <2>1
  <2>2. CASE partial # NoFile
    <3> PICK n \in 0..Size : partial = [len |-> n, ok |-> TRUE]
      BY <2>2 DEF Init
    <3>1. n \in Nat
      BY SizesAssumption
    <3> QED
      BY <3>1 DEF File
  <2> QED
    BY <2>1, <2>2
<1>2. body \in Bodies
  BY DEF Init, Served
<1>3. attempt \in 0..(MaxRetries + 1) /\ offset \in Nat /\ total \in Nat
  BY SizesAssumption DEF Init
<1>4. TypeOK
  BY <1>1, <1>2, <1>3 DEF Init, TypeOK, Results
<1> QED
  BY <1>4 DEF Init, IInv, HasFile, FreshPart, ResumedPart, OkPart, LeftPart

\* A failed attempt: the next one, or the end of the call.
LEMMA FailTypes ==
  ASSUME TypeOK, phase # "idle", NEW e \in Errors, Fail(e)
  PROVE  /\ phase' \in {"attempt", "idle"}
         /\ offset' \in Nat /\ expected' \in Expectations
         /\ attempt' \in 0..(MaxRetries + 1)
         /\ attempt' # 0 /\ (phase' # "idle" => attempt' <= MaxRetries)
         /\ result' \in Results /\ result' # "Ok"
  BY SizesAssumption DEF TypeOK, Fail, Results, Errors

\* An attempt that fails and leaves the partial file and the destination.
LEMMA FailStep ==
  ASSUME IInv, phase # "idle", NEW e \in Errors, Fail(e), body' = body, total' \in Nat,
         partial' = partial, dest' = dest, tmp' \in File \cup {NoFile},
         leftover' \in BOOLEAN, leftover' = leftover, phase # "fetched"
  PROVE  IInv'
<1>1. TypeOK'
  BY FailTypes DEF IInv, TypeOK
<1>2. LeftPart'
  BY DEF IInv, LeftPart, Whole
<1>3. HasFile' /\ FreshPart' /\ ResumedPart' /\ OkPart'
  BY FailTypes DEF IInv, HasFile, FreshPart, ResumedPart, OkPart
<1> QED
  BY <1>1, <1>2, <1>3 DEF IInv

\* The end of a call.
LEMMA ReturnStep ==
  ASSUME IInv, NEW r \in Results, Return(r), r = "Ok" => Whole(dest'),
         partial' \in File \cup {NoFile}, tmp' = tmp, dest' \in File \cup {NoFile},
         leftover' \in BOOLEAN, dest' # NoFile /\ ~Whole(dest') => leftover'
  PROVE  IInv'
<1>1. TypeOK'
  BY DEF IInv, TypeOK, Return, call
<1> QED
  BY <1>1 DEF IInv, HasFile, FreshPart, ResumedPart, OkPart, LeftPart, Return, Whole

LEMMA Inductive == IInv /\ [Next]_vars => IInv'
<1> SUFFICES ASSUME IInv, [Next]_vars
             PROVE  IInv'
  OBVIOUS
<1> USE DEF call, files
<1>0. TypeOK
  BY DEF IInv
<1>1. CASE UNCHANGED vars
  BY <1>1
  DEF vars, IInv, TypeOK, HasFile, FreshPart, ResumedPart, OkPart, LeftPart,
      WrittenFromTheStart, Whole
<1>2. CASE Download
  BY <1>2, SizesAssumption
  DEF Download, IInv, TypeOK, HasFile, FreshPart, ResumedPart, OkPart, LeftPart, File, Results
<1>3. CASE RangeFails
  BY <1>0, <1>3, FailStep DEF RangeFails, TypeOK, Errors
<1>15. CASE RangeRefused
  BY <1>0, <1>15, FailStep DEF RangeRefused, TypeOK, Errors
<1>4. CASE RangeAnswered
  <2>1. CASE partial = NoFile
    BY <1>0, <1>4, <2>1, FailStep DEF RangeAnswered, TypeOK, Errors
  <2>2. CASE partial # NoFile
    BY <1>4, <2>2
    DEF RangeAnswered, IInv, TypeOK, HasFile, FreshPart, ResumedPart, OkPart, LeftPart,
        Served, Bodies
  <2> QED
    BY <2>1, <2>2
<1>5. CASE RangeIgnored
  <2>1. partial' \in File \cup {NoFile}
    BY <1>0, <1>5 DEF RangeIgnored, AfterRemoval, TypeOK
  <2>2. TypeOK'
    BY <1>0, <1>5, <2>1 DEF RangeIgnored, TypeOK
  <2> QED
    BY <1>5, <2>2
    DEF RangeIgnored, IInv, HasFile, FreshPart, ResumedPart, OkPart, LeftPart, Whole
<1>6. CASE RequestFails
  BY <1>0, <1>6, FailStep DEF RequestFails, AsksAll, TypeOK, Errors
<1>7. CASE RequestAnswered
  <2> PICK b \in Served(0, FALSE) :
        IF Acceptable(b)
        THEN /\ body' = b
             /\ total' = 0
             /\ tmp' = Empty
             /\ phase' = "reading"
             /\ UNCHANGED <<call, result>>
        ELSE Fail("InvalidArgument") /\ UNCHANGED <<body, total, tmp>>
    BY <1>7 DEF RequestAnswered
  <2>1. CASE Acceptable(b)
    <3>1. b \in Bodies /\ ~b.resumed /\ (b.good => b.left = Size)
      BY SizesAssumption DEF Served, Bodies
    <3>2. /\ body' = b /\ total' = 0 /\ tmp' = Empty /\ phase' = "reading"
          /\ UNCHANGED <<call, result, partial, dest, leftover>>
      BY <1>7, <2>1 DEF RequestAnswered
    <3>3. tmp' \in File /\ tmp'.len = 0 /\ tmp'.ok
      BY <3>2 DEF Empty, File
    <3>4. phase # "idle" /\ attempt <= MaxRetries
      BY <1>0, <1>7 DEF RequestAnswered, AsksAll, TypeOK
    <3>5. TypeOK'
      BY <1>0, <3>1, <3>2, <3>3, <3>4 DEF TypeOK
    <3>6. FreshPart'
      BY <3>1, <3>2, <3>3, SizesAssumption DEF FreshPart, WrittenFromTheStart, Bodies
    <3>7. phase # "fetched"
      BY <1>7 DEF RequestAnswered, AsksAll
    <3>8. HasFile' /\ ResumedPart' /\ OkPart' /\ LeftPart'
      BY <3>1, <3>2, <3>3, <3>4, <3>7
      DEF IInv, HasFile, ResumedPart, OkPart, LeftPart, Whole
    <3> QED
      BY <3>5, <3>6, <3>8 DEF IInv
  <2>2. CASE ~Acceptable(b)
    BY <1>0, <1>7, <2>2, FailStep DEF RequestAnswered, AsksAll, TypeOK, Errors
  <2> QED
    BY <2>1, <2>2
<1>8. CASE Read
  <2>1. body' \in Bodies /\ body'.left = body.left - 1
    BY <1>0, <1>8, SizesAssumption DEF Read, TypeOK, Bodies
  <2>2. /\ body'.resumed = body.resumed /\ body'.good = body.good
        /\ body'.declared = body.declared
    BY <1>0, <1>8 DEF Read, TypeOK, Bodies
  <2>3. total' = total + 1 /\ total \in Nat /\ body.left \in Nat /\ phase' = "reading"
    BY <1>0, <1>8, SizesAssumption DEF Read, TypeOK, Bodies
  <2>4. CASE body.resumed
    <3>0. partial \in File /\ partial' = Append(partial) /\ tmp' = tmp
      BY <1>8, <2>4 DEF Read, IInv, HasFile
    <3>1. partial' \in File /\ partial'.len = partial.len + 1
      BY <1>0, <3>0 DEF Append, File, TypeOK, Bodies
    <3>2. TypeOK'
      BY <1>0, <1>8, <2>1, <2>3, <3>0, <3>1 DEF Read, TypeOK
    <3>3. ResumedPart'
      <4> SUFFICES ASSUME attempt = 0
                   PROVE  /\ partial'.len = total'
                          /\ body'.good => total' + body'.left = Size
        BY <1>8, <2>2, <2>3, <2>4 DEF Read, ResumedPart
      <4>1. partial.len = total /\ (body.good => total + body.left = Size)
        BY <1>8, <2>4 DEF Read, IInv, ResumedPart
      <4> QED
        BY <2>1, <2>2, <2>3, <3>1, <4>1, SizesAssumption
    <3> QED
      BY <1>8, <2>2, <2>3, <2>4, <3>0, <3>1, <3>2, <3>3
      DEF Read, IInv, HasFile, FreshPart, OkPart, LeftPart, Whole
  <2>5. CASE ~body.resumed
    <3>1. tmp' = Append(tmp) /\ tmp \in File /\ partial' = partial
      BY <1>8, <2>5 DEF Read, IInv, HasFile
    <3>2. tmp' \in File /\ tmp'.len = tmp.len + 1
      BY <1>0, <3>1 DEF Append, File, TypeOK, Bodies
    <3>3. WrittenFromTheStart(tmp)
      BY <1>8, <2>5 DEF Read, IInv, FreshPart
    <3>4. tmp'.ok = (tmp.ok /\ body.good /\ tmp.len = total)
      BY <3>1 DEF Append
    <3>5. tmp'.len = total' /\ (body'.good => tmp'.ok /\ total' + body'.left = Size)
      <4>1. tmp'.len = total'
        BY <2>3, <3>2, <3>3 DEF WrittenFromTheStart
      <4>2. body'.good => tmp'.ok
        BY <2>2, <3>3, <3>4 DEF WrittenFromTheStart
      <4>3. body'.good => total' + body'.left = Size
        BY <2>1, <2>2, <2>3, <3>3, SizesAssumption DEF WrittenFromTheStart
      <4> QED
        BY <4>1, <4>2, <4>3
    <3>6. TypeOK'
      BY <1>0, <1>8, <2>1, <2>3, <3>1, <3>2 DEF Read, TypeOK
    <3> QED
      BY <1>8, <2>2, <2>3, <2>5, <3>1, <3>2, <3>5, <3>6
      DEF Read, IInv, HasFile, FreshPart, ResumedPart, OkPart, LeftPart, Whole,
          WrittenFromTheStart
  <2> QED
    BY <2>4, <2>5
<1>9. CASE ReadTooMuch
  <2>1. tmp' \in File \cup {NoFile}
    BY <1>0, <1>9 DEF ReadTooMuch, AfterRemoval, TypeOK
  <2> QED
    BY <1>0, <1>9, <2>1, FailStep DEF ReadTooMuch, TypeOK, Errors
<1>10. CASE ReadFails
  BY <1>0, <1>10, FailStep DEF ReadFails, TypeOK, Errors
<1>11. CASE EndOfBody
  BY <1>11
  DEF EndOfBody, IInv, TypeOK, HasFile, FreshPart, ResumedPart, OkPart, LeftPart,
      WrittenFromTheStart, Bodies
<1>12. CASE DiskFails
  <2>1. CASE phase = "reading" /\ Fail("Internal") /\ UNCHANGED <<body, total>>
    BY <1>0, <1>12, <2>1, FailStep DEF DiskFails, TypeOK, Errors
  <2>2. CASE phase \in {"attempt", "fetched"} /\ Return("Internal")
    BY <1>0, <1>12, <2>2, ReturnStep
    DEF DiskFails, TypeOK, IInv, LeftPart, Whole, Results, Errors
  <2> QED
    BY <1>12, <2>1, <2>2 DEF DiskFails
<1>13. CASE Verify
  <2>1. ASSUME NEW r \in Results, r # "Ok", Refuse(r), tmp' = tmp,
               partial' \in AfterRemoval(partial)
        PROVE  IInv'
    <3>1. partial' \in File \cup {NoFile} /\ dest' \in File \cup {NoFile}
      BY <1>0, <2>1 DEF Refuse, AfterRemoval, TypeOK
    <3>2. leftover' \in BOOLEAN /\ (dest' # NoFile => leftover')
      BY <2>1 DEF Refuse, AfterRemoval
    <3>3. Return(r)
      BY <2>1 DEF Refuse
    <3> QED
      BY <2>1, <3>1, <3>2, <3>3, ReturnStep
  <2>2. CASE ~Whole(dest)
    BY <1>13, <2>1, <2>2 DEF Verify, Results, Errors
  <2>3. CASE Whole(dest) /\ total \notin expected
    <3>1. partial' \in AfterRemoval(partial)
      BY <1>13, <2>3 DEF Verify, AfterRemoval
    <3> QED
      BY <1>13, <2>1, <2>3, <3>1 DEF Verify, Results, Errors
  <2>4. CASE Whole(dest) /\ total \in expected
    <3>1. partial' \in File \cup {NoFile}
      BY <1>0, <1>13, <2>4 DEF Verify, AfterRemoval, TypeOK
    <3>2. Return("Ok") /\ tmp' = tmp /\ dest' = dest /\ leftover' = leftover
      BY <1>13, <2>4 DEF Verify
    <3> QED
      BY <1>0, <2>4, <3>1, <3>2, ReturnStep DEF TypeOK, Results, Whole
  <2> QED
    BY <2>2, <2>3, <2>4
<1>14. CASE Die
  BY <1>0, <1>14, ReturnStep DEF Die, TypeOK, IInv, LeftPart, Results, Whole
<1> QED
  BY <1>1, <1>2, <1>3, <1>4, <1>5, <1>6, <1>7, <1>8, <1>9, <1>10, <1>11, <1>12,
     <1>13, <1>14, <1>15
  DEF Next, Step

\* The files are what the counters of the call say they are.
THEOREM Invariance == Spec => []IInv
<1>1. Init => IInv
  BY Initially
<1>2. IInv /\ [Next]_vars => IInv'
  BY Inductive
<1> QED
  BY <1>1, <1>2, PTL DEF Spec

\* Types hold and no call makes more than max_retries + 1 attempts
\* (download.rs:424).
THEOREM TypeCorrect == Spec => []TypeOK
<1>1. IInv => TypeOK
  BY DEF IInv
<1> QED
  BY <1>1, Invariance, PTL

\* "Resume does NOT bypass digest verification" (download.rs:30): an answer Ok
\* means that the whole package is at the destination, whatever the server
\* sent, the disk failed at, or a process that died left behind; and wrong bytes
\* are only there if their check was cut short or their removal failed.
THEOREM OkMeansVerified == Spec => []OkIsVerified
<1>1. IInv => OkIsVerified
  BY DEF IInv, OkPart, LeftPart, OkIsVerified
<1> QED
  BY <1>1, Invariance, PTL

\* A right body that was read from the start to its declared length passes the
\* digest check (fetch.rs:324), and one that continues a partial file in the
\* first attempt of a call completes it to the length of the package
\* (download.rs:402).
THEOREM FreshBodiesAreFaithful == Spec => []FreshIsFaithful
<1>1. IInv => FreshIsFaithful
  <2> SUFFICES ASSUME IInv, phase = "fetched", body.good, body.declared
               PROVE  /\ ~body.resumed => Whole(dest)
                      /\ attempt = 0 => dest.len = Size
    BY DEF FreshIsFaithful
  <2>0. dest \in File
    BY DEF IInv, HasFile
  <2>1. CASE ~body.resumed
    <3>1. dest.ok /\ dest.len = total /\ total + body.left = Size
      BY <2>1 DEF IInv, FreshPart, WrittenFromTheStart
    <3>2. total = Size
      BY <2>1, <3>1, SizesAssumption DEF IInv, TypeOK, FreshPart
    <3> QED
      BY <2>0, <3>1, <3>2 DEF Whole, File
  <2>2. CASE body.resumed
    BY <2>2, SizesAssumption DEF IInv, TypeOK, ResumedPart
  <2> QED
    BY <2>1, <2>2
<1> QED
  BY <1>1, Invariance, PTL
=============================================================================
