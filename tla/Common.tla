------------------------------- MODULE Common -------------------------------
(***************************************************************************)
(* What the decisions of the two services share: the value that stands for *)
(* what is not given (None of an Option, the error of a Result), and the   *)
(* decoding of hexadecimal digits, of which metadata.rs and                *)
(* verification.rs have a copy each.                                       *)
(***************************************************************************)
EXTENDS Naturals

CONSTANT None

\* hex_decode: the number of bytes, None for an error.  Digits are [length,
\* hex], where hex tells whether every pair of characters is read as a byte.
hex_decode(digits) == IF digits.length % 2 = 0 /\ digits.hex THEN digits.length \div 2 ELSE None
=============================================================================
