---------------------------- MODULE VersionOrder ----------------------------
(***************************************************************************)
(* Versions as text and as values: Version of the core library (semantic   *)
(* versions), DriverVersion of mission-driverd (with a pre-release kept as *)
(* one text) and the kernel ranges of drivers.                             *)
(*                                                                         *)
(* A text is a sequence of characters from a small alphabet.  A parser     *)
(* returns a sequence with the one value it found, or << >> for an error.  *)
(***************************************************************************)
EXTENDS Integers, Sequences, SequencesExt

CONSTANT U64Max  \* u64::MAX

ASSUME U64Assumption == U64Max \in Nat

\* The alphabet in the order of the character codes.
Alphabet == <<"+", "-", ".", "1", "2", "a">>
Code(c)  == CHOOSE i \in DOMAIN Alphabet : Alphabet[i] = c
Digits   == {"1", "2"}
Digit(c) == IF c = "1" THEN 1 ELSE 2

Without(s, n) == SubSeq(s, n + 1, Len(s))

\* Iterator::filter, as a fold: the members of a list that are in a set.
filter(list, set) ==
  FoldLeft(LAMBDA kept, x : IF x \in set THEN Append(kept, x) ELSE kept, << >>, list)

\* The sort of slices is stable: each member comes to stand behind the last one
\* whose key is not greater.
Place(sorted, key, x) == Max({0} \union {i \in DOMAIN sorted : key[sorted[i]] <= key[x]}) + 1

sort_by_key(list, key) ==
  FoldLeft(LAMBDA sorted, x : InsertAt(sorted, Place(sorted, key, x), x), << >>, list)

\* str::split: the pieces between the separators, at least one.
SplitBy(s, sep) ==
  FoldLeft(LAMBDA pieces, c :
             IF c = sep THEN Append(pieces, << >>)
             ELSE [pieces EXCEPT ![Len(pieces)] = Append(@, c)],
           << << >> >>, s)

Value(s) == FoldLeft(LAMBDA n, c : 10 * n + Digit(c), 0, s)

\* A number may begin with a plus.
Unsigned(s) == IF Len(s) > 1 /\ s[1] = "+" THEN Without(s, 1) ELSE s

\* str::parse::<u64>, << >> for an error.
ParseNumber(s) ==
  LET digits == Unsigned(s)
  IN  IF digits = << >> \/ (\E i \in DOMAIN digits : digits[i] \notin Digits)
                        \/ Value(digits) > U64Max
      THEN << >>
      ELSE << Value(digits) >>

Sign(n) == IF n < 0 THEN -1 ELSE IF n > 0 THEN 1 ELSE 0

\* Ord of strings and of sequences: the first difference decides, then length.
CompareBy(a, b, compare(_, _)) ==
  LET both  == 1..(IF Len(a) < Len(b) THEN Len(a) ELSE Len(b))
      apart == {i \in both : compare(a[i], b[i]) # 0}
  IN  IF apart = {} THEN Sign(Len(a) - Len(b))
      ELSE LET i == CHOOSE i \in apart : \A j \in apart : i <= j IN compare(a[i], b[i])

CompareText(a, b) == CompareBy(a, b, LAMBDA x, y : Sign(Code(x) - Code(y)))

-----------------------------------------------------------------------------
(***************************************************************************)
(* Version                                                                 *)
(***************************************************************************)

\* The text before the first separator, and the pieces after it.
Head1(s, sep) == LET i == SelectInSeq(s, LAMBDA c : c = sep)
                 IN  IF i = 0 THEN s ELSE SubSeq(s, 1, i - 1)
Ids(s, sep)   == LET i == SelectInSeq(s, LAMBDA c : c = sep)
                 IN  IF i = 0 \/ i = Len(s) THEN << >> ELSE SplitBy(Without(s, i), ".")

Numbers(parts, n) ==
  IF Len(parts) < n \/ \E i \in 1..n : ParseNumber(parts[i]) = << >>
  THEN << >>
  ELSE << [i \in 1..n |-> ParseNumber(parts[i])[1]] >>

\* Version::parse: build after the first +, pre-release after the first -.
parse(s) ==
  LET core    == Head1(s, "+")
      parts   == SplitBy(Head1(core, "-"), ".")
      numbers == Numbers(parts, 3)
  IN  IF Len(parts) # 3 \/ numbers = << >> THEN << >>
      ELSE << [numbers |-> numbers[1], pre |-> Ids(core, "-"), build |-> Ids(s, "+")] >>

\* The digits of a number; without a 0 there are no more of them than it counts.
Show(n) == CHOOSE s \in UNION {[1..k -> Digits] : k \in 1..n} : ParseNumber(s) = <<n>>

Dotted(ids) == FoldLeft(LAMBDA s, id : s \o <<".">> \o id, Head(ids), Tail(ids))

\* Display
display(v) ==
  Dotted([i \in 1..3 |-> Show(v.numbers[i])])
    \o (IF v.pre = << >> THEN << >> ELSE <<"-">> \o Dotted(v.pre))
    \o (IF v.build = << >> THEN << >> ELSE <<"+">> \o Dotted(v.build))

\* An identifier that is a number compared with one that is not, as text.
Mutcompare_pre_release_id(a, b) ==
  LET x == ParseNumber(a)  y == ParseNumber(b)
  IN  IF x # << >> /\ y # << >> THEN Sign(x[1] - y[1]) ELSE CompareText(a, b)

compare_pre_release_id(a, b) ==
  LET x == ParseNumber(a)  y == ParseNumber(b)
  IN  IF x # << >> /\ y # << >> THEN Sign(x[1] - y[1])
      ELSE IF x # << >> THEN -1
      ELSE IF y # << >> THEN 1
      ELSE CompareText(a, b)

compare_pre_release(a, b) == CompareBy(a, b, compare_pre_release_id)

CompareNumbers(a, b) == CompareBy(a, b, LAMBDA x, y : Sign(x - y))

\* Ord for Version: the build does not count, no pre-release is the later.
cmp(a, b) ==
  IF a.numbers # b.numbers THEN CompareNumbers(a.numbers, b.numbers)
  ELSE IF a.pre = << >> \/ b.pre = << >>
       THEN (IF a.pre = << >> THEN 1 ELSE 0) - (IF b.pre = << >> THEN 1 ELSE 0)
       ELSE compare_pre_release(a.pre, b.pre)

-----------------------------------------------------------------------------
(***************************************************************************)
(* DriverVersion: no build, any components after the third, and the text   *)
(* after the first dash as the pre-release.                                *)
(***************************************************************************)

DriverVersionParse(s) ==
  LET i       == SelectInSeq(s, LAMBDA c : c = "-")
      numbers == Numbers(SplitBy(Head1(s, "-"), "."), 3)
  IN  IF numbers = << >> THEN << >>
      ELSE << [numbers |-> numbers[1], pre |-> IF i = 0 THEN << >> ELSE Without(s, i)] >>

DriverVersionCmp(a, b) ==
  IF a.numbers # b.numbers THEN CompareNumbers(a.numbers, b.numbers)
  ELSE IF a.pre = << >> \/ b.pre = << >>
       THEN (IF a.pre = << >> THEN 1 ELSE 0) - (IF b.pre = << >> THEN 1 ELSE 0)
       ELSE CompareText(a.pre, b.pre)

-----------------------------------------------------------------------------
(***************************************************************************)
(* Kernel ranges: the numbers of the running kernel against a minimum and  *)
(* a maximum of any length.                                                *)
(***************************************************************************)

Component(kernel, i) == IF i <= Len(kernel) THEN kernel[i] ELSE 0

\* The kernel against a bound, over the components of the bound.
Against(kernel, bound) ==
  CompareNumbers([i \in DOMAIN bound |-> Component(kernel, i)], bound)

\* The kernel's version is known; no maximum is << >>.
check_kernel_compatibility(kernel, min, max) ==
  /\ Against(kernel, min) >= 0
  /\ max # << >> => Against(kernel, max) <= 0

-----------------------------------------------------------------------------
(***************************************************************************)
(* A version that is shown and parsed again is itself, and a text without  *)
(* a build that is a Version is a DriverVersion with the same numbers      *)
(* (version.rs:185, inventory.rs:185).                                     *)
(***************************************************************************)
TextAgrees(s) ==
  parse(s) # << >> =>
    /\ parse(display(parse(s)[1])) = parse(s)
    /\ "+" \notin {s[i] : i \in DOMAIN s} =>
         /\ DriverVersionParse(s) # << >>
         /\ DriverVersionParse(s)[1].numbers = parse(s)[1].numbers

\* A comparison by which lists can be sorted and a maximum found.
IsOrder(compare(_, _), a, b, c) ==
  /\ compare(a, b) = -compare(b, a)
  /\ compare(a, b) <= 0 /\ compare(b, c) <= 0 => compare(a, c) <= 0

(***************************************************************************)
(* The rule of semver.org for pre-releases that differ in one place only:  *)
(* numbers come before words, and a longer list after its beginning.       *)
(***************************************************************************)
FollowsSemver(a, b) ==
  a.numbers = b.numbers /\ IsStrictPrefix(a.pre, b.pre) =>
    cmp(a, b) = IF a.pre = << >> THEN 1 ELSE -1

\* The kernels a driver accepts have no gap (matching.rs:360).
IsRange(min, max, low, middle, high) ==
  /\ CompareNumbers(low, middle) <= 0 /\ CompareNumbers(middle, high) <= 0
  /\ check_kernel_compatibility(low, min, max)
  /\ check_kernel_compatibility(high, min, max)
  => check_kernel_compatibility(middle, min, max)
=============================================================================
