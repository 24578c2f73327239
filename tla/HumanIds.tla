------------------------------- MODULE HumanIds -------------------------------
(***************************************************************************)
(* The numbers people know cases, claims, exchanges and invoices by        *)
(* (src/human-id): a prefix, the second they were made in base 36, and the *)
(* next number of the prefix, padded.  The next number is taken by an      *)
(* upsert that adds one in the database; two that both find no row for a   *)
(* new prefix collide, and one of them is refused.                         *)
(*                                                                         *)
(* A character is its value as a digit, the dash comes after the digits.   *)
(* What is claimed is assumed below, for TLC to evaluate.                  *)
(***************************************************************************)
EXTENDS Integers, Sequences

Dash == 36

Digits(base, n) ==
  LET d[k \in Nat] == IF k < base THEN <<k>> ELSE Append(d[k \div base], k % base)
  IN d[n]

\* parseInt: as far as the text goes on with digits; -1 when it does not begin with one.
ParseInt(base, text) ==
  LET value[i \in 0..Len(text)] ==
        IF i = 0 THEN 0 ELSE value[i - 1] * base + text[i]
      good == {i \in 1..Len(text) : \A j \in 1..i : text[j] < base}
  IN IF good = {} THEN -1 ELSE value[CHOOSE i \in good : \A j \in good : j <= i]

PadSequence(length, n) ==
  LET text == Digits(10, n) IN
  IF Len(text) >= length THEN text
  ELSE [i \in 1..(length - Len(text)) |-> 0] \o text

EncodeEpoch(second) == Digits(36, second)

Generate(prefix, second, length, n) ==
  prefix \o <<Dash>> \o EncodeEpoch(second) \o <<Dash>> \o PadSequence(length, n)

Split(id) ==
  LET dashes == {i \in DOMAIN id : id[i] = Dash} \cup {0, Len(id) + 1}
      after(i) == CHOOSE j \in dashes : j > i /\ \A k \in dashes : k <= i \/ k >= j
      parts[i \in dashes] ==
        IF i = Len(id) + 1 THEN <<>>
        ELSE <<SubSeq(id, i + 1, after(i) - 1)>> \o parts[after(i)]
  IN parts[0]

Refused == [prefix |-> <<>>, second |-> -1, sequence |-> -1]

Decode(id) ==
  LET parts == Split(id) IN
  IF Len(parts) # 3 THEN Refused
  ELSE LET second == ParseInt(36, parts[2]) sequence == ParseInt(10, parts[3])
       IN IF second = -1 \/ sequence = -1 THEN Refused
          ELSE [prefix |-> parts[1], second |-> second, sequence |-> sequence]

-----------------------------------------------------------------------------
(* What is claimed *)

\* Two prefixes one of which begins like the other, a turn of each number of digits,
\* one number that no longer fits the padding, and paddings of none and of six.
SomePrefix == {<<12>>, <<12, 21>>}
SomeSecond == {0, 35, 36, 1295, 1296, 46656}
SomeNumber == {1, 9, 10, 999999, 1000000}

\* A number is read back as what it was made of, padded or not and when it has outgrown
\* its padding, and two of one prefix differ whenever they were made.
ASSUME NumbersAreSound ==
  \A p \in SomePrefix, s \in SomeSecond, n \in SomeNumber, length \in {0, 6} :
    LET id == Generate(p, s, length, n) IN
    /\ Decode(id) = [prefix |-> p, second |-> s, sequence |-> n]
    /\ \A q \in SomePrefix, t \in SomeSecond, k \in SomeNumber :
         Generate(q, t, length, k) = id => q = p /\ t = s /\ k = n

\* What has too few or too many parts is refused, and so is a part without digits; but
\* what follows the digits of a part is not looked at.
ASSUME DecodeRefuses ==
  /\ \A p \in SomePrefix, n \in SomeNumber :
       /\ Decode(p \o <<Dash>> \o Digits(10, n)) = Refused
       /\ Decode(<<Dash>> \o Generate(p, 0, 6, n)) = Refused
       /\ Decode(p \o <<Dash, Dash>> \o Digits(10, n)) = Refused
       /\ Decode(Append(Generate(p, 0, 6, n), 12)) = Decode(Generate(p, 0, 6, n))
=============================================================================
