------------------------------ MODULE RowLemmas ------------------------------
(***************************************************************************)
(* Tables are sequences of rows in creation order in every module: what an  *)
(* update of one row, and the creation of a row, do to a table.             *)
(***************************************************************************)
EXTENDS Sequences, Integers, SequenceTheorems, WellFoundedInduction, TLAPS

\* Updating a row that is not there changes nothing.
LEMMA UpdateInSeq ==
  ASSUME NEW T, NEW s \in Seq(T), NEW i, NEW x, i \in DOMAIN s => x \in T
  PROVE  /\ [s EXCEPT ![i] = x] \in Seq(T)
         /\ DOMAIN [s EXCEPT ![i] = x] = DOMAIN s
         /\ \A j \in DOMAIN s : [s EXCEPT ![i] = x][j] = IF j = i THEN x ELSE s[j]
<1>1. Len(s) \in Nat /\ DOMAIN s = 1..Len(s) /\ \A j \in 1..Len(s) : s[j] \in T
  OBVIOUS
<1>2. DOMAIN [s EXCEPT ![i] = x] = DOMAIN s OBVIOUS
<1>3. \A j \in 1..Len(s) : [s EXCEPT ![i] = x][j] \in T BY <1>1
<1>4. [s EXCEPT ![i] = x] = [j \in 1..Len(s) |-> [s EXCEPT ![i] = x][j]] BY <1>1
<1>5. [j \in 1..Len(s) |-> [s EXCEPT ![i] = x][j]] \in Seq(T) BY <1>1, <1>3, IsASeq
<1>6. \A j \in DOMAIN s : [s EXCEPT ![i] = x][j] = IF j = i THEN x ELSE s[j]
  OBVIOUS
<1> QED BY <1>2, <1>4, <1>5, <1>6

\* Appending a row keeps the rows before it.
LEMMA AppendRows ==
  ASSUME NEW T, NEW s \in Seq(T), NEW x \in T
  PROVE  /\ Append(s, x) \in Seq(T)
         /\ DOMAIN Append(s, x) = DOMAIN s \cup {Len(s) + 1}
         /\ \A i \in DOMAIN s : Append(s, x)[i] = s[i]
         /\ Append(s, x)[Len(s) + 1] = x
         /\ Len(s) + 1 \notin DOMAIN s
<1>1. /\ Append(s, x) \in Seq(T)
      /\ Len(Append(s, x)) = Len(s) + 1
      /\ \A i \in 1..Len(s) : Append(s, x)[i] = s[i]
      /\ Append(s, x)[Len(s) + 1] = x
  BY AppendProperties
<1>2. Len(s) \in Nat /\ DOMAIN s = 1..Len(s)
      /\ DOMAIN Append(s, x) = 1..Len(Append(s, x))
  BY <1>1
<1>3. 1..(Len(s) + 1) = 1..Len(s) \cup {Len(s) + 1} BY <1>2
<1> QED BY <1>1, <1>2, <1>3

LEMMA SameLength ==
  ASSUME NEW n \in Nat, NEW m \in Nat, 1..n = 1..m PROVE n = m
<1>1. \A i, j \in Nat : 1..i = 1..j => i <= j
  <2> SUFFICES ASSUME NEW i \in Nat, NEW j \in Nat, 1..i = 1..j, i > j
               PROVE  FALSE
    OBVIOUS
  <2>1. i \in 1..i /\ i \notin 1..j OBVIOUS
  <2> QED BY <2>1
<1> QED BY <1>1

\* A set of indices that is not empty has a greatest one.
LEMMA GreatestIndex ==
  ASSUME NEW n \in Nat, NEW S \in SUBSET (1..n), S # {}
  PROVE  \E m \in S : \A i \in S : i <= m
<1> DEFINE T == {n - i : i \in S}
<1>0. \A i \in S : i \in Int /\ n - i \in Nat OBVIOUS
<1>1. T \subseteq Nat /\ T # {} BY <1>0
<1>2. \E x \in T : \A y \in T : <<y, x>> \notin OpToRel(<, Nat)
  BY <1>1, NatLessThanWellFounded, WFMin
<1>3. PICK x \in T : \A y \in T : ~(y < x) BY <1>1, <1>2 DEF OpToRel
<1>4. PICK m \in S : x = n - m BY <1>3
<1>5. \A i \in S : i <= m
  <2> TAKE i \in S
  <2>1. ~(n - i < n - m) BY <1>3, <1>4
  <2>2. n \in Int /\ i \in Int /\ m \in Int BY <1>0
  <2> HIDE DEF T
  <2> QED BY <2>1, <2>2
<1> QED BY <1>5

\* A table with one row more is the old one with that row appended.
LEMMA AppendedRow ==
  ASSUME NEW T, NEW s \in Seq(T), NEW t \in Seq(T),
         DOMAIN t = DOMAIN s \cup {Len(s) + 1},
         \A i \in DOMAIN s : t[i] = s[i]
  PROVE  t = Append(s, t[Len(s) + 1])
<1> DEFINE n == Len(s) + 1
           u == Append(s, t[n])
<1>1. Len(s) \in Nat /\ DOMAIN s = 1..Len(s) BY LenProperties
<1>2. Len(t) \in Nat /\ DOMAIN t = 1..Len(t) BY LenProperties
<1>3. 1..Len(t) = 1..n BY <1>1, <1>2
<1>4. Len(t) = n BY <1>1, <1>2, <1>3, SameLength
<1>5. t[n] \in T BY <1>1, <1>4, ElementOfSeq
<1>6. /\ u \in Seq(T) /\ Len(u) = n /\ u[n] = t[n]
      /\ \A i \in 1..Len(s) : u[i] = s[i]
  BY <1>5, AppendProperties
<1>7. \A i \in 1..n : t[i] = u[i]
  <2> HIDE DEF u
  <2> QED BY <1>1, <1>6
<1> HIDE DEF u, n
<1>8. t = u BY <1>4, <1>6, <1>7, SeqEqual
<1> QED BY <1>8 DEF u, n
=============================================================================
