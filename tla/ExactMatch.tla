----------------------------- MODULE ExactMatch -----------------------------
(***************************************************************************)
(* How alike two documents are, field by field (src/matching/layers and    *)
(* the public search): what Matching takes for being alike or not.         *)
(*                                                                         *)
(* A character is its code, a value the words of a field, scores are in    *)
(* ten-thousandths.  What is claimed of the scores is assumed below, over  *)
(* small documents, for TLC to evaluate.                                   *)
(***************************************************************************)
EXTENDS Integers, Sequences, SequencesExt, TLC

Null == <<>>

-----------------------------------------------------------------------------
(* One field *)

\* Lower case, and nothing but letters and digits.
Folded(word) ==
  SelectSeq([i \in DOMAIN word |-> IF word[i] \in 65..90 THEN word[i] + 32 ELSE word[i]],
            LAMBDA c : c \in 48..57 \cup 97..122)

Normalise(value) == FlattenSeq([i \in DOMAIN value |-> Folded(value[i])])

Before(v, w) ==
  \E i \in DOMAIN w :
    /\ Len(v) >= i - 1 /\ SubSeq(v, 1, i - 1) = SubSeq(w, 1, i - 1)
    /\ Len(v) = i - 1 \/ v[i] < w[i]

\* The words in order, with a space between two.
NormaliseLoose(value) ==
  LET words == SortSeq(SelectSeq([i \in DOMAIN value |-> Folded(value[i])],
                                 LAMBDA w : w # <<>>), Before)
  IN FlattenSeq([i \in DOMAIN words |-> IF i = 1 THEN words[i] ELSE <<32>> \o words[i]])

\* 0-O 1-I 1-L 5-S 8-B 6-G 2-Z 4-A, in capitals.
OCR_CONFUSION_PAIRS ==
  {<<48, 79>>, <<49, 73>>, <<49, 76>>, <<53, 83>>, <<56, 66>>, <<54, 71>>, <<50, 90>>, <<52, 65>>}

ApplyOcrCorrections(s) ==
  [i \in DOMAIN s |-> IF \E p \in OCR_CONFUSION_PAIRS : p[2] = s[i]
                      THEN (CHOOSE p \in OCR_CONFUSION_PAIRS : p[2] = s[i])[1] ELSE s[i]]

\* How many characters to insert, leave out or replace.
LevenshteinDistance(s, t) ==
  LET least(S) == CHOOSE n \in S : \A k \in S : n <= k
      d[i \in 0..Len(s), j \in 0..Len(t)] ==
        IF i = 0 \/ j = 0 THEN i + j
        ELSE IF s[i] = t[j] THEN d[i - 1, j - 1]
        ELSE 1 + least({d[i - 1, j - 1], d[i - 1, j], d[i, j - 1]})
  IN d[Len(s), Len(t)]

\* In hundredths.
CompareWithOcrTolerance(a, b, loose) ==
  LET s == IF loose THEN NormaliseLoose(a) ELSE Normalise(a)
      t == IF loose THEN NormaliseLoose(b) ELSE Normalise(b)
  IN CASE a = Null \/ b = Null -> 0
       [] OTHER ->
            IF s = t THEN 100
            ELSE IF ApplyOcrCorrections(s) = ApplyOcrCorrections(t) THEN 90
            ELSE LET n == LevenshteinDistance(s, t)
                 IN IF n = 1 THEN 85 ELSE IF n = 2 THEN 65 ELSE 0

CompareDates(a, b) == IF a # Null /\ a = b THEN 100 ELSE 0

-----------------------------------------------------------------------------
(* Two documents *)

EXACT_FIELD_WEIGHTS ==
  [documentNumber |-> 40, fullName |-> 30, dateOfBirth |-> 20, serialNumber |-> 10]

Field == DOMAIN EXACT_FIELD_WEIGHTS

FieldScore(field, a, b) ==
  CASE field = "dateOfBirth" -> CompareDates(a, b)
    [] field = "fullName"    -> CompareWithOcrTolerance(a, b, TRUE)
    [] OTHER                 -> CompareWithOcrTolerance(a, b, FALSE)

ScoreOne(scores) ==
    scores.documentNumber * EXACT_FIELD_WEIGHTS.documentNumber
  + scores.fullName * EXACT_FIELD_WEIGHTS.fullName
  + scores.dateOfBirth * EXACT_FIELD_WEIGHTS.dateOfBirth
  + scores.serialNumber * EXACT_FIELD_WEIGHTS.serialNumber

ExactMatchThreshold == 4000

Survives(score) == score >= ExactMatchThreshold

GetVerdict(score) ==
  CASE score >= 8000 -> "VERIFIED_MATCH"
    [] score < 8000 /\ score >= 5500 -> "PROBABLE_MATCH"
    [] score < 5500 /\ score >= 3000 -> "POSSIBLE_MATCH"
    [] score < 3000 -> "NO_MATCH"

\* What a preview shows of a word: its length, and which characters are in clear.
MaskValue(word) ==
  IF Len(word) <= 3 THEN {} ELSE {1, 2, Len(word)}

-----------------------------------------------------------------------------
(* The public search has number and name only, and a likeness of vectors. *)

PublicCompare(a, b, loose) == CompareWithOcrTolerance(a, b, loose)

\* The likeness in thousandths; at most three are shown, the best ones.
PublicFinds(similarity, number, name) ==
  400 * similarity + 6 * (571 * number + 429 * name) >= 650000

MaskName(word) == IF Len(word) <= 1 THEN DOMAIN word ELSE {1}

-----------------------------------------------------------------------------
(* What is claimed *)

\* Words over the characters 1, A, I, b and a dash, and fields made of them.
Word   == {<<49>>, <<73>>, <<65, 49>>, <<65, 73>>, <<97, 45, 49>>, <<65, 65, 73, 98>>}
Number == {Null} \cup {<<w>> : w \in Word}
Name   == Number \cup {<<v, w>> : v, w \in Word}

Scores == [documentNumber: {0, 65, 85, 90, 100}, fullName: {0, 65, 85, 90, 100},
           dateOfBirth: {0, 100}, serialNumber: {0, 65, 85, 90, 100}]

\* A lost and a found document get one verdict whichever of them is searched for, and
\* the order of the words of a name, capitals and dashes decide nothing: the search
\* that comes second could otherwise miss what the first would have found.
ASSUME ScoreIsFair ==
  /\ \A a, b \in Name : \A loose \in BOOLEAN :
       CompareWithOcrTolerance(a, b, loose) = CompareWithOcrTolerance(b, a, loose)
  /\ \A v, w \in Word : CompareWithOcrTolerance(<<v, w>>, <<w, v>>, TRUE) = 100
  /\ \A a \in Number \ {Null} :
       CompareWithOcrTolerance(a, <<Append(Normalise(a), 45)>>, FALSE) = 100

\* The pairs are capitals and what they are looked for in is not: no field ever gets
\* the score that is meant for confused characters, one such slip counts as any other.
ASSUME ConfusionIsDistance ==
  \A a, b \in Name : \A loose \in BOOLEAN : CompareWithOcrTolerance(a, b, loose) # 90

\* No score is beyond 1, to agree on a field more never makes the verdict worse, the
\* same number survives whatever else differs and one that is misread does not, if
\* nothing but one of the smaller fields supports it.
ASSUME ThresholdsAreSound ==
  /\ \A s \in Scores : ScoreOne(s) \in 0..10000
  /\ \A s \in Scores, f \in Field :
       /\ ScoreOne(s) <= ScoreOne([s EXCEPT ![f] = 100])
       /\ s.documentNumber = 100 => Survives(ScoreOne(s))
       /\ s.documentNumber \in 1..99 /\ s.fullName = 0 /\ s.dateOfBirth = 0 =>
            (Survives(ScoreOne(s)) <=> s.documentNumber + s.serialNumber \div 4 >= 100)

\* A search of the public never shows a document for the likeness of its vector alone,
\* nor for a name alone unless the vector is the very same, and no mask shows a word.
ASSUME PublicIsCareful ==
  /\ \A similarity \in {700, 800, 979, 1000}, name \in {0, 65, 85, 100} :
       PublicFinds(similarity, 0, name) => name = 100 /\ similarity > 979
  /\ \A w \in Word : MaskValue(w) # DOMAIN w /\ (Len(w) > 1 => MaskName(w) # DOMAIN w)
=============================================================================
