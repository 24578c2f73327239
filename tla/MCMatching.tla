----------------------------- MODULE MCMatching -----------------------------
EXTENDS ExactMatch

CONSTANTS
  Lost, Found, Text, Reporter, Owner, Staff, Empty, MatchAttempts, MaxChanges,
  lostA, lostB, foundA, ownerA, ownerB, staffA

VARIABLES text, open, vector, dims, pipe, match, told, changes, losses

\* The names are those of no other component: BackgroundProofs is about several.
M == INSTANCE Matching
       WITH User <- Reporter, Attempts <- MatchAttempts, MaxDisturbed <- MaxChanges,
            edits <- changes, faults <- losses

ASSUME MatchingAssumption == M!ConstantsOK

\* The first lost case and the found one have one reporter.
MCOwner == lostA :> ownerA @@ lostB :> ownerB @@ foundA :> ownerA

MatchingSpec == M!FairSpec

\* Neither side waits for the other, yet one of the two finds the other whatever the
\* order of their steps: see Matching.
NoMissedMatch == M!NoMissedMatch

\* The users of a match are told, also when both sides write it at once: see Matching.
MatchIsTold == M!MatchIsTold

\* A search that finds the pair again does not take a rejection back: see Matching.
RejectionStands == M!RejectionStands

\* Two alike cases are matched in the end unless docai stayed away, a fault lost a job
\* or somebody edited: see Matching.
AlikeAreMatched == M!AlikeAreMatched
=============================================================================
