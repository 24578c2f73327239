---------------------------- MODULE MCCaseIntake ----------------------------
EXTENDS Integers

CONSTANTS Req, Faults, MaxExtractions, MaxDisturbed

VARIABLES
  kind, status, document, images, extractions, docaiJobs, pending, req, disturbed

\* The names are those of no other component: BackgroundProofs is about several.
I == INSTANCE CaseIntake WITH jobs <- docaiJobs

ASSUME IntakeAssumption == I!ConstantsOK

IntakeSpec == I!FairSpec

\* A verified case is one whose newest images docai has really read: see CaseIntake.
VerifiedWasExtracted == I!VerifiedWasExtracted

\* Unless the staff granted more, images are taken again at most once: see CaseIntake.
SelfServiceOnce == I!SelfServiceOnce

\* A case waits for one extraction at a time: see CaseIntake.
OneExtractionAtATime == I!OneExtractionAtATime

\* A job whose id was stored before docai had anything to report gets its outcome
\* recorded: see CaseIntake.
StampedIsSettled == I!StampedIsSettled
=============================================================================
