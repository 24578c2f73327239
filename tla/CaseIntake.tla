----------------------------- MODULE CaseIntake -----------------------------
(***************************************************************************)
(* One document case from its report to its submission and verification    *)
(* (src/document-cases), with the extraction of the document's fields by   *)
(* docai, an external service that reports by webhooks (src/docai).        *)
(*                                                                         *)
(* Every image upload makes an extraction and calls docai asynchronously;  *)
(* the id of docai's job is stored when the call has returned, and a       *)
(* webhook carries nothing else.  A webhook stays pending until it is      *)
(* acknowledged: docai delivers it again after an error, may deliver it    *)
(* again although it was handled, and does not wait with the next one.     *)
(*                                                                         *)
(* The document is a single field.  Not modelled: confidences, warnings,   *)
(* notifications, the exchange a finder's report creates (DocumentExchange *)
(* has it), queries, and the two events that are only acknowledged.        *)
(***************************************************************************)
EXTENDS Integers, Sequences, FiniteSets, SequencesExt

CONSTANTS
  Req,            \* slots for handlers in flight
  Faults,         \* which faults may happen
  MaxExtractions, \* bound: extractions ever created
  MaxDisturbed    \* bound: handlers that overlap, repeat, come late or die

\* A handler or the call of docai dies; docai cannot read an image or cannot
\* structure what it read.
FaultKinds == {"die", "vision", "structure"}

ConstantsOK ==
  Faults \subseteq FaultKinds /\ MaxExtractions \in Nat /\ MaxDisturbed \in Nat

VARIABLES
  kind,        \* how the case was reported
  status,      \* status of the lost or found case
  document,    \* its field
  images,      \* the upload its image rows come from, and where the files are
  extractions, \* AIExtraction rows, oldest first
  jobs,        \* docai's side of each extraction
  pending,     \* webhooks not acknowledged
  req,         \* handlers in flight
  disturbed    \* observed: how often a handler overlapped, repeated, came late, died

vars == <<kind, status, document, images, extractions, jobs, pending, req,
          disturbed>>

Resolution == {"none", "RESUBMIT_IMAGE", "SUBMIT_NEW_CASE", "STAFF_HANDLING"}

Extraction ==
  [status: {"PENDING", "IN_PROGRESS", "COMPLETED", "FAILED"},
   submit: {"calling", "answered", "stamped", "lost"}, \* docaiJobId
   resolution: Resolution, byStaff: BOOLEAN]

JobState == {"none", "vision", "structure", "succeeded", "visionFailed",
             "structureFailed"}

Event == {"vision.success", "success", "vision.failed", "structure.failed"}

Request ==
  [op: {"none", "success", "failed", "resubmit", "resolve", "verify", "reject",
        "submit"},
   step: {"idle", "write", "move", "complete", "commit"},
   x: Nat, event: Event \cup {"none"},
   seen: {"null", "extracted", "typed", "none"}, \* the field it read
   batch: Nat,                                   \* the images it read
   resolution: Resolution]                       \* what it decided

Idle == [op |-> "none", step |-> "idle", x |-> 0, event |-> "none",
         seen |-> "none", batch |-> 0, resolution |-> "none"]

Disturbance == {"repeated", "late", "overlap", "death"}

TypeOK ==
  /\ kind \in {"none", "found", "scan", "manual"}
  /\ status \in {"DRAFT", "SUBMITTED", "VERIFIED", "REJECTED"}
  /\ document \in {"null", "extracted", "typed"}
  /\ images \in [batch: Nat, moved: BOOLEAN]
  /\ extractions \in Seq(Extraction)
  /\ jobs \in Seq(JobState)
  /\ pending \subseteq Nat \X Event
  /\ req \in [Req -> Request]
  /\ disturbed \in [Disturbance -> Nat]

Init ==
  /\ kind = "none" /\ status = "DRAFT" /\ document = "null"
  /\ images = [batch |-> 0, moved |-> FALSE]
  /\ extractions = <<>> /\ jobs = <<>> /\ pending = {}
  /\ req = [r \in Req |-> Idle]
  /\ disturbed = [d \in Disturbance |-> 0]

-----------------------------------------------------------------------------
At(r, op, step) == req[r].op = op /\ req[r].step = step
Goto(r, step)   == req' = [req EXCEPT ![r].step = step]
Done(r)         == req' = [req EXCEPT ![r] = Idle]

Disturbances == FoldFunction(+, 0, disturbed)

Disturb(d) ==
  /\ Disturbances < MaxDisturbed
  /\ disturbed' = [disturbed EXCEPT ![d] = @ + 1]

DisturbIf(d, condition) == IF condition THEN Disturb(d) ELSE UNCHANGED disturbed

\* The caller's handlers; two of them in flight together are an overlap.
CallerOps == {"resubmit", "resolve", "verify", "reject", "submit"}

Begin(r, op, x, resolution) ==
  /\ req[r] = Idle
  /\ req' = [req EXCEPT ![r] = [Idle EXCEPT !.op = op, !.step = "commit",
                                            !.x = x, !.resolution = resolution]]
  /\ DisturbIf("overlap", \E q \in Req : req[q].op \in CallerOps)

NewExtraction == [status |-> "PENDING", submit |-> "calling",
                  resolution |-> "none", byStaff |-> FALSE]

\* New images, an extraction for them and a call of docai that nobody awaits.
Extract ==
  /\ Len(extractions) < MaxExtractions
  /\ images' = [batch |-> Len(extractions) + 1, moved |-> FALSE]
  /\ extractions' = Append(extractions, NewExtraction)
  /\ jobs' = Append(jobs, "none")

-----------------------------------------------------------------------------
(* Reports *)

Report(k) ==
  /\ kind = "none"
  /\ kind' = k
  /\ Extract
  /\ UNCHANGED <<status, document, pending, req, disturbed>>

ReportFound       == Report("found")
ReportLostScanned == Report("scan")

ReportManual ==
  /\ kind = "none"
  /\ kind' = "manual" /\ document' = "typed"
  /\ UNCHANGED <<status, images, extractions, jobs, pending, req, disturbed>>

\* case-documents asks for no status; a field that is not given is kept or, for
\* the name, emptied.
EditDocument ==
  /\ kind # "none"
  /\ document' \in {"typed", "null"}
  /\ UNCHANGED <<kind, status, images, extractions, jobs, pending, req,
                 disturbed>>

-----------------------------------------------------------------------------
(* The call of docai and docai's own progress *)

Answer(x) ==
  /\ extractions[x].submit = "calling"
  /\ extractions' = [extractions EXCEPT ![x].submit = "answered"]
  /\ jobs' = [jobs EXCEPT ![x] = "vision"]
  /\ UNCHANGED <<kind, status, document, images, pending, req, disturbed>>

\* The job's id is stored, and webhooks about it are understood from now on.
Stamp(x) ==
  /\ extractions[x].submit = "answered"
  /\ extractions' = [extractions EXCEPT ![x].submit = "stamped"]
  /\ UNCHANGED <<kind, status, document, images, jobs, pending, req, disturbed>>

\* docai refuses, the answer is lost or the id cannot be stored: only logged.
LoseCall(x) ==
  /\ "die" \in Faults
  /\ extractions[x].submit \in {"calling", "answered"}
  /\ extractions' = [extractions EXCEPT ![x].submit = "lost"]
  /\ \/ UNCHANGED jobs
     \/ extractions[x].submit = "calling" /\ jobs' = [jobs EXCEPT ![x] = "vision"]
  /\ UNCHANGED <<kind, status, document, images, pending, req, disturbed>>

Progress(x, from, to, event) ==
  /\ jobs[x] = from
  /\ jobs' = [jobs EXCEPT ![x] = to]
  /\ pending' = pending \cup {<<x, event>>}
  /\ UNCHANGED <<kind, status, document, images, extractions, req, disturbed>>

Docai(x) ==
  \/ Progress(x, "vision", "structure", "vision.success")
  \/ Progress(x, "structure", "succeeded", "success")
  \/ /\ "vision" \in Faults
     /\ Progress(x, "vision", "visionFailed", "vision.failed")
  \/ /\ "structure" \in Faults
     /\ Progress(x, "structure", "structureFailed", "structure.failed")

-----------------------------------------------------------------------------
(* Webhooks *)

Known(x) == extractions[x].submit = "stamped"

\* A handled webhook is acknowledged, unless the acknowledgement is lost.
Acknowledge(x, event) ==
  \/ pending' = pending \ {<<x, event>>} /\ UNCHANGED disturbed
  \/ Disturb("repeated") /\ UNCHANGED pending

\* An unknown job is answered like a handled one.
Drop(x, event) ==
  /\ <<x, event>> \in pending
  /\ event # "vision.success"
  /\ ~Known(x)
  /\ pending' = pending \ {<<x, event>>}
  /\ UNCHANGED <<kind, status, document, images, extractions, jobs, req,
                 disturbed>>

\* handleVisionSuccess: it fails, and is repeated, while the job is unknown.
VisionSuccess(x) ==
  /\ <<x, "vision.success">> \in pending
  /\ Known(x)
  /\ extractions' = [extractions EXCEPT ![x].status = "IN_PROGRESS"]
  /\ pending' = pending \ {<<x, "vision.success">>}
  /\ DisturbIf("late", extractions[x].status # "PENDING")
  /\ UNCHANGED <<kind, status, document, images, jobs, req>>

\* Mutant: the webhook is acknowledged before it is handled.
MutStartWebhook(r, x, event, slot) ==
  /\ <<x, event>> \in pending
  /\ Known(x)
  /\ req[r] = Idle
  /\ req' = [req EXCEPT ![r] = slot]
  /\ pending' = pending \ {<<x, event>>}
  /\ UNCHANGED <<kind, status, document, images, extractions, jobs, disturbed>>

\* The other webhooks read first.  One that is being handled may be delivered
\* again.
StartWebhook(r, x, event, slot) ==
  /\ <<x, event>> \in pending
  /\ Known(x)
  /\ req[r] = Idle
  /\ req' = [req EXCEPT ![r] = slot]
  /\ DisturbIf("repeated",
               \E q \in Req : req[q].x = x /\ req[q].event = event)
  /\ UNCHANGED <<kind, status, document, images, extractions, jobs, pending>>

StartSuccess(r, x) ==
  StartWebhook(r, x, "success",
    [Idle EXCEPT !.op = "success", !.step = "write", !.x = x,
                 !.event = "success", !.seen = document, !.batch = images.batch])

\* applyFieldsToDocument: only a field that was read empty is filled.
ApplyFields(r) ==
  /\ At(r, "success", "write")
  /\ document' = IF req[r].seen = "null" THEN "extracted" ELSE document
  /\ Goto(r, "move")
  /\ UNCHANGED <<kind, status, images, extractions, jobs, pending, disturbed>>

\* moveAndBlurImages: an error, as for files that are not there any more, is
\* caught.
MoveImages(r) ==
  /\ At(r, "success", "move")
  /\ \/ req[r].batch = images.batch /\ images' = [images EXCEPT !.moved = TRUE]
     \/ /\ "die" \in Faults \/ req[r].batch # images.batch
        /\ UNCHANGED images
  /\ Goto(r, "complete")
  /\ UNCHANGED <<kind, status, document, extractions, jobs, pending, disturbed>>

Complete(r) ==
  /\ At(r, "success", "complete")
  /\ extractions' = [extractions EXCEPT ![req[r].x].status = "COMPLETED"]
  /\ Done(r)
  /\ Acknowledge(req[r].x, "success")
  /\ UNCHANGED <<kind, status, document, images, jobs>>

FailedBefore == \E x \in DOMAIN extractions : extractions[x].status = "FAILED"

\* Mutant: nobody counts earlier failures.
MutVerdict(event) ==
  IF event = "structure.failed" THEN "none" ELSE "RESUBMIT_IMAGE"

\* What handleStageFailed tells the user: the first unreadable image may be
\* taken again, later ones and structure failures are for the staff.
Verdict(event) ==
  IF event = "structure.failed" THEN "none"
  ELSE IF FailedBefore THEN "STAFF_HANDLING" ELSE "RESUBMIT_IMAGE"

StartFailed(r, x, event) ==
  /\ event \in {"vision.failed", "structure.failed"}
  /\ StartWebhook(r, x, event,
       [Idle EXCEPT !.op = "failed", !.step = "commit", !.x = x,
                    !.event = event, !.resolution = Verdict(event)])

RecordFailure(r) ==
  /\ At(r, "failed", "commit")
  /\ extractions' = [extractions EXCEPT ![req[r].x].status = "FAILED",
                                        ![req[r].x].resolution = req[r].resolution]
  /\ Done(r)
  /\ Acknowledge(req[r].x, req[r].event)
  /\ UNCHANGED <<kind, status, document, images, jobs>>

-----------------------------------------------------------------------------
(* The reporter and the staff *)

Newest == extractions[Len(extractions)]

\* Mutant: images may be taken again as long as none was read.
MutStartResubmit(r) ==
  /\ extractions # <<>>
  /\ Newest.status # "COMPLETED"
  /\ Begin(r, "resubmit", Len(extractions), "none")
  /\ UNCHANGED <<kind, status, document, images, extractions, jobs, pending>>

StartResubmit(r) ==
  /\ extractions # <<>>
  /\ Newest.status = "FAILED" /\ Newest.resolution = "RESUBMIT_IMAGE"
  /\ Begin(r, "resubmit", Len(extractions), "none")
  /\ UNCHANGED <<kind, status, document, images, extractions, jobs, pending>>

Resubmit(r) ==
  /\ At(r, "resubmit", "commit")
  /\ Extract
  /\ Done(r)
  /\ UNCHANGED <<kind, status, document, pending, disturbed>>

StartResolve(r, resolution) ==
  /\ extractions # <<>>
  /\ Newest.status = "FAILED"
  /\ ~(Newest.byStaff /\ Newest.resolution # "none")
  /\ Begin(r, "resolve", Len(extractions), resolution)
  /\ UNCHANGED <<kind, status, document, images, extractions, jobs, pending>>

Resolve(r) ==
  /\ At(r, "resolve", "commit")
  /\ extractions' = [extractions EXCEPT ![req[r].x].resolution = req[r].resolution,
                                        ![req[r].x].byStaff = TRUE]
  /\ Done(r)
  /\ UNCHANGED <<kind, status, document, images, jobs, pending, disturbed>>

\* submitLostCase, which does not ask about the extraction.
StartSubmit(r) ==
  /\ kind \in {"scan", "manual"} /\ status = "DRAFT"
  /\ Begin(r, "submit", 0, "none")
  /\ UNCHANGED <<kind, status, document, images, extractions, jobs, pending>>

\* A found case is submitted by the code the document is handed in with.
StartHandIn(r) ==
  /\ kind = "found" /\ status = "DRAFT"
  /\ Begin(r, "submit", 0, "none")
  /\ UNCHANGED <<kind, status, document, images, extractions, jobs, pending>>

\* Mutant: an extraction that has failed will do.
MutStartVerify(r) ==
  /\ kind = "found" /\ status = "SUBMITTED"
  /\ Newest.status \in {"COMPLETED", "FAILED"}
  /\ Begin(r, "verify", 0, "none")
  /\ UNCHANGED <<kind, status, document, images, extractions, jobs, pending>>

\* verifyFoundCase: the newest extraction must be complete.
StartVerify(r) ==
  /\ kind = "found" /\ status = "SUBMITTED"
  /\ Newest.status = "COMPLETED"
  /\ Begin(r, "verify", 0, "none")
  /\ UNCHANGED <<kind, status, document, images, extractions, jobs, pending>>

StartReject(r) ==
  /\ kind = "found" /\ status = "SUBMITTED"
  /\ Begin(r, "reject", 0, "none")
  /\ UNCHANGED <<kind, status, document, images, extractions, jobs, pending>>

\* The transaction writes the status whatever it has become.
CommitStatus(r, op, to) ==
  /\ At(r, op, "commit")
  /\ status' = to
  /\ Done(r)
  /\ UNCHANGED <<kind, document, images, extractions, jobs, pending, disturbed>>

Die(r) ==
  /\ "die" \in Faults
  /\ req[r] # Idle
  /\ Done(r)
  /\ Disturb("death")
  /\ UNCHANGED <<kind, status, document, images, extractions, jobs, pending>>

Handle(r) ==
  \/ ApplyFields(r) \/ MoveImages(r) \/ Complete(r) \/ RecordFailure(r)
  \/ Resubmit(r) \/ Resolve(r)
  \/ CommitStatus(r, "submit", "SUBMITTED") \/ CommitStatus(r, "verify", "VERIFIED")
  \/ CommitStatus(r, "reject", "REJECTED")

Deliver(x) ==
  \/ VisionSuccess(x)
  \/ \E event \in Event : Drop(x, event)
  \/ \E r \in Req : \/ StartSuccess(r, x)
                    \/ \E event \in Event : StartFailed(r, x, event)

Call(r) ==
  \/ StartResubmit(r) \/ StartSubmit(r) \/ StartHandIn(r) \/ StartVerify(r)
  \/ StartReject(r)
  \/ \E resolution \in Resolution \ {"none"} : StartResolve(r, resolution)

Next ==
  \/ ReportFound \/ ReportLostScanned \/ ReportManual \/ EditDocument
  \/ \E x \in DOMAIN extractions :
       Answer(x) \/ Stamp(x) \/ LoseCall(x) \/ Docai(x) \/ Deliver(x)
  \/ \E r \in Req : Call(r) \/ Handle(r) \/ Die(r)

Spec == Init /\ [][Next]_vars

\* docai works on every job and delivers until it is acknowledged; handlers and
\* the storing of the id are not stopped for ever.
Fairness ==
  /\ \A x \in 1 .. MaxExtractions :
       /\ WF_vars(x \in DOMAIN extractions /\ Docai(x))
       /\ SF_vars(x \in DOMAIN extractions /\ Deliver(x))
  /\ \A r \in Req : WF_vars(Handle(r))

FairSpec == Spec /\ Fairness

-----------------------------------------------------------------------------
(* Properties *)

\* verifyFoundCase blocks verification "if extraction is still pending or has
\* failed": a verified case is one whose newest images docai has really read,
\* whatever webhook came late, twice or not at all.  Only a resubmission that began
\* before another one and ends after the verification can put new images under it.
VerifiedWasExtracted ==
  kind = "found" /\ status = "VERIFIED" /\ disturbed.overlap <= 1
    => Last(jobs) = "succeeded"

\* "Count prior failures to cap self-service at 1 resubmit": unless the staff
\* granted more, images are taken again at most once.
SelfServiceOnce ==
  disturbed.repeated = 0 /\ disturbed.overlap = 0
    => Cardinality({x \in DOMAIN extractions :
         extractions[x].resolution = "RESUBMIT_IMAGE" /\ ~extractions[x].byStaff})
       <= 1

\* A case waits for one extraction at a time: all but the newest have failed.
OneExtractionAtATime ==
  disturbed.late = 0 /\ disturbed.overlap = 0
    => \A x \in 1 .. Len(extractions) - 1 : extractions[x].status = "FAILED"

Settled(x) == extractions[x].status \in {"COMPLETED", "FAILED"}

\* A job whose id was stored before docai had anything to report gets its
\* outcome recorded.
StampedIsSettled ==
  \A x \in 1 .. MaxExtractions :
    (x \in DOMAIN extractions /\ Known(x) /\ jobs[x] = "vision")
      ~> (x \in DOMAIN extractions /\ Settled(x))
=============================================================================
