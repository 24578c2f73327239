------------------------- MODULE BackgroundProofs -------------------------
(***************************************************************************)
(* What happens behind the requests, for any number of everything: docai's *)
(* webhooks (CaseIntake, as I), the jobs that embed and match documents    *)
(* (Matching, as M) and those that deliver notifications (Notifications).  *)
(*                                                                         *)
(* What a notification's row says of the providers is true, and without a  *)
(* fault no message is handed over twice and no event stays pending        *)
(* without work.  A verified case rests on images that were read, images   *)
(* are taken again once and extracted one after the other.  Alike          *)
(* documents are matched, the match is told of, and a rejection stands.    *)
(***************************************************************************)
EXTENDS Notifications, MCCaseIntake, MCMatching, RowLemmas, FiniteSetTheorems

-----------------------------------------------------------------------------
(* Notifications *)

\* A row's event is there, and a purged row is one of a purged event.
RowsHaveEvents ==
  \A l \in DOMAIN logs :
    /\ logs[l].event \in DOMAIN events
    /\ logs[l].status = "gone" => events[logs[l].event].state = "gone"

\* The send under way has an event, and its rows no jobs yet.
DispatchIsNew ==
  /\ dispatch.step = "insert" => dispatch.event \in DOMAIN events
  /\ \A l \in dispatch.rows : l \in DOMAIN logs /\ jobs[l].step = "none"

\* What a row and the step of its job say of the providers, who took its message n times.
Told(row, job, n) ==
  /\ row.status = "SENT" => n > 0
  /\ job.step \in {"accepted", "sent"} => n > 0
  /\ job.step = "none" => n = 0

\* Without a fault only the job of a purged row is tried again once a provider has taken
\* its message, and a job that has ended has settled its row.
Calm(row, job, n) ==
  /\ n <= 1
  /\ job.step = "resolved" => n = 0
  /\ job.step \in {"waiting", "started", "caught", "exhausted", "failed"}
       => n = 0 \/ row.status = "gone"
  /\ job.step \in {"sent", "done", "failed"}
       => row.status \in {"SENT", "FAILED", "SKIPPED", "gone"}

RowsAreTold ==
  \A l \in DOMAIN logs :
    /\ Told(logs[l], jobs[l], accepted[l])
    /\ faults = 0 => Calm(logs[l], jobs[l], accepted[l])

IInv == TypeOK /\ RowsHaveEvents /\ DispatchIsNew /\ RowsAreTold

EventRow == [state: {"kept", "voided", "gone"}, read: BOOLEAN]
DispatchRecord == [step: {"idle", "insert", "add"}, event: Nat, todo: SUBSET Target,
                   rows: SUBSET Nat]

-----------------------------------------------------------------------------
LEMMA NoDispatchIsDispatch == NoDispatch \in DispatchRecord /\ NoDispatch.rows = {}
                                /\ NoDispatch.step = "idle"
  BY DEF NoDispatch, DispatchRecord

LEMMA Bounds == MaxEdits \in Nat /\ MaxFaults \in Nat /\ MaxLogs \in Nat /\ Attempts \in Nat
  BY NotificationsAssumption

\* The tables of rows, jobs and observations have one length.
LEMMA OneLength ==
  ASSUME TypeOK
  PROVE  /\ Len(logs) \in Nat /\ DOMAIN logs = 1..Len(logs) /\ DOMAIN jobs = DOMAIN logs
         /\ DOMAIN accepted = DOMAIN logs
         /\ \A l \in DOMAIN logs : logs[l] \in Log /\ jobs[l] \in Job /\ accepted[l] \in Nat
<1>1. logs \in Seq(Log) /\ jobs \in Seq(Job) /\ Len(logs) = Len(jobs)
  BY DEF TypeOK
<1>2. Len(logs) \in Nat /\ DOMAIN logs = 1..Len(logs) /\ DOMAIN jobs = 1..Len(jobs)
  BY <1>1
<1>3. \A l \in DOMAIN logs : logs[l] \in Log /\ jobs[l] \in Job
  BY <1>1, <1>2, ElementOfSeq
<1>4. DOMAIN accepted = DOMAIN logs /\ \A l \in DOMAIN logs : accepted[l] \in Nat
  BY DEF TypeOK
<1> QED BY <1>1, <1>2, <1>3, <1>4

LEMMA InitIsSound == Init => IInv
<1> SUFFICES ASSUME Init PROVE IInv
  OBVIOUS
<1>1. logs = <<>> /\ DOMAIN logs = {} /\ jobs = <<>> /\ accepted = <<>> /\ events = <<>>
  BY DEF Init
<1>2. /\ logs \in Seq(Log) /\ jobs \in Seq(Job) /\ Len(logs) = Len(jobs)
      /\ accepted \in [DOMAIN logs -> Nat] /\ receipts \subseteq DOMAIN logs
      /\ events \in Seq(EventRow)
  BY <1>1 DEF Init
<1>3. TypeOK
  BY <1>2, NoDispatchIsDispatch, Bounds DEF Init, TypeOK, EventRow, DispatchRecord
<1> QED BY <1>1, <1>3, NoDispatchIsDispatch
        DEF Init, IInv, RowsHaveEvents, DispatchIsNew, RowsAreTold

-----------------------------------------------------------------------------
(* One row *)

\* A step of a job, a receipt or a row: it keeps its event, and is purged only with it.
RowMoves(l, row, job, n) ==
  /\ logs'     = [logs EXCEPT ![l] = row]
  /\ jobs'     = [jobs EXCEPT ![l] = job]
  /\ accepted' = [accepted EXCEPT ![l] = n]
  /\ row \in Log /\ job \in Job /\ n \in Nat
  /\ row.event = logs[l].event /\ (row.status = "gone" <=> Gone(l))
  /\ job.step = "none" <=> jobs[l].step = "none"

LEMMA RowMovesIsSound ==
  ASSUME IInv, NEW l \in DOMAIN logs, NEW row, NEW job, NEW n, RowMoves(l, row, job, n),
         token' \in [Token -> {"absent", "active", "voided"}],
         UNCHANGED <<template, device, dispatch, events, edits>>,
         receipts' \subseteq receipts \cup {l}, faults' \in faults..MaxFaults,
         Told(row, job, n), faults' = 0 => Calm(row, job, n)
  PROVE  IInv'
<1>0. TypeOK
  BY DEF IInv
<1>1. /\ logs' \in Seq(Log) /\ DOMAIN logs' = DOMAIN logs
      /\ \A k \in DOMAIN logs : logs'[k] = IF k = l THEN row ELSE logs[k]
  BY <1>0, UpdateInSeq DEF RowMoves, TypeOK
<1>2. /\ jobs' \in Seq(Job) /\ DOMAIN jobs' = DOMAIN jobs
      /\ \A k \in DOMAIN logs : jobs'[k] = IF k = l THEN job ELSE jobs[k]
  BY <1>0, UpdateInSeq, OneLength DEF RowMoves, TypeOK
<1>3. /\ accepted' \in [DOMAIN logs -> Nat]
      /\ \A k \in DOMAIN logs : accepted'[k] = IF k = l THEN n ELSE accepted[k]
  BY <1>0 DEF RowMoves, TypeOK
<1>4. Len(logs') = Len(jobs')
  <2>1. /\ Len(logs) \in Nat /\ Len(logs') \in Nat /\ Len(jobs') \in Nat
        /\ 1..Len(logs') = 1..Len(logs) /\ 1..Len(jobs') = 1..Len(logs)
    BY <1>0, <1>1, <1>2, OneLength, LenProperties
  <2> QED BY <2>1, SameLength
<1>5. faults \in Nat /\ faults' \in 0..MaxFaults /\ (faults' = 0 => faults = 0)
  BY <1>0, Bounds DEF TypeOK
<1>6. TypeOK'
  BY <1>0, <1>1, <1>2, <1>3, <1>4, <1>5 DEF TypeOK
<1>7. RowsHaveEvents'
  BY <1>1 DEF IInv, RowsHaveEvents, RowMoves, Gone
<1>8. DispatchIsNew'
  BY <1>1, <1>2 DEF IInv, DispatchIsNew, RowMoves
<1>9. RowsAreTold'
  <2> SUFFICES ASSUME NEW k \in DOMAIN logs
               PROVE  /\ Told(logs'[k], jobs'[k], accepted'[k])
                      /\ faults' = 0 => Calm(logs'[k], jobs'[k], accepted'[k])
    BY <1>1 DEF RowsAreTold
  <2>1. CASE k = l
    BY <2>1, <1>1, <1>2, <1>3
  <2>2. CASE k # l
    BY <2>2, <1>1, <1>2, <1>3, <1>5 DEF IInv, RowsAreTold
  <2> QED BY <2>1, <2>2
<1> QED BY <1>6, <1>7, <1>8, <1>9 DEF IInv

-----------------------------------------------------------------------------
(* The worker *)

\* What a step of a worker leaves as it is.
LEMMA RowSteps ==
  ASSUME IInv, NEW l \in DOMAIN logs, NEW row \in Log, NEW job \in Job, NEW n \in Nat,
         logs' = [logs EXCEPT ![l] = row], jobs' = [jobs EXCEPT ![l] = job],
         accepted' = [accepted EXCEPT ![l] = n],
         row.event = logs[l].event, row.status = "gone" <=> Gone(l),
         job.step = "none" <=> jobs[l].step = "none",
         UnchangedByWorker, receipts' \subseteq receipts \cup {l},
         Told(row, job, n), faults' = 0 => Calm(row, job, n)
  PROVE  IInv'
<1>1. RowMoves(l, row, job, n)
  BY DEF RowMoves
<1>2. faults' \in faults..MaxFaults /\ token' \in [Token -> {"absent", "active", "voided"}]
  BY Bounds DEF IInv, TypeOK, UnchangedByWorker
<1> QED BY <1>1, <1>2, RowMovesIsSound DEF UnchangedByWorker

\* The row, its job and how often it was taken.
LEMMA RowNow ==
  ASSUME IInv, NEW l \in DOMAIN logs
  PROVE  /\ logs[l] \in Log /\ jobs[l] \in Job /\ accepted[l] \in Nat
         /\ Told(logs[l], jobs[l], accepted[l])
         /\ faults = 0 => Calm(logs[l], jobs[l], accepted[l])
         /\ logs = [logs EXCEPT ![l] = logs[l]]
         /\ jobs = [jobs EXCEPT ![l] = jobs[l]]
         /\ accepted = [accepted EXCEPT ![l] = accepted[l]]
<1>1. TypeOK /\ RowsAreTold
  BY DEF IInv
<1>2. logs = [i \in 1..Len(logs) |-> logs[i]] /\ jobs = [i \in 1..Len(jobs) |-> jobs[i]]
  BY <1>1 DEF TypeOK
<1>3. accepted = [i \in DOMAIN logs |-> accepted[i]]
  BY <1>1 DEF TypeOK
<1> QED BY <1>1, <1>2, <1>3, OneLength DEF RowsAreTold

\* What an attempt that fails makes of its job.
FailedAttempt(job) ==
  [made |-> job.made + 1, step |-> IF job.made + 1 < Attempts THEN "waiting" ELSE "exhausted"]

LEMMA FailedIsJob ==
  ASSUME NEW job \in Job
  PROVE  /\ FailedAttempt(job) \in Job
         /\ FailedAttempt(job).step \in {"waiting", "exhausted"}
  BY DEF FailedAttempt, Job

Steps == {"none", "waiting", "started", "resolved", "accepted", "sent", "caught",
          "exhausted", "done", "failed"}
Statuses == {"PENDING", "QUEUED", "SENT", "FAILED", "SKIPPED", "gone"}

LEMMA StepsAndStatuses ==
  ASSUME IInv, NEW l \in DOMAIN logs
  PROVE  /\ \A step \in Steps : /\ [jobs[l] EXCEPT !.step = step] \in Job
                                /\ [jobs[l] EXCEPT !.step = step].step = step
                                /\ [jobs[l] EXCEPT !.step = step].made = jobs[l].made
         /\ \A word \in Statuses : /\ [logs[l] EXCEPT !.status = word] \in Log
                                   /\ [logs[l] EXCEPT !.status = word].status = word
                                   /\ [logs[l] EXCEPT !.status = word].event = logs[l].event
<1>1. jobs[l] \in Job /\ logs[l] \in Log
  BY RowNow
<1> QED BY <1>1 DEF Job, Log, Steps, Statuses

LEMMA SentIsLog ==
  ASSUME NEW row \in Log, NEW n \in Nat
  PROVE  /\ [row EXCEPT !.status = "SENT", !.attempts = n] \in Log
         /\ [row EXCEPT !.status = "SENT", !.attempts = n].status = "SENT"
         /\ [row EXCEPT !.status = "SENT", !.attempts = n].event = row.event
  BY DEF Log

LEMMA StartIsSound ==
  ASSUME IInv, NEW l \in DOMAIN logs, Start(l) PROVE IInv'
<1>1. CASE jobs[l].made = 0 /\ Gone(l)
  <2>1. jobs' = [jobs EXCEPT ![l] = FailedAttempt(jobs[l])] /\ logs' = logs
    BY <1>1 DEF Start, AttemptFails, FailedAttempt
  <2>2. Told(logs[l], FailedAttempt(jobs[l]), accepted[l])
    BY RowNow, FailedIsJob DEF Told
  <2>3. faults = 0 => Calm(logs[l], FailedAttempt(jobs[l]), accepted[l])
    BY <1>1, RowNow, FailedIsJob DEF Calm, Gone
  <2> QED BY <2>1, <2>2, <2>3, RowNow, FailedIsJob, RowSteps
          DEF Start, At, Gone, UnchangedByWorker
<1>2. CASE jobs[l].made # 0
  <2> DEFINE job == [jobs[l] EXCEPT !.step = "started"]
  <2>1. jobs' = [jobs EXCEPT ![l] = job] /\ logs' = logs
    BY <1>2 DEF Start, Goto
  <2>2. job \in Job /\ job.step = "started"
    BY StepsAndStatuses DEF Steps
  <2> HIDE DEF job
  <2>3. Told(logs[l], job, accepted[l]) /\ (faults = 0 => Calm(logs[l], job, accepted[l]))
    BY <2>2, RowNow DEF Told, Calm, Start, At, Gone
  <2> QED BY <2>1, <2>2, <2>3, RowNow, RowSteps DEF Start, At, Gone, UnchangedByWorker
<1>3. CASE jobs[l].made = 0 /\ ~Gone(l)
  <2> DEFINE job == [jobs[l] EXCEPT !.step = "started"]
             row == [logs[l] EXCEPT !.status = "QUEUED"]
  <2>1. jobs' = [jobs EXCEPT ![l] = job] /\ logs' = [logs EXCEPT ![l] = row]
    BY <1>3 DEF Start, Goto, SetStatus
  <2>2. job \in Job /\ job.step = "started" /\ row \in Log /\ row.status = "QUEUED"
        /\ row.event = logs[l].event
    BY StepsAndStatuses DEF Steps, Statuses
  <2> HIDE DEF job, row
  <2>3. Told(row, job, accepted[l]) /\ (faults = 0 => Calm(row, job, accepted[l]))
    BY <1>3, <2>2, RowNow DEF Told, Calm, Start, At, Gone
  <2> QED BY <1>3, <2>1, <2>2, <2>3, RowNow, RowSteps DEF Start, At, Gone, UnchangedByWorker
<1> QED BY <1>1, <1>2, <1>3

LEMMA ResolveIsSound ==
  ASSUME IInv, NEW l \in DOMAIN logs, Resolve(l) PROVE IInv'
<1>1. ASSUME NEW step \in {"caught", "resolved"}, step = "resolved" => ~Gone(l),
             Goto(l, step), UNCHANGED logs
      PROVE  IInv'
  <2> DEFINE job == [jobs[l] EXCEPT !.step = step]
  <2>1. jobs' = [jobs EXCEPT ![l] = job]
    BY <1>1 DEF Goto
  <2>2. job \in Job /\ job.step = step
    <3>1. step \in Steps
      BY DEF Steps
    <3> QED BY <3>1, StepsAndStatuses
  <2> HIDE DEF job
  <2>3. Told(logs[l], job, accepted[l]) /\ (faults = 0 => Calm(logs[l], job, accepted[l]))
    BY <1>1, <2>2, RowNow DEF Told, Calm, Resolve, At, Gone
  <2> QED BY <1>1, <2>1, <2>2, <2>3, RowNow, RowSteps
             DEF Resolve, At, Gone, UnchangedByWorker
<1>2. CASE Goto(l, "done") /\ SetStatus(l, "SKIPPED") /\ ~Gone(l)
  <2> DEFINE job == [jobs[l] EXCEPT !.step = "done"]
             row == [logs[l] EXCEPT !.status = "SKIPPED"]
  <2>1. jobs' = [jobs EXCEPT ![l] = job] /\ logs' = [logs EXCEPT ![l] = row]
    BY <1>2 DEF Goto, SetStatus
  <2>2. job \in Job /\ job.step = "done" /\ row \in Log /\ row.status = "SKIPPED"
        /\ row.event = logs[l].event
    BY StepsAndStatuses DEF Steps, Statuses
  <2> HIDE DEF job, row
  <2>3. Told(row, job, accepted[l]) /\ (faults = 0 => Calm(row, job, accepted[l]))
    BY <1>2, <2>2, RowNow DEF Told, Calm, Resolve, At, Gone
  <2> QED BY <1>2, <2>1, <2>2, <2>3, RowNow, RowSteps
             DEF Resolve, At, Gone, UnchangedByWorker
<1>3. \/ Goto(l, "caught") /\ UNCHANGED logs
      \/ Goto(l, "resolved") /\ UNCHANGED logs /\ ~Gone(l)
      \/ Goto(l, "done") /\ SetStatus(l, "SKIPPED") /\ ~Gone(l)
  BY DEF Resolve
<1> QED BY <1>1, <1>2, <1>3

LEMMA SendIsSound ==
  ASSUME IInv, NEW l \in DOMAIN logs, NEW ticket, Send(l, ticket) PROVE IInv'
<1>1. /\ At(l, "resolved")
      /\ UNCHANGED <<template, device, dispatch, events, logs, receipts, edits, faults>>
  BY DEF Send
<1>2. token' \in [Token -> {"absent", "active", "voided"}]
  BY DEF IInv, TypeOK, Send
<1>3. faults \in Nat /\ faults \in faults..MaxFaults
  BY Bounds DEF IInv, TypeOK
<1>4. ASSUME NEW step \in {"accepted", "caught"}, NEW n \in Nat, Goto(l, step),
             accepted' = [accepted EXCEPT ![l] = n],
             n = IF step = "accepted" THEN accepted[l] + 1 ELSE accepted[l]
      PROVE  IInv'
  <2> DEFINE job == [jobs[l] EXCEPT !.step = step]
  <2>1. jobs' = [jobs EXCEPT ![l] = job]
    BY <1>4 DEF Goto
  <2>2. job \in Job /\ job.step = step
    <3>1. step \in Steps
      BY DEF Steps
    <3> QED BY <3>1, StepsAndStatuses
  <2> HIDE DEF job
  <2>3. Told(logs[l], job, n) /\ (faults = 0 => Calm(logs[l], job, n))
    BY <1>1, <1>4, <2>2, RowNow DEF Told, Calm, At
  <2>4. RowMoves(l, logs[l], job, n)
    BY <1>1, <1>4, <2>1, <2>2, RowNow DEF RowMoves, Gone, At
  <2> QED BY <1>1, <1>2, <1>3, <2>3, <2>4, RowMovesIsSound
<1>5. \/ Goto(l, "accepted") /\ accepted' = [accepted EXCEPT ![l] = @ + 1]
      \/ Goto(l, "caught") /\ accepted' = accepted
  BY DEF Send
<1>6. /\ accepted[l] \in Nat /\ accepted[l] + 1 \in Nat
      /\ accepted = [accepted EXCEPT ![l] = accepted[l]]
  BY RowNow
<1> QED BY <1>4, <1>5, <1>6

LEMMA WriteSentIsSound ==
  ASSUME IInv, NEW l \in DOMAIN logs, WriteSent(l) PROVE IInv'
<1>1. CASE Gone(l)
  <2> DEFINE job == [jobs[l] EXCEPT !.step = "caught"]
  <2>1. jobs' = [jobs EXCEPT ![l] = job] /\ logs' = logs
    BY <1>1 DEF WriteSent, Goto
  <2>2. job \in Job /\ job.step = "caught"
    BY StepsAndStatuses DEF Steps
  <2> HIDE DEF job
  <2>3. Told(logs[l], job, accepted[l]) /\ (faults = 0 => Calm(logs[l], job, accepted[l]))
    BY <1>1, <2>2, RowNow DEF Told, Calm, WriteSent, At, Gone
  <2> QED BY <1>1, <2>1, <2>2, <2>3, RowNow, RowSteps
             DEF WriteSent, At, Gone, UnchangedByWorker
<1>2. CASE ~Gone(l)
  <2>1. PICK step \in {"sent", "done"} : Goto(l, step)
    BY <1>2 DEF WriteSent
  <2> DEFINE job == [jobs[l] EXCEPT !.step = step]
             row == [logs[l] EXCEPT !.status = "SENT", !.attempts = jobs[l].made + 1]
  <2>2. jobs' = [jobs EXCEPT ![l] = job] /\ logs' = [logs EXCEPT ![l] = row]
    BY <1>2, <2>1 DEF WriteSent, Goto
  <2>3. job \in Job /\ job.step = step
    <3>1. step \in Steps
      BY DEF Steps
    <3> QED BY <3>1, StepsAndStatuses
  <2>4. jobs[l].made + 1 \in Nat /\ logs[l] \in Log
    BY RowNow DEF Job
  <2>5. row \in Log /\ row.status = "SENT" /\ row.event = logs[l].event
    BY <2>4, SentIsLog
  <2> HIDE DEF job, row
  <2>6. Told(row, job, accepted[l]) /\ (faults = 0 => Calm(row, job, accepted[l]))
    BY <2>3, <2>5, RowNow DEF Told, Calm, WriteSent, At
  <2> QED BY <1>2, <2>2, <2>3, <2>5, <2>6, RowNow, RowSteps
          DEF WriteSent, At, Gone, UnchangedByWorker
<1> QED BY <1>1, <1>2

LEMMA ReceiptScheduled ==
  ASSUME IInv, NEW l \in DOMAIN logs, ScheduleReceipt(l) PROVE IInv'
<1> DEFINE job == [jobs[l] EXCEPT !.step = "done"]
<1>1. jobs' = [jobs EXCEPT ![l] = job] /\ logs' = logs
  BY DEF ScheduleReceipt, Goto
<1>2. job \in Job /\ job.step = "done"
  BY StepsAndStatuses DEF Steps
<1> HIDE DEF job
<1>3. Told(logs[l], job, accepted[l]) /\ (faults = 0 => Calm(logs[l], job, accepted[l]))
  BY <1>2, RowNow DEF Told, Calm, ScheduleReceipt, At
<1> QED BY <1>1, <1>2, <1>3, RowNow, RowSteps DEF ScheduleReceipt, At, Gone,
           UnchangedByWorker

LEMMA ReceiptRefusedIsSound ==
  ASSUME IInv, NEW l \in DOMAIN logs, ReceiptRefused(l) PROVE IInv'
<1> DEFINE job == [jobs[l] EXCEPT !.step = "caught"]
<1>1. jobs' = [jobs EXCEPT ![l] = job]
      /\ UNCHANGED <<template, token, device, dispatch, events, logs, receipts, accepted, edits>>
  BY DEF ReceiptRefused, Goto
<1>2. job \in Job /\ job.step = "caught"
  BY StepsAndStatuses DEF Steps
<1> HIDE DEF job
<1>3. Told(logs[l], job, accepted[l])
  BY <1>2, RowNow DEF Told
<1>4. faults' \in faults..MaxFaults /\ faults' # 0
  BY Bounds DEF IInv, TypeOK, ReceiptRefused
<1>5. RowMoves(l, logs[l], job, accepted[l])
  BY <1>1, <1>2, RowNow DEF RowMoves, Gone, ReceiptRefused, At
<1>6. token' \in [Token -> {"absent", "active", "voided"}]
  BY <1>1 DEF IInv, TypeOK
<1> QED BY <1>1, <1>3, <1>4, <1>5, <1>6, RowMovesIsSound

LEMMA CatchIsSound ==
  ASSUME IInv, NEW l \in DOMAIN logs, Catch(l) PROVE IInv'
<1> DEFINE row == IF Gone(l) THEN logs[l] ELSE [logs[l] EXCEPT !.attempts = jobs[l].made + 1]
<1>1. jobs' = [jobs EXCEPT ![l] = FailedAttempt(jobs[l])] /\ logs' = [logs EXCEPT ![l] = row]
  BY RowNow DEF Catch, AttemptFails, FailedAttempt
<1>2. jobs[l].made \in Nat /\ logs[l] \in Log /\ jobs[l] \in Job
  BY RowNow DEF Job
<1>3. row \in Log /\ row.status = logs[l].status /\ row.event = logs[l].event
  BY <1>2 DEF Log
<1>4. /\ FailedAttempt(jobs[l]) \in Job
      /\ FailedAttempt(jobs[l]).step \in {"waiting", "exhausted"}
  BY <1>2, FailedIsJob
<1> HIDE DEF row
<1>5. /\ Told(row, FailedAttempt(jobs[l]), accepted[l])
      /\ faults = 0 => Calm(row, FailedAttempt(jobs[l]), accepted[l])
  BY <1>3, <1>4, RowNow DEF Told, Calm, Catch, At, Gone
<1>6. /\ accepted' = [accepted EXCEPT ![l] = accepted[l]] /\ faults' = faults
      /\ UnchangedByWorker /\ receipts' \subseteq receipts \cup {l}
      /\ row.status = "gone" <=> Gone(l)
      /\ FailedAttempt(jobs[l]).step = "none" <=> jobs[l].step = "none"
  BY <1>3, <1>4, RowNow DEF Catch, At, Gone, UnchangedByWorker
<1>7. accepted[l] \in Nat
  BY RowNow
<1> QED BY <1>1, <1>3, <1>4, <1>5, <1>6, <1>7, RowSteps

LEMMA OnFailedIsSound ==
  ASSUME IInv, NEW l \in DOMAIN logs, OnFailed(l) PROVE IInv'
<1> DEFINE job == [jobs[l] EXCEPT !.step = "failed"]
           row == IF Gone(l) THEN logs[l] ELSE [logs[l] EXCEPT !.status = "FAILED"]
<1>1. jobs' = [jobs EXCEPT ![l] = job] /\ logs' = [logs EXCEPT ![l] = row]
  BY RowNow DEF OnFailed, Goto, SetStatus
<1>2. job \in Job /\ job.step = "failed"
  BY StepsAndStatuses DEF Steps
<1>3. /\ row \in Log /\ row.status = (IF Gone(l) THEN "gone" ELSE "FAILED")
      /\ row.event = logs[l].event
  BY StepsAndStatuses, RowNow DEF Statuses, Gone
<1> HIDE DEF job, row
<1>4. Told(row, job, accepted[l]) /\ (faults = 0 => Calm(row, job, accepted[l]))
  BY <1>2, <1>3, RowNow DEF Told, Calm, OnFailed, At, Gone
<1> QED BY <1>1, <1>2, <1>3, <1>4, RowNow, RowSteps
           DEF OnFailed, At, Gone, UnchangedByWorker

\* A receipt may fail a row whose message was taken, and its token with it.
LEMMA CheckReceiptIsSound ==
  ASSUME IInv, NEW l \in DOMAIN logs, NEW receipt, CheckReceipt(l, receipt) PROVE IInv'
<1>1. PICK row : /\ logs' = [logs EXCEPT ![l] = row]
                 /\ row = logs[l] \/ (~Gone(l) /\ row = [logs[l] EXCEPT !.status = "FAILED"])
  BY RowNow DEF CheckReceipt, SetStatus
<1>2. /\ row \in Log /\ row.event = logs[l].event /\ (row.status = "gone" <=> Gone(l))
      /\ row.status = logs[l].status \/ (row.status = "FAILED" /\ logs[l].status # "gone")
  <2>1. CASE row = logs[l] BY <2>1, RowNow DEF Gone
  <2>2. CASE ~Gone(l) /\ row = [logs[l] EXCEPT !.status = "FAILED"]
    <3>1. row \in Log /\ row.status = "FAILED" /\ row.event = logs[l].event
      BY <2>2, StepsAndStatuses DEF Statuses
    <3> QED BY <2>2, <3>1 DEF Gone
  <2> QED BY <1>1, <2>1, <2>2
<1>3. /\ UNCHANGED <<template, device, dispatch, events, jobs, accepted, edits, faults>>
      /\ receipts' \subseteq receipts
  BY DEF CheckReceipt
<1>4. token' \in [Token -> {"absent", "active", "voided"}]
  BY DEF IInv, TypeOK, CheckReceipt
<1>5. faults' \in faults..MaxFaults
  BY <1>3, Bounds DEF IInv, TypeOK
<1>6. RowMoves(l, row, jobs[l], accepted[l])
  BY <1>1, <1>2, <1>3, RowNow DEF RowMoves
<1>7. Told(row, jobs[l], accepted[l]) /\ (faults = 0 => Calm(row, jobs[l], accepted[l]))
  BY <1>2, RowNow DEF Told, Calm
<1> QED BY <1>3, <1>4, <1>5, <1>6, <1>7, RowMovesIsSound

-----------------------------------------------------------------------------
(* Steps of many rows *)

\* The rows stay as many as they are, with their events; statuses may become "gone".
LEMMA TablesMove ==
  ASSUME IInv,
         logs' \in Seq(Log), DOMAIN logs' = DOMAIN logs,
         jobs' \in Seq(Job), DOMAIN jobs' = DOMAIN jobs, accepted' = accepted
  PROVE  Len(logs') = Len(jobs') /\ accepted' \in [DOMAIN logs' -> Nat]
<1>1. TypeOK
  BY DEF IInv
<1>2. /\ Len(logs) \in Nat /\ Len(logs') \in Nat /\ Len(jobs') \in Nat
      /\ 1..Len(logs') = 1..Len(logs) /\ 1..Len(jobs') = 1..Len(logs)
  BY <1>1, OneLength, LenProperties
<1> QED BY <1>1, <1>2, SameLength DEF TypeOK

LEMMA CrashIsSound ==
  ASSUME IInv, Crash PROVE IInv'
<1>0. TypeOK
  BY DEF IInv
<1>1. /\ faults' = faults + 1 /\ faults \in 0..MaxFaults /\ faults < MaxFaults
      /\ dispatch' = NoDispatch
      /\ UNCHANGED <<template, token, device, events, logs, receipts, accepted, edits>>
  BY <1>0 DEF Crash, TypeOK
<1>2. faults' \in 0..MaxFaults /\ faults' # 0
  BY <1>1, Bounds
<1>3. /\ DOMAIN jobs' = DOMAIN jobs
      /\ \A l \in DOMAIN logs : /\ jobs'[l] \in Job
                                /\ jobs'[l].step \notin {"accepted", "sent"}
                                /\ jobs'[l].step = "none" <=> jobs[l].step = "none"
  <2> SUFFICES ASSUME NEW l \in DOMAIN logs
               PROVE  /\ jobs'[l] \in Job
                      /\ jobs'[l].step \notin {"accepted", "sent"}
                      /\ jobs'[l].step = "none" <=> jobs[l].step = "none"
    BY <1>0, OneLength DEF Crash
  <2>1. l \in DOMAIN jobs
    BY <1>0, OneLength
  <2>2. PICK step \in {"failed", "waiting", "none", "done"} :
          /\ \/ jobs'[l] = [jobs[l] EXCEPT !.step = step]
             \/ jobs'[l] = jobs[l] /\ jobs[l].step = step
          /\ step = "none" <=> jobs[l].step = "none"
    BY <2>1 DEF Crash
  <2>3. /\ [jobs[l] EXCEPT !.step = step] \in Job
        /\ [jobs[l] EXCEPT !.step = step].step = step
    <3>1. step \in Steps
      BY DEF Steps
    <3> QED BY <3>1, StepsAndStatuses
  <2> QED BY <2>2, <2>3, RowNow
<1>4. jobs' \in Seq(Job)
  <2>1. jobs' = [l \in 1..Len(jobs) |-> jobs'[l]]
    <3>1. jobs' = [l \in DOMAIN jobs |-> jobs'[l]]
      BY DEF Crash
    <3>2. DOMAIN jobs = 1..Len(jobs)
      BY <1>0 DEF TypeOK
    <3> QED BY <3>1, <3>2
  <2>2. \A l \in 1..Len(jobs) : jobs'[l] \in Job
    <3>1. 1..Len(jobs) = DOMAIN logs
      BY <1>0, OneLength DEF TypeOK
    <3> QED BY <1>3, <3>1, Zenon
  <2>3. Len(jobs) \in Nat
    BY <1>0 DEF TypeOK
  <2> QED BY <2>1, <2>2, <2>3, IsASeq
<1>5. TypeOK'
  BY <1>0, <1>1, <1>2, <1>3, <1>4, TablesMove, NoDispatchIsDispatch
  DEF TypeOK, DispatchRecord
<1>6. RowsHaveEvents' /\ DispatchIsNew'
  BY <1>1, NoDispatchIsDispatch DEF IInv, RowsHaveEvents, DispatchIsNew
<1>7. RowsAreTold'
  <2> SUFFICES ASSUME NEW l \in DOMAIN logs PROVE Told(logs[l], jobs'[l], accepted[l])
    BY <1>1, <1>2 DEF RowsAreTold
  <2>1. Told(logs[l], jobs[l], accepted[l])
    BY DEF IInv, RowsAreTold
  <2>2. PICK job : job = jobs'[l]
    OBVIOUS
  <2>4. jobs'[l].step \notin {"accepted", "sent"}
    BY <1>3
  <2>5. jobs'[l].step = "none" => jobs[l].step = "none"
    BY <1>3, Zenon
  <2>3. job.step \notin {"accepted", "sent"} /\ (job.step = "none" => jobs[l].step = "none")
    BY <2>2, <2>4, <2>5
  <2> QED BY <2>1, <2>2, <2>3 DEF Told
<1> QED BY <1>5, <1>6, <1>7 DEF IInv

\* The inbox: rows may go, with their event.
LEMMA RemoveEventIsSound ==
  ASSUME IInv, NEW e \in DOMAIN events, NEW purge \in BOOLEAN, RemoveEvent(e, purge)
  PROVE  IInv'
<1>0. TypeOK
  BY DEF IInv
<1>1. /\ UNCHANGED <<dispatch, jobs, receipts, accepted, faults, template, token, device>>
      /\ edits' \in 0..MaxEdits
  BY <1>0, Bounds DEF RemoveEvent, UnchangedByInbox, Edited, TypeOK
<1>2. /\ events' \in Seq(EventRow) /\ DOMAIN events' = DOMAIN events
      /\ \A i \in DOMAIN events :
           /\ i # e => events'[i] = events[i]
           /\ i = e /\ purge => events'[i].state = "gone"
           /\ events[i].state = "gone" => events'[i].state = "gone"
  <2> DEFINE state == IF purge THEN "gone" ELSE "voided"
             row == [events[e] EXCEPT !.state = state]
  <2>0. events \in Seq(EventRow)
    BY <1>0 DEF TypeOK, EventRow
  <2>1. events \in Seq(EventRow) /\ events[e] \in EventRow
    BY <2>0
  <2>4. state \in {"kept", "voided", "gone"} /\ (purge => state = "gone")
    OBVIOUS
  <2>2. row \in EventRow /\ (purge => row.state = "gone")
    <3> HIDE DEF state
    <3> QED BY <2>1, <2>4 DEF EventRow
  <2>3. events' = [events EXCEPT ![e] = row] /\ events[e].state # "gone"
    BY DEF RemoveEvent
  <2> HIDE DEF row
  <2> QED BY <2>1, <2>2, <2>3, UpdateInSeq
<1>3. /\ DOMAIN logs' = DOMAIN logs
      /\ \A l \in DOMAIN logs :
           /\ logs'[l] \in Log /\ logs'[l].event = logs[l].event
           /\ \/ logs'[l] = logs[l]
              \/ logs'[l].status = "gone" /\ purge /\ logs[l].event = e
  <2>1. logs' = [l \in DOMAIN logs |-> IF purge /\ logs[l].event = e
                 THEN [logs[l] EXCEPT !.status = "gone"] ELSE logs[l]]
    BY DEF RemoveEvent
  <2>2. \A l \in DOMAIN logs : /\ [logs[l] EXCEPT !.status = "gone"] \in Log
                               /\ [logs[l] EXCEPT !.status = "gone"].status = "gone"
                               /\ [logs[l] EXCEPT !.status = "gone"].event = logs[l].event
    BY StepsAndStatuses DEF Statuses
  <2> QED BY <2>1, <2>2, RowNow
<1>4. logs' \in Seq(Log)
  <2>1. logs' = [l \in 1..Len(logs) |-> logs'[l]] /\ Len(logs) \in Nat
    BY <1>0, OneLength DEF RemoveEvent
  <2>2. \A l \in 1..Len(logs) : logs'[l] \in Log
    BY <1>0, <1>3, OneLength
  <2> QED BY <2>1, <2>2, IsASeq
<1>5. TypeOK'
  BY <1>0, <1>1, <1>2, <1>3, <1>4, TablesMove DEF TypeOK, EventRow
<1>6. RowsHaveEvents'
  BY <1>2, <1>3 DEF IInv, RowsHaveEvents
<1>7. DispatchIsNew'
  BY <1>1, <1>2, <1>3 DEF IInv, DispatchIsNew
<1>8. RowsAreTold'
  <2> SUFFICES ASSUME NEW l \in DOMAIN logs
               PROVE  /\ Told(logs'[l], jobs[l], accepted[l])
                      /\ faults = 0 => Calm(logs'[l], jobs[l], accepted[l])
    BY <1>1, <1>3 DEF RowsAreTold
  <2>1. /\ Told(logs[l], jobs[l], accepted[l])
        /\ faults = 0 => Calm(logs[l], jobs[l], accepted[l])
    BY DEF IInv, RowsAreTold
  <2> QED BY <1>3, <2>1 DEF Told, Calm
<1> QED BY <1>5, <1>6, <1>7, <1>8 DEF IInv

\* Whatever leaves the rows alone and no event behind.
LEMMA RowsStand ==
  ASSUME IInv, UNCHANGED <<logs, jobs, receipts, accepted>>,
         template' \in Templates, token' \in [Token -> {"absent", "active", "voided"}],
         device' \in [Token -> {"alive", "dead"}], dispatch' \in DispatchRecord,
         events' \in Seq(EventRow), edits' \in 0..MaxEdits, faults' = faults,
         DOMAIN events \subseteq DOMAIN events',
         \A e \in DOMAIN events : events[e].state = "gone" => events'[e].state = "gone",
         dispatch'.rows \subseteq dispatch.rows,
         dispatch'.step = "insert" => dispatch'.event \in DOMAIN events'
  PROVE  IInv'
<1>1. TypeOK'
  BY DEF IInv, TypeOK, EventRow, DispatchRecord
<1>2. RowsHaveEvents' /\ DispatchIsNew' /\ RowsAreTold'
  BY DEF IInv, RowsHaveEvents, DispatchIsNew, RowsAreTold
<1> QED BY <1>1, <1>2 DEF IInv

LEMMA UserIsSound ==
  ASSUME IInv, User PROVE IInv'
<1>0. /\ TypeOK /\ events \in Seq(EventRow) /\ dispatch \in DispatchRecord
      /\ dispatch.step = "insert" => dispatch.event \in DOMAIN events
  BY DEF IInv, TypeOK, EventRow, DispatchRecord, DispatchIsNew
<1>1. ASSUME NEW e \in DOMAIN events, MarkRead(e) \/ RestoreEvent(e) PROVE IInv'
  <2>1. PICK row \in EventRow : events' = [events EXCEPT ![e] = row] /\ events[e].state # "gone"
    <3>1. events[e] \in EventRow
      BY <1>0
    <3>2. /\ [events[e] EXCEPT !.read = TRUE] \in EventRow
          /\ [events[e] EXCEPT !.state = "kept"] \in EventRow
      BY <3>1 DEF EventRow
    <3> QED BY <1>1, <3>2 DEF MarkRead, RestoreEvent
  <2>2. /\ events' \in Seq(EventRow) /\ DOMAIN events' = DOMAIN events
        /\ \A i \in DOMAIN events : events[i].state = "gone" => events'[i].state = "gone"
    BY <1>0, <2>1, UpdateInSeq
  <2>3. /\ UNCHANGED <<logs, jobs, receipts, accepted, dispatch, faults, template, token,
                       device>>
        /\ edits' \in 0..MaxEdits
    BY <1>0, <1>1, Bounds DEF MarkRead, RestoreEvent, UnchangedByInbox, Edited, TypeOK
  <2> QED BY <1>0, <2>2, <2>3, RowsStand DEF TypeOK
<1>2. ASSUME UnchangedByToken, template' \in Templates,
             token' \in [Token -> {"absent", "active", "voided"}],
             device' \in [Token -> {"alive", "dead"}]
      PROVE  IInv'
  <2>1. /\ UNCHANGED <<logs, jobs, receipts, accepted, dispatch, events, faults>>
        /\ edits' \in 0..MaxEdits
    BY <1>0, <1>2, Bounds DEF UnchangedByToken, Edited, TypeOK
  <2> QED BY <1>0, <1>2, <2>1, RowsStand
<1>3. ASSUME NEW t \in Token,
             \/ SetPushToken(t) \/ RestorePushToken(t)
             \/ \E purge \in BOOLEAN : RemovePushToken(t, purge)
      PROVE  IInv'
  <2>1. UnchangedByToken /\ UNCHANGED <<template, device>>
    BY <1>3 DEF SetPushToken, RestorePushToken, RemovePushToken
  <2>2. \E v \in {"absent", "active", "voided"} : token' = [token EXCEPT ![t] = v]
    BY <1>0, <1>3 DEF SetPushToken, RestorePushToken, RemovePushToken, TypeOK
  <2> QED BY <1>0, <1>2, <2>1, <2>2 DEF TypeOK
<1>4. ASSUME NEW t \in Token, DeviceDies(t) PROVE IInv'
  BY <1>0, <1>2, <1>4 DEF DeviceDies, TypeOK
<1>5. ASSUME NEW new \in Templates, EditTemplate(new) PROVE IInv'
  BY <1>0, <1>2, <1>5 DEF EditTemplate, TypeOK
<1>6. ASSUME NEW e \in DOMAIN events, NEW purge \in BOOLEAN, RemoveEvent(e, purge) PROVE IInv'
  BY <1>6, RemoveEventIsSound
<1> QED BY <1>1, <1>3, <1>4, <1>5, <1>6 DEF User, EditPushTokens

-----------------------------------------------------------------------------
(* Dispatch *)

LEMMA TargetsAreFinite == IsFiniteSet(Target)
<1>1. IsFiniteSet({"EMAIL", "SMS", "PUSH"})
  <2>1. IsFiniteSet({"EMAIL"})
    BY FS_Singleton
  <2>2. IsFiniteSet({"EMAIL"} \cup {"SMS"})
    BY <2>1, FS_AddElement
  <2>3. IsFiniteSet(({"EMAIL"} \cup {"SMS"}) \cup {"PUSH"})
    BY <2>2, FS_AddElement
  <2>4. {"EMAIL", "SMS", "PUSH"} = ({"EMAIL"} \cup {"SMS"}) \cup {"PUSH"}
    OBVIOUS
  <2> QED BY <2>3, <2>4
<1>2. IsFiniteSet(Channel)
  BY <1>1, FS_Subset, NotificationsAssumption
<1>3. IsFiniteSet(Channel \ {"PUSH"})
  BY <1>2, FS_Subset
<1> QED BY <1>3, FS_Union, NotificationsAssumption DEF Target

\* What is listed of a finite set is in it.
LEMMA ListIsOfSet ==
  ASSUME NEW S, IsFiniteSet(S)
  PROVE  /\ Cardinality(S) \in Nat
         /\ \A i \in 1..Cardinality(S) : SetToSeq(S)[i] \in S
<1>1. Cardinality(S) \in Nat
  BY FS_CardinalityType
<1>2. \E f : ExistsBijection(1..Cardinality(S), S)
  BY FS_CardinalityType
<1>3. PICK f : f \in Bijection(1..Cardinality(S), S)
  BY <1>2 DEF ExistsBijection
<1>4. f \in [1..Cardinality(S) -> S] /\ IsInjective(f)
  BY <1>3 DEF Bijection, Injection, IsInjective
<1>5. SetToSeq(S) \in [1..Cardinality(S) -> S]
  BY <1>4 DEF SetToSeq
<1> QED BY <1>1, <1>5

\* A table with n rows more.
LEMMA JoinedRows ==
  ASSUME NEW T, NEW s \in Seq(T), NEW f \in Seq(T)
  PROVE  /\ s \o f \in Seq(T) /\ Len(s \o f) = Len(s) + Len(f)
         /\ Len(s) \in Nat /\ DOMAIN (s \o f) = 1..(Len(s) + Len(f))
         /\ \A i \in 1..Len(s) : (s \o f)[i] = s[i]
         /\ \A i \in (Len(s) + 1)..(Len(s) + Len(f)) : (s \o f)[i] = f[i - Len(s)]
<1>1. Len(s) \in Nat /\ Len(f) \in Nat
  BY LenProperties
<1>2. /\ s \o f \in Seq(T) /\ Len(s \o f) = Len(s) + Len(f)
      /\ \A i \in 1..(Len(s) + Len(f)) :
           (s \o f)[i] = IF i <= Len(s) THEN s[i] ELSE f[i - Len(s)]
  BY ConcatProperties
<1>3. DOMAIN (s \o f) = 1..(Len(s) + Len(f))
  BY <1>2, LenProperties
<1> QED BY <1>1, <1>2, <1>3

\* The rows of an event are written: those there were stay as they are.
LEMMA RowsAreWritten ==
  ASSUME TypeOK, NEW e \in Nat, NEW targets \in SUBSET Target, NewRows(e, targets)
  PROVE  LET n == Cardinality(targets) IN
         /\ n \in Nat /\ DOMAIN logs' = 1..(Len(logs) + n) /\ Len(logs) \in Nat
         /\ logs' \in Seq(Log) /\ jobs' \in Seq(Job) /\ Len(logs') = Len(jobs')
         /\ accepted' \in [DOMAIN logs' -> Nat]
         /\ DOMAIN logs \subseteq DOMAIN logs'
         /\ \A l \in DOMAIN logs :
              logs'[l] = logs[l] /\ jobs'[l] = jobs[l] /\ accepted'[l] = accepted[l]
         /\ \A l \in DOMAIN logs' \ DOMAIN logs :
              /\ logs'[l].event = e /\ logs'[l].status = "PENDING"
              /\ jobs'[l] = NoJob /\ accepted'[l] = 0
<1> DEFINE n == Cardinality(targets)
           rows == [i \in 1..n |-> NewLog(e, SetToSeq(targets)[i])]
           idle == [i \in 1..n |-> NoJob]
           none == [i \in 1..n |-> 0]
<1>1. n \in Nat /\ \A i \in 1..n : SetToSeq(targets)[i] \in targets
  BY TargetsAreFinite, FS_Subset, ListIsOfSet
<1>2. rows \in Seq(Log) /\ Len(rows) = n
  <2>1. rows \in [1..n -> Log]
    BY <1>1 DEF NewLog, Log
  <2> QED BY <1>1, <2>1, IsASeq
<1>3. NoJob \in Job /\ 0 \in Nat
  BY DEF NoJob, Job
<1>4. /\ idle \in Seq(Job) /\ Len(idle) = n /\ \A i \in 1..n : idle[i] = NoJob
      /\ none \in Seq(Nat) /\ Len(none) = n /\ \A i \in 1..n : none[i] = 0
  <2>1. idle \in [1..n -> Job] /\ none \in [1..n -> Nat]
    BY <1>3
  <2> QED BY <1>1, <2>1, IsASeq
<1>5. logs \in Seq(Log) /\ jobs \in Seq(Job) /\ Len(jobs) = Len(logs)
  BY DEF TypeOK
<1>6. Len(logs) \in Nat /\ DOMAIN logs = 1..Len(logs) /\ accepted \in [1..Len(logs) -> Nat]
  BY OneLength DEF TypeOK
<1>7. accepted \in Seq(Nat) /\ Len(accepted) = Len(logs)
  BY <1>6, IsASeq
<1>8. logs' = logs \o rows /\ jobs' = jobs \o idle /\ accepted' = accepted \o none
  BY DEF NewRows
<1>9. \A i \in 1..n : rows[i].event = e /\ rows[i].status = "PENDING"
  BY DEF NewLog
<1> HIDE DEF n, rows, idle, none
<1>10. \A i \in (Len(logs) + 1)..(Len(logs) + n) : i - Len(logs) \in 1..n
  BY <1>1, <1>6
<1>11. /\ logs' \in Seq(Log) /\ Len(logs') = Len(logs) + n
       /\ DOMAIN logs' = 1..(Len(logs) + n)
       /\ \A i \in 1..Len(logs) : logs'[i] = logs[i]
       /\ \A i \in (Len(logs) + 1)..(Len(logs) + n) : logs'[i] = rows[i - Len(logs)]
  <2>1. /\ logs \o rows \in Seq(Log) /\ Len(logs \o rows) = Len(logs) + Len(rows)
        /\ Len(logs) \in Nat /\ DOMAIN (logs \o rows) = 1..(Len(logs) + Len(rows))
        /\ \A i \in 1..Len(logs) : (logs \o rows)[i] = logs[i]
        /\ \A i \in (Len(logs) + 1)..(Len(logs) + Len(rows)) :
             (logs \o rows)[i] = rows[i - Len(logs)]
    BY <1>2, <1>5, JoinedRows
  <2> QED BY <1>2, <1>8, <2>1
<1>12. /\ jobs' \in Seq(Job) /\ Len(jobs') = Len(logs) + n
       /\ \A i \in 1..Len(logs) : jobs'[i] = jobs[i]
       /\ \A i \in (Len(logs) + 1)..(Len(logs) + n) : jobs'[i] = NoJob
  <2>1. /\ jobs \o idle \in Seq(Job) /\ Len(jobs \o idle) = Len(jobs) + Len(idle)
        /\ Len(jobs) \in Nat /\ DOMAIN (jobs \o idle) = 1..(Len(jobs) + Len(idle))
        /\ \A i \in 1..Len(jobs) : (jobs \o idle)[i] = jobs[i]
        /\ \A i \in (Len(jobs) + 1)..(Len(jobs) + Len(idle)) :
             (jobs \o idle)[i] = idle[i - Len(jobs)]
    BY <1>4, <1>5, JoinedRows
  <2> QED BY <1>4, <1>5, <1>8, <1>10, <2>1
<1>13. /\ accepted' \in Seq(Nat) /\ Len(accepted') = Len(logs) + n
       /\ DOMAIN accepted' = 1..(Len(logs) + n)
       /\ \A i \in 1..Len(logs) : accepted'[i] = accepted[i]
       /\ \A i \in (Len(logs) + 1)..(Len(logs) + n) : accepted'[i] = 0
  <2>1. /\ accepted \o none \in Seq(Nat) /\ Len(accepted \o none) = Len(accepted) + Len(none)
        /\ Len(accepted) \in Nat /\ DOMAIN (accepted \o none) = 1..(Len(accepted) + Len(none))
        /\ \A i \in 1..Len(accepted) : (accepted \o none)[i] = accepted[i]
        /\ \A i \in (Len(accepted) + 1)..(Len(accepted) + Len(none)) :
             (accepted \o none)[i] = none[i - Len(accepted)]
    <3>1. PICK counts, zeros : counts = accepted /\ zeros = none
      OBVIOUS
    <3>2. counts \in Seq(Nat) /\ zeros \in Seq(Nat)
      BY <1>4, <1>7, <3>1
    <3>3. /\ counts \o zeros \in Seq(Nat) /\ Len(counts \o zeros) = Len(counts) + Len(zeros)
          /\ Len(counts) \in Nat /\ DOMAIN (counts \o zeros) = 1..(Len(counts) + Len(zeros))
          /\ \A i \in 1..Len(counts) : (counts \o zeros)[i] = counts[i]
          /\ \A i \in (Len(counts) + 1)..(Len(counts) + Len(zeros)) :
               (counts \o zeros)[i] = zeros[i - Len(counts)]
      BY <3>2, JoinedRows
    <3> QED BY <3>1, <3>3
  <2> QED BY <1>4, <1>7, <1>8, <1>10, <2>1
<1>14. accepted' \in [DOMAIN logs' -> Nat]
  BY <1>11, <1>13
<1>15. /\ DOMAIN logs \subseteq DOMAIN logs'
       /\ \A l \in DOMAIN logs' \ DOMAIN logs : l \in (Len(logs) + 1)..(Len(logs) + n)
  BY <1>1, <1>6, <1>11
<1>16. ASSUME NEW l \in DOMAIN logs' \ DOMAIN logs
       PROVE  /\ logs'[l].event = e /\ logs'[l].status = "PENDING"
              /\ jobs'[l] = NoJob /\ accepted'[l] = 0
  <2>1. l \in (Len(logs) + 1)..(Len(logs) + n) /\ l - Len(logs) \in 1..n
    BY <1>10, <1>15
  <2> QED BY <2>1, <1>9, <1>11, <1>12, <1>13
<1>17. /\ \A l \in DOMAIN logs :
            logs'[l] = logs[l] /\ jobs'[l] = jobs[l] /\ accepted'[l] = accepted[l]
       /\ Len(logs') = Len(jobs')
  BY <1>6, <1>11, <1>12, <1>13
<1> QED BY <1>1, <1>6, <1>11, <1>12, <1>14, <1>15, <1>16, <1>17 DEF n

LEMMA NewRowIsTold ==
  ASSUME NEW row, row.status = "PENDING"
  PROVE  Told(row, NoJob, 0) /\ Calm(row, NoJob, 0)
  BY DEF Told, Calm, NoJob

\* New rows of an event that is there, for a send that goes on with them.
LEMMA WrittenIsSound ==
  ASSUME IInv, NEW e \in DOMAIN events', NEW targets \in SUBSET Target, NewRows(e, targets),
         UNCHANGED <<template, token, device, receipts, edits, faults>>,
         events' \in Seq(EventRow), DOMAIN events \subseteq DOMAIN events',
         \A i \in DOMAIN events : events'[i] = events[i],
         dispatch' \in DispatchRecord,
         dispatch'.rows \subseteq dispatch.rows \cup (DOMAIN logs' \ DOMAIN logs),
         dispatch'.step = "insert" => dispatch'.event \in DOMAIN events'
  PROVE  IInv'
<1>0. TypeOK /\ e \in Nat
  BY LenProperties DEF IInv
<1>1. /\ logs' \in Seq(Log) /\ jobs' \in Seq(Job) /\ Len(logs') = Len(jobs')
      /\ accepted' \in [DOMAIN logs' -> Nat]
      /\ DOMAIN logs \subseteq DOMAIN logs'
      /\ \A l \in DOMAIN logs :
           logs'[l] = logs[l] /\ jobs'[l] = jobs[l] /\ accepted'[l] = accepted[l]
      /\ \A l \in DOMAIN logs' \ DOMAIN logs :
           /\ logs'[l].event = e /\ logs'[l].status = "PENDING"
           /\ jobs'[l] = NoJob /\ accepted'[l] = 0
  BY <1>0, RowsAreWritten
<1>2. TypeOK'
  BY <1>0, <1>1 DEF TypeOK, EventRow, DispatchRecord
<1>3. RowsHaveEvents'
  <2> SUFFICES ASSUME NEW l \in DOMAIN logs'
               PROVE  /\ logs'[l].event \in DOMAIN events'
                      /\ logs'[l].status = "gone" => events'[logs'[l].event].state = "gone"
    BY DEF RowsHaveEvents
  <2>1. CASE l \in DOMAIN logs
    BY <2>1, <1>1 DEF IInv, RowsHaveEvents
  <2>2. CASE l \notin DOMAIN logs
    BY <2>2, <1>1
  <2> QED BY <2>1, <2>2
<1>4. DispatchIsNew'
  <2>1. NoJob.step = "none"
    BY DEF NoJob
  <2> QED BY <1>1, <2>1 DEF IInv, DispatchIsNew
<1>5. RowsAreTold'
  <2> SUFFICES ASSUME NEW l \in DOMAIN logs'
               PROVE  /\ Told(logs'[l], jobs'[l], accepted'[l])
                      /\ faults = 0 => Calm(logs'[l], jobs'[l], accepted'[l])
    BY DEF RowsAreTold
  <2>1. CASE l \in DOMAIN logs
    BY <2>1, <1>1 DEF IInv, RowsAreTold
  <2>2. CASE l \notin DOMAIN logs
    BY <2>2, <1>1, NewRowIsTold
  <2> QED BY <2>1, <2>2
<1> QED BY <1>2, <1>3, <1>4, <1>5 DEF IInv

LEMMA EnqueueIsSound ==
  ASSUME IInv,
         NEW requested \in SUBSET Channel, NEW preferred \in SUBSET Channel,
         NEW quiet \in BOOLEAN, NEW force \in BOOLEAN,
         NEW reachable \in SUBSET (Channel \ {"PUSH"}),
         Enqueue(requested, preferred, quiet, force, reachable)
  PROVE  IInv'
<1> DEFINE offered == {c \in requested : template.channels[c] # "off"}
           allowed == FilterAllowedChannels(offered, preferred, quiet, force)
           targets == Targets(allowed, reachable)
<1>1. events \in Seq(EventRow) /\ Len(events) \in Nat /\ DOMAIN events = 1..Len(events)
  BY LenProperties DEF IInv, TypeOK, EventRow
<1>2. NewEvent \in EventRow
  BY DEF NewEvent, EventRow
<1>3. /\ events' \in Seq(EventRow) /\ DOMAIN events \subseteq DOMAIN events'
      /\ Len(events) + 1 \in DOMAIN events'
      /\ \A i \in DOMAIN events : events'[i] = events[i]
  BY <1>1, <1>2, AppendRows DEF Enqueue
<1>4. targets \in SUBSET Target
  BY DEF Targets, Target, ActiveTokens, FilterAllowedChannels
<1>5. dispatch' = NoDispatch \/ dispatch' = [NoDispatch EXCEPT !.step = "insert", !.todo = targets,
                                                              !.event = Len(events) + 1]
  BY DEF Enqueue
<1> HIDE DEF targets
<1>6. /\ dispatch' \in DispatchRecord /\ dispatch'.rows = {}
      /\ dispatch'.step = "insert" => dispatch'.event = Len(events) + 1
  <2>1. CASE dispatch' = NoDispatch
    BY <2>1, NoDispatchIsDispatch
  <2>2. CASE dispatch' # NoDispatch
    <3>1. dispatch' = [step |-> "insert", event |-> Len(events) + 1, todo |-> targets, rows |-> {}]
      BY <1>5, <2>2 DEF NoDispatch
    <3>2. Len(events) + 1 \in Nat /\ {} \in SUBSET Nat
      BY <1>1
    <3> QED BY <1>4, <3>1, <3>2 DEF DispatchRecord
  <2> QED BY <2>1, <2>2
<1>7. UNCHANGED <<template, token, device, logs, jobs, receipts, accepted, edits, faults>>
  BY DEF Enqueue
<1>8. /\ template \in Templates /\ token \in [Token -> {"absent", "active", "voided"}]
      /\ device \in [Token -> {"alive", "dead"}] /\ edits \in 0..MaxEdits
  BY DEF IInv, TypeOK
<1> QED BY <1>3, <1>6, <1>7, <1>8, RowsStand

LEMMA InsertLogIsSound ==
  ASSUME IInv, NEW to \in Target, InsertLog(to) PROVE IInv'
<1>0. /\ TypeOK /\ dispatch \in DispatchRecord /\ events \in Seq(EventRow)
      /\ dispatch.step = "insert" /\ dispatch.event \in DOMAIN events
  BY DEF IInv, TypeOK, EventRow, DispatchRecord, InsertLog, DispatchIsNew
<1>1. UNCHANGED <<template, token, device, events, receipts, edits, faults>>
  BY DEF InsertLog
<1>2. CASE events[dispatch.event].state = "gone"
  <2>1. dispatch' = NoDispatch /\ UNCHANGED <<logs, jobs, accepted>>
    BY <1>2 DEF InsertLog
  <2> QED BY <1>0, <1>1, <2>1, RowsStand, NoDispatchIsDispatch DEF TypeOK
<1>3. CASE events[dispatch.event].state # "gone"
  <2>1. NewRows(dispatch.event, {to})
    BY <1>3 DEF InsertLog
  <2>2. PICK step \in {"insert", "add"} :
          dispatch' = [dispatch EXCEPT !.todo = @ \ {to}, !.rows = @ \cup {Len(logs) + 1},
                                       !.step = step]
    BY <1>0, <1>3 DEF InsertLog
  <2>3. Len(logs) \in Nat /\ dispatch.event \in Nat /\ {to} \in SUBSET Target
    BY <1>0, OneLength DEF DispatchRecord
  <2>4. /\ dispatch' \in DispatchRecord /\ dispatch'.event = dispatch.event
        /\ dispatch'.rows = dispatch.rows \cup {Len(logs) + 1}
    <3> DEFINE todo == dispatch.todo \ {to}  rows == dispatch.rows \cup {Len(logs) + 1}
    <3>1. todo \in SUBSET Target /\ rows \in SUBSET Nat
      BY <1>0, <2>3 DEF DispatchRecord
    <3>2. dispatch = [step |-> "insert", event |-> dispatch.event, todo |-> dispatch.todo,
                      rows |-> dispatch.rows]
      BY <1>0 DEF DispatchRecord
    <3>3. dispatch' = [dispatch EXCEPT !.todo = todo, !.rows = rows, !.step = step]
      BY <2>2
    <3> HIDE DEF todo, rows
    <3>4. dispatch' = [step |-> step, event |-> dispatch.event, todo |-> todo, rows |-> rows]
      BY <3>2, <3>3
    <3>5. dispatch' \in DispatchRecord /\ dispatch'.event = dispatch.event /\ dispatch'.rows = rows
      BY <2>3, <3>1, <3>4 DEF DispatchRecord
    <3> QED BY <3>5 DEF rows
  <2>5. Cardinality({to}) = 1
    BY FS_Singleton
  <2>6. DOMAIN logs' = 1..(Len(logs) + 1) /\ DOMAIN logs = 1..Len(logs)
    BY <1>0, <2>1, <2>3, <2>5, RowsAreWritten, OneLength
  <2>7. Len(logs) + 1 \in DOMAIN logs' \ DOMAIN logs
    BY <2>3, <2>6
  <2> QED BY <1>0, <1>1, <2>1, <2>3, <2>4, <2>7, WrittenIsSound
<1> QED BY <1>2, <1>3

LEMMA AddBulkIsSound ==
  ASSUME IInv, AddBulk PROVE IInv'
<1>0. TypeOK
  BY DEF IInv
<1>1. /\ dispatch' = NoDispatch
      /\ UNCHANGED <<template, token, device, events, logs, receipts, accepted, edits, faults>>
      /\ jobs' = [l \in DOMAIN jobs |->
                    IF l \in dispatch.rows THEN [made |-> 0, step |-> "waiting"] ELSE jobs[l]]
  BY DEF AddBulk
<1>2. /\ DOMAIN jobs' = DOMAIN jobs
      /\ \A l \in DOMAIN logs :
           /\ jobs'[l] \in Job
           /\ \/ jobs'[l] = jobs[l]
              \/ jobs[l].step = "none" /\ jobs'[l].step = "waiting"
  <2>1. [made |-> 0, step |-> "waiting"] \in Job
    BY DEF Job
  <2>2. \A l \in dispatch.rows : jobs[l].step = "none"
    BY DEF IInv, DispatchIsNew
  <2>3. DOMAIN jobs = DOMAIN logs
    BY <1>0, OneLength
  <2> QED BY <1>1, <2>1, <2>2, <2>3, RowNow
<1>3. jobs' \in Seq(Job)
  <2>1. Len(jobs) \in Nat /\ DOMAIN jobs = 1..Len(jobs) /\ DOMAIN logs = DOMAIN jobs
    BY <1>0, OneLength DEF TypeOK
  <2>2. jobs' = [l \in 1..Len(jobs) |-> jobs'[l]]
    BY <1>1, <2>1
  <2>3. \A l \in 1..Len(jobs) : jobs'[l] \in Job
    BY <1>2, <2>1
  <2> QED BY <2>1, <2>2, <2>3, IsASeq
<1>4. TypeOK'
  BY <1>0, <1>1, <1>2, <1>3, TablesMove, NoDispatchIsDispatch DEF TypeOK, DispatchRecord
<1>5. RowsHaveEvents' /\ DispatchIsNew'
  BY <1>1, NoDispatchIsDispatch DEF IInv, RowsHaveEvents, DispatchIsNew
<1>6. RowsAreTold'
  <2> SUFFICES ASSUME NEW l \in DOMAIN logs
               PROVE  /\ Told(logs[l], jobs'[l], accepted[l])
                      /\ faults = 0 => Calm(logs[l], jobs'[l], accepted[l])
    BY <1>1 DEF RowsAreTold
  <2>1. /\ Told(logs[l], jobs[l], accepted[l])
        /\ faults = 0 => Calm(logs[l], jobs[l], accepted[l])
    BY DEF IInv, RowsAreTold
  <2> QED BY <1>2, <2>1 DEF Told, Calm
<1> QED BY <1>4, <1>5, <1>6 DEF IInv

LEMMA SendBulkIsSound ==
  ASSUME IInv, NEW n \in 1..(MaxEvents - Len(events)), NEW preferred \in SUBSET Channel,
         NEW quiet \in BOOLEAN, NEW force \in BOOLEAN, SendBulk(n, preferred, quiet, force)
  PROVE  IInv'
<1> DEFINE allowed == FilterAllowedChannels(Channel, preferred, quiet, force)
           targets == Targets(allowed, Channel)
           last    == Len(events) + n
           added   == [i \in 1..n |-> NewEvent]
           rows    == (Len(logs) + 1)..(Len(logs) + Cardinality(targets))
<1>0. TypeOK
  BY DEF IInv
<1>1. events \in Seq(EventRow) /\ Len(events) \in Nat /\ DOMAIN events = 1..Len(events)
  BY <1>0, LenProperties DEF TypeOK, EventRow
<1>2. NewEvent \in EventRow
  BY DEF NewEvent, EventRow
<1>3. n \in Nat /\ n >= 1 /\ last \in Nat
  BY <1>1, NotificationsAssumption
<1>4. added \in Seq(EventRow) /\ Len(added) = n
  <2>1. added \in [1..n -> EventRow]
    BY <1>2
  <2> QED BY <1>3, <2>1, IsASeq
<1>5. events' = events \o added /\ NewRows(last, targets)
      /\ UNCHANGED <<template, token, device, receipts, edits, faults>>
      /\ dispatch' = [NoDispatch EXCEPT !.step = "add", !.event = last, !.rows = rows]
  BY DEF SendBulk
<1>6. targets \in SUBSET Target
  BY DEF Targets, Target, ActiveTokens, FilterAllowedChannels
<1> HIDE DEF added, targets
<1>7. /\ events' \in Seq(EventRow) /\ DOMAIN events' = 1..last
      /\ \A i \in DOMAIN events : events'[i] = events[i]
  BY <1>1, <1>3, <1>4, <1>5, JoinedRows
<1>8. /\ Cardinality(targets) \in Nat /\ Len(logs) \in Nat
      /\ DOMAIN logs' = 1..(Len(logs) + Cardinality(targets)) /\ DOMAIN logs = 1..Len(logs)
  BY <1>0, <1>3, <1>5, <1>6, RowsAreWritten, OneLength
<1>9. rows \subseteq DOMAIN logs' \ DOMAIN logs /\ rows \subseteq Nat
  BY <1>8
<1>10. last \in DOMAIN events' /\ DOMAIN events \subseteq DOMAIN events'
  BY <1>1, <1>3, <1>7
<1> HIDE DEF rows, last
<1>11. /\ dispatch' \in DispatchRecord /\ dispatch'.rows = rows /\ dispatch'.step = "add"
  BY <1>3, <1>5, <1>9 DEF NoDispatch, DispatchRecord
<1> QED BY <1>5, <1>6, <1>7, <1>9, <1>10, <1>11, WrittenIsSound

-----------------------------------------------------------------------------
(* The specification *)

LEMMA StepIsSound == IInv /\ [Next]_vars => IInv'
<1> SUFFICES ASSUME IInv, [Next]_vars PROVE IInv'
  OBVIOUS
<1>1. CASE Dispatch
  BY <1>1, EnqueueIsSound, InsertLogIsSound, AddBulkIsSound, SendBulkIsSound DEF Dispatch
<1>2. ASSUME NEW l \in DOMAIN logs, Worker(l) PROVE IInv'
  BY <1>2, StartIsSound, ResolveIsSound, SendIsSound, WriteSentIsSound, ReceiptScheduled,
     CatchIsSound, OnFailedIsSound DEF Worker
<1>3. ASSUME NEW l \in DOMAIN logs, ReceiptRefused(l) PROVE IInv'
  BY <1>3, ReceiptRefusedIsSound
<1>4. ASSUME NEW l \in DOMAIN logs, Receipt(l) PROVE IInv'
  BY <1>4, CheckReceiptIsSound DEF Receipt
<1>5. CASE Crash
  BY <1>5, CrashIsSound
<1>6. CASE User
  BY <1>6, UserIsSound
<1>7. CASE UNCHANGED vars
  BY <1>7 DEF vars, IInv, TypeOK, RowsHaveEvents, DispatchIsNew, RowsAreTold
<1> QED BY <1>1, <1>2, <1>3, <1>4, <1>5, <1>6, <1>7 DEF Next

\* Rows have events, a purged one with a purged event; a send's rows have no jobs before it
\* hands them over; and what a row and its job say was taken was taken.
THEOREM RowsAreKept == Spec => []IInv
<1>1. Init => IInv
  BY InitIsSound
<1>2. IInv /\ [Next]_vars => IInv'
  BY StepIsSound
<1> QED BY <1>1, <1>2, PTL DEF Spec

\* A row says SENT only of a message that a provider took, through crashes, retries and
\* receipts, and without a fault no message is handed over twice (processEmailJob,
\* processPushJob, onFailed).
THEOREM SentAtMostOnce == Spec => []SentOnce
<1>1. IInv => SentOnce
  BY DEF IInv, RowsAreTold, Told, Calm, SentOnce
<1> QED BY <1>1, RowsAreKept, PTL

\* Without a fault the inbox shows PENDING only while a row of the event has an unfinished
\* job (deriveEventStatus).
THEOREM PendingHasItsWork == Spec => []PendingHasWork
<1>1. IInv => PendingHasWork
  <2> SUFFICES ASSUME IInv, faults = 0, NEW e \in DOMAIN events, events[e].state # "gone",
                      {l \in DOMAIN logs : logs[l].event = e} # {}, InboxStatus(e) = "PENDING",
                      \A l \in DOMAIN logs : logs[l].event = e => jobs[l].step \in {"done", "failed"}
               PROVE  FALSE
    BY DEF PendingHasWork
  <2> DEFINE statuses == {logs[l].status : l \in {k \in DOMAIN logs : logs[k].event = e}}
  <2>1. statuses # {} /\ statuses \subseteq {"SENT", "FAILED", "SKIPPED"}
    <3>1. ASSUME NEW l \in DOMAIN logs, logs[l].event = e
          PROVE  logs[l].status \in {"SENT", "FAILED", "SKIPPED"}
      <4>1. Calm(logs[l], jobs[l], accepted[l])
        BY DEF IInv, RowsAreTold
      <4>2. logs[l].status # "gone"
        BY <3>1 DEF IInv, RowsHaveEvents
      <4> QED BY <3>1, <4>1, <4>2 DEF Calm
    <3> QED BY <3>1
  <2>2. InboxStatus(e) = CASE statuses = {} -> "PENDING"
                           [] statuses = {"SENT"} -> "SENT"
                           [] statuses \subseteq {"FAILED", "SKIPPED"} -> "FAILED"
                           [] "SENT" \in statuses -> "PARTIAL"
                           [] OTHER -> "PENDING"
    BY DEF InboxStatus
  <2> HIDE DEF statuses
  <2>3. CASE statuses = {"SENT"}
    BY <2>1, <2>2, <2>3
  <2>4. CASE statuses # {"SENT"} /\ "SENT" \notin statuses
    <3>1. statuses \subseteq {"FAILED", "SKIPPED"} /\ statuses # {"SENT"} /\ statuses # {}
      BY <2>1, <2>4
    <3> QED BY <2>2, <2>4, <3>1
  <2>5. CASE statuses # {"SENT"} /\ "SENT" \in statuses
    <3>1. ~(statuses \subseteq {"FAILED", "SKIPPED"})
      BY <2>5
    <3> QED BY <2>1, <2>2, <2>5, <3>1
  <2> QED BY <2>3, <2>4, <2>5
<1> QED BY <1>1, RowsAreKept, PTL

-----------------------------------------------------------------------------
(* The extraction of a case *)

Xs == DOMAIN extractions
Failures == {"visionFailed", "structureFailed"}

-----------------------------------------------------------------------------
(* The inductive invariant *)

\* The tables go together, and every handler and webhook is about a row.
Table ==
  /\ Len(docaiJobs) = Len(extractions)
  /\ kind = "none" => status = "DRAFT" /\ Len(extractions) = 0
                      /\ \A r \in Req : req[r].op = "none"
  /\ kind = "found" => Len(extractions) > 0
  /\ \A p \in pending : p[1] \in Xs
  /\ \A r \in Req : req[r].op \in {"success", "failed", "resolve"} => req[r].x \in Xs

\* What is recorded, pending or being handled of a job is what docai made of it.
Truth ==
  /\ \A x \in Xs :
       /\ extractions[x].submit = "calling" => docaiJobs[x] = "none"
       /\ extractions[x].status = "COMPLETED" => docaiJobs[x] = "succeeded"
       /\ extractions[x].status = "FAILED" => docaiJobs[x] \in Failures
       /\ <<x, "success">> \in pending => docaiJobs[x] = "succeeded"
       /\ <<x, "vision.failed">> \in pending => docaiJobs[x] = "visionFailed"
       /\ <<x, "structure.failed">> \in pending => docaiJobs[x] = "structureFailed"
       /\ <<x, "vision.success">> \in pending =>
            docaiJobs[x] \in {"structure", "succeeded", "structureFailed"}
  /\ \A r \in Req :
       /\ req[r].op = "success" => docaiJobs[req[r].x] = "succeeded"
       /\ req[r].op = "failed" =>
            \/ req[r].event = "vision.failed" /\ docaiJobs[req[r].x] = "visionFailed"
            \/ /\ req[r].event = "structure.failed"
               /\ docaiJobs[req[r].x] = "structureFailed" /\ req[r].resolution = "none"

Caller(r)       == req[r].op \in I!CallerOps
Resubmitting(r) == req[r].op = "resubmit"
Failing(r)      == req[r].op = "failed"

\* A second handler of the caller is an overlap, a third one the second overlap.
Callers ==
  /\ disturbed.overlap = 0 => \A r, q \in Req : Caller(r) /\ Caller(q) => r = q
  /\ disturbed.overlap <= 1 =>
       \A r, q, s \in Req :
         Caller(r) /\ Caller(q) /\ Caller(s) => r = q \/ r = s \/ q = s

NewestJob == docaiJobs[Len(extractions)]

Verified == status = "VERIFIED" \/ \E r \in Req : req[r].op = "verify"

\* A resubmission under way is of images that could not be read, or it is left over
\* from an overlap and alone.
Rested ==
  disturbed.overlap <= 1 =>
    /\ Verified => Len(extractions) > 0 /\ NewestJob = "succeeded"
    /\ \A r \in Req : Resubmitting(r) =>
         /\ Len(extractions) > 0
         /\ \/ NewestJob \in Failures
            \/ /\ disturbed.overlap = 1 /\ status # "VERIFIED"
               /\ \A q \in Req : Caller(q) => q = r

\* A row is added over a failed one only, unless a late vision.success revives one.
OneAtATime ==
  disturbed.late = 0 /\ disturbed.overlap = 0 =>
    /\ \A x \in Xs : x # Len(extractions) => extractions[x].status = "FAILED"
    /\ \A r \in Req : Resubmitting(r) => I!Newest.status = "FAILED"

\* The failure of x has been recorded and is not told again.
Reported(x) ==
  /\ docaiJobs[x] \in Failures
  /\ <<x, "vision.failed">> \notin pending /\ <<x, "structure.failed">> \notin pending
  /\ \A r \in Req : Failing(r) => req[r].x # x

\* Only a webhook that comes again tells a recorded failure again.
Reports ==
  disturbed.repeated = 0 =>
    /\ \A x \in Xs : extractions[x].status = "FAILED" => Reported(x)
    /\ \A r, q \in Req : Failing(r) /\ Failing(q) /\ req[r].x = req[q].x => r = q

\* The images of x may be taken again by a verdict, not by the staff's decision.
SelfServed(x) ==
  extractions[x].resolution = "RESUBMIT_IMAGE" /\ ~extractions[x].byStaff

\* An image the user may take again stays a failed one.
Served ==
  \A x \in Xs : SelfServed(x) =>
    docaiJobs[x] = "visionFailed" /\ extractions[x].status = "FAILED"

\* Rows before the newest have failed for good, so the one verdict that lets the user take
\* images again finds none before it.
Once ==
  disturbed.repeated = 0 /\ disturbed.overlap = 0 =>
    /\ \A x \in Xs : x # Len(extractions) => Reported(x)
    /\ \A r \in Req : Resubmitting(r) => Reported(Len(extractions))
    /\ \A r \in Req : Failing(r) /\ req[r].resolution = "RESUBMIT_IMAGE"
                        => \A x \in Xs : ~SelfServed(x)
    /\ \A x, y \in Xs : SelfServed(x) /\ SelfServed(y) => x = y

-----------------------------------------------------------------------------
(* The kinds of steps *)

\* The handlers in the other slots stay as they are.
OnlySlot(r) == \A q \in Req \ {r} : req'[q] = req[q]

Frees(r) == OnlySlot(r) /\ req'[r].op = "none"

\* Of the rows, only x changes.
RowTouched(x) ==
  /\ x \in Xs /\ Len(extractions') = Len(extractions)
  /\ \A y \in Xs : y # x => extractions'[y] = extractions[y]

\* Of docai's jobs, only that of x changes.
JobTouched(x) ==
  /\ x \in Xs /\ Len(docaiJobs') = Len(docaiJobs)
  /\ \A y \in Xs : y # x => docaiJobs'[y] = docaiJobs[y]

\* A row is added for new images.
Adding ==
  /\ Len(extractions') = Len(extractions) + 1 /\ Len(docaiJobs') = Len(docaiJobs) + 1
  /\ \A x \in Xs : extractions'[x] = extractions[x] /\ docaiJobs'[x] = docaiJobs[x]
  /\ extractions'[Len(extractions) + 1] = I!NewExtraction
  /\ docaiJobs'[Len(docaiJobs) + 1] = "none"

\* One disturbance more.
Counts(d) ==
  /\ disturbed'[d] = disturbed[d] + 1
  /\ \A e \in I!Disturbance \ {d} : disturbed'[e] = disturbed[e]

\* Steps inside a handler, and edits of the document.
QuietStep ==
  /\ UNCHANGED <<kind, status, extractions, docaiJobs, pending, disturbed>>
  /\ \A r \in Req : /\ req'[r].op = req[r].op /\ req'[r].x = req[r].x
                    /\ req'[r].event = req[r].event
                    /\ req'[r].resolution = req[r].resolution

\* The case is reported, with an image or without.
ReportStep ==
  /\ kind = "none" /\ kind' # "none" /\ UNCHANGED <<status, pending, req, disturbed>>
  /\ Adding \/ (kind' = "manual" /\ UNCHANGED <<extractions, docaiJobs>>)

\* docai's call is answered, its job's id is stored, or it is lost.
CallStep(x) ==
  /\ RowTouched(x) /\ JobTouched(x)
  /\ extractions'[x].status = extractions[x].status
  /\ extractions'[x].resolution = extractions[x].resolution
  /\ extractions'[x].byStaff = extractions[x].byStaff
  /\ extractions'[x].submit # "calling"
  /\ docaiJobs'[x] = docaiJobs[x] \/ (extractions[x].submit = "calling" /\ docaiJobs'[x] = "vision")
  /\ UNCHANGED <<kind, status, pending, req, disturbed>>

\* docai gets on with a job and reports it.
ProgressStep(x) ==
  /\ JobTouched(x)
  /\ \E event \in I!Event :
       /\ pending' = pending \cup {<<x, event>>}
       /\ <<docaiJobs[x], docaiJobs'[x], event>> \in
            {<<"vision", "structure", "vision.success">>,
             <<"structure", "succeeded", "success">>,
             <<"vision", "visionFailed", "vision.failed">>,
             <<"structure", "structureFailed", "structure.failed">>}
  /\ UNCHANGED <<kind, status, extractions, req, disturbed>>

\* A vision.success is handled, in time or late.
VisionStep(x) ==
  /\ RowTouched(x) /\ <<x, "vision.success">> \in pending /\ pending' \subseteq pending
  /\ extractions'[x].status = "IN_PROGRESS"
  /\ extractions'[x].submit = extractions[x].submit
  /\ extractions'[x].resolution = extractions[x].resolution
  /\ extractions'[x].byStaff = extractions[x].byStaff
  /\ \/ extractions[x].status = "PENDING" /\ UNCHANGED disturbed
     \/ Counts("late")
  /\ UNCHANGED <<kind, status, docaiJobs, req>>

\* A webhook is acknowledged and nothing done.
DropStep ==
  pending' \subseteq pending
  /\ UNCHANGED <<kind, status, extractions, docaiJobs, req, disturbed>>

\* A handler takes up an outcome that is pending.
ServeStep(r) ==
  /\ req[r].op = "none" /\ OnlySlot(r)
  /\ <<req'[r].x, req'[r].event>> \in pending
  /\ \/ req'[r].op = "success" /\ req'[r].event = "success"
     \/ /\ req'[r].op = "failed" /\ req'[r].resolution = I!Verdict(req'[r].event)
        /\ req'[r].event \in {"vision.failed", "structure.failed"}
  /\ \/ /\ UNCHANGED disturbed
        /\ \A q \in Req : req[q].x = req'[r].x => req[q].event # req'[r].event
     \/ Counts("repeated")
  /\ UNCHANGED <<kind, status, extractions, docaiJobs, pending>>

\* The handler of a success commits.
CompleteStep(r) ==
  /\ req[r].op = "success" /\ Frees(r) /\ RowTouched(req[r].x)
  /\ extractions'[req[r].x].status = "COMPLETED"
  /\ extractions'[req[r].x].submit = extractions[req[r].x].submit
  /\ extractions'[req[r].x].resolution = extractions[req[r].x].resolution
  /\ extractions'[req[r].x].byStaff = extractions[req[r].x].byStaff
  /\ pending' \subseteq pending /\ (UNCHANGED disturbed \/ Counts("repeated"))
  /\ UNCHANGED <<kind, status, docaiJobs>>

\* The handler of a failure commits.
FailStep(r) ==
  /\ req[r].op = "failed" /\ Frees(r) /\ RowTouched(req[r].x)
  /\ extractions'[req[r].x].status = "FAILED"
  /\ extractions'[req[r].x].submit = extractions[req[r].x].submit
  /\ extractions'[req[r].x].resolution = req[r].resolution
  /\ extractions'[req[r].x].byStaff = extractions[req[r].x].byStaff
  /\ \/ UNCHANGED disturbed /\ pending' = pending \ {<<req[r].x, req[r].event>>}
     \/ Counts("repeated") /\ UNCHANGED pending
  /\ UNCHANGED <<kind, status, docaiJobs>>

\* A handler of the caller begins.
BeginStep(r) ==
  /\ req[r].op = "none" /\ OnlySlot(r) /\ kind # "none"
  /\ req'[r].op \in I!CallerOps
  /\ req'[r].op \in {"resubmit", "resolve"} =>
       Len(extractions) > 0 /\ I!Newest.status = "FAILED" /\ req'[r].x = Len(extractions)
  /\ req'[r].op = "verify" =>
       kind = "found" /\ I!Newest.status = "COMPLETED"
  /\ \/ UNCHANGED disturbed /\ \A q \in Req : ~Caller(q)
     \/ Counts("overlap")
  /\ UNCHANGED <<kind, status, extractions, docaiJobs, pending>>

\* A resubmission commits its new images.
ResubmitStep(r) ==
  /\ Resubmitting(r) /\ Frees(r) /\ Adding
  /\ UNCHANGED <<kind, status, pending, disturbed>>

\* A decision of the staff commits.
ResolveStep(r) ==
  /\ req[r].op = "resolve" /\ Frees(r) /\ RowTouched(req[r].x)
  /\ extractions'[req[r].x].status = extractions[req[r].x].status
  /\ extractions'[req[r].x].submit = extractions[req[r].x].submit
  /\ extractions'[req[r].x].byStaff = TRUE
  /\ UNCHANGED <<kind, status, docaiJobs, pending, disturbed>>

\* A submission, verification or rejection commits.
CommitStep(r) ==
  /\ req[r].op \in {"submit", "verify", "reject"} /\ Frees(r)
  /\ status' = "VERIFIED" => req[r].op = "verify"
  /\ UNCHANGED <<kind, extractions, docaiJobs, pending, disturbed>>

\* A handler dies.
DieStep(r) ==
  /\ Frees(r) /\ Counts("death")
  /\ UNCHANGED <<kind, status, extractions, docaiJobs, pending>>

\* Every step is of one of these kinds.
IntakeKinds ==
  \/ QuietStep \/ ReportStep \/ DropStep
  \/ \E x \in Xs : CallStep(x) \/ ProgressStep(x) \/ VisionStep(x)
  \/ \E r \in Req :
       \/ ServeStep(r) \/ CompleteStep(r) \/ FailStep(r) \/ BeginStep(r)
       \/ ResubmitStep(r) \/ ResolveStep(r) \/ CommitStep(r) \/ DieStep(r)

-----------------------------------------------------------------------------
(* Every step is of one of the kinds *)

LEMMA IdleRequest ==
  /\ I!Idle \in I!Request /\ I!Idle.op = "none" /\ I!Idle.step = "idle" /\ I!Idle.x = 0
  /\ I!Idle.event = "none" /\ I!Idle.resolution = "none"
BY DEF I!Idle, I!Request, I!Event, I!Resolution

LEMMA SlotWritten ==
  ASSUME I!TypeOK, NEW r \in Req, NEW s \in I!Request, req' = [req EXCEPT ![r] = s]
  PROVE  req' \in [Req -> I!Request] /\ req'[r] = s /\ OnlySlot(r)
BY DEF I!TypeOK, OnlySlot

LEMMA SlotFreed ==
  ASSUME I!TypeOK, NEW r \in Req, I!Done(r)
  PROVE  req' \in [Req -> I!Request] /\ Frees(r)
BY IdleRequest, SlotWritten DEF I!Done, Frees

LEMMA SlotMoves ==
  ASSUME I!TypeOK, NEW r \in Req, NEW step \in {"write", "move", "complete"}, I!Goto(r, step)
  PROVE  /\ req' \in [Req -> I!Request] /\ OnlySlot(r) /\ req'[r].op = req[r].op
         /\ req'[r].x = req[r].x /\ req'[r].event = req[r].event
         /\ req'[r].resolution = req[r].resolution
<1> DEFINE s == [req[r] EXCEPT !.step = step]
<1>1. req[r] \in I!Request BY DEF I!TypeOK
<1>2. s \in I!Request /\ s.op = req[r].op /\ s.x = req[r].x /\ s.event = req[r].event
      /\ s.resolution = req[r].resolution
  BY <1>1 DEF I!Request
<1>3. req' = [req EXCEPT ![r] = s] BY DEF I!Goto, I!TypeOK
<1> HIDE DEF s
<1> QED BY <1>2, <1>3, SlotWritten

LEMMA CountsDisturbance ==
  ASSUME I!TypeOK, NEW d \in I!Disturbance, I!Disturb(d)
  PROVE  disturbed' \in [I!Disturbance -> Nat] /\ Counts(d)
BY DEF I!TypeOK, I!Disturb, Counts

LEMMA RowWritten ==
  ASSUME I!TypeOK, NEW x \in Xs, NEW e \in I!Extraction,
         extractions' = [extractions EXCEPT ![x] = e]
  PROVE  extractions' \in Seq(I!Extraction) /\ RowTouched(x) /\ extractions'[x] = e
<1>0. extractions \in Seq(I!Extraction) BY DEF I!TypeOK
<1>1. /\ extractions' \in Seq(I!Extraction) /\ DOMAIN extractions' = Xs
      /\ \A y \in Xs : extractions'[y] = IF y = x THEN e ELSE extractions[y]
  BY <1>0, UpdateInSeq DEF Xs
<1>2. Len(extractions') = Len(extractions)
  <2>1. Len(extractions) \in Nat /\ Len(extractions') \in Nat
        /\ 1..Len(extractions) = 1..Len(extractions')
    BY <1>0, <1>1 DEF Xs
  <2> QED BY <2>1, SameLength
<1> QED BY <1>1, <1>2 DEF RowTouched

LEMMA JobWritten ==
  ASSUME I!TypeOK, Table, NEW x \in Xs, NEW j \in I!JobState,
         docaiJobs' = [docaiJobs EXCEPT ![x] = j]
  PROVE  docaiJobs' \in Seq(I!JobState) /\ JobTouched(x) /\ docaiJobs'[x] = j
<1>0. docaiJobs \in Seq(I!JobState) /\ extractions \in Seq(I!Extraction) BY DEF I!TypeOK
<1>1. DOMAIN docaiJobs = Xs BY <1>0 DEF Table, Xs
<1>2. /\ docaiJobs' \in Seq(I!JobState) /\ DOMAIN docaiJobs' = Xs
      /\ \A y \in Xs : docaiJobs'[y] = IF y = x THEN j ELSE docaiJobs[y]
  BY <1>0, <1>1, UpdateInSeq
<1>3. Len(docaiJobs') = Len(docaiJobs)
  <2>1. /\ Len(docaiJobs) \in Nat /\ Len(docaiJobs') \in Nat
        /\ 1..Len(docaiJobs) = 1..Len(docaiJobs')
    BY <1>0, <1>1, <1>2
  <2> QED BY <2>1, SameLength
<1> QED BY <1>2, <1>3 DEF JobTouched

LEMMA RowAdded ==
  ASSUME I!TypeOK, Table, I!Extract
  PROVE  /\ Adding /\ extractions' \in Seq(I!Extraction) /\ docaiJobs' \in Seq(I!JobState)
         /\ images' \in [batch: Nat, moved: BOOLEAN]
<1>0. docaiJobs \in Seq(I!JobState) /\ extractions \in Seq(I!Extraction) BY DEF I!TypeOK
<1>1. I!NewExtraction \in I!Extraction BY DEF I!NewExtraction, I!Extraction, I!Resolution
<1>2. "none" \in I!JobState BY DEF I!JobState
<1>3. /\ extractions' = Append(extractions, I!NewExtraction)
      /\ docaiJobs' = Append(docaiJobs, "none")
      /\ images' = [batch |-> Len(extractions) + 1, moved |-> FALSE]
  BY DEF I!Extract
<1>4. DOMAIN docaiJobs = Xs /\ Len(extractions) + 1 \in Nat BY <1>0 DEF Table, Xs
<1>5. /\ extractions' \in Seq(I!Extraction)
      /\ \A x \in Xs : extractions'[x] = extractions[x]
      /\ extractions'[Len(extractions) + 1] = I!NewExtraction
  BY <1>0, <1>1, <1>3, AppendRows DEF Xs
<1>6. /\ docaiJobs' \in Seq(I!JobState) /\ \A x \in Xs : docaiJobs'[x] = docaiJobs[x]
      /\ docaiJobs'[Len(docaiJobs) + 1] = "none"
  BY <1>0, <1>2, <1>3, <1>4, AppendRows
<1>7. Len(extractions') = Len(extractions) + 1 /\ Len(docaiJobs') = Len(docaiJobs) + 1
  BY <1>0, <1>1, <1>2, <1>3, AppendProperties
<1> QED BY <1>3, <1>4, <1>5, <1>6, <1>7 DEF Adding

Types == I!TypeOK' /\ IntakeKinds

LEMMA ReportIsKind ==
  ASSUME I!TypeOK, Table, I!ReportFound \/ I!ReportLostScanned \/ I!ReportManual
  PROVE  Types
<1>1. CASE I!ReportFound \/ I!ReportLostScanned
  <2>1. /\ kind = "none" /\ kind' \in {"found", "scan"} /\ I!Extract
        /\ UNCHANGED <<status, document, pending, req, disturbed>>
    BY <1>1 DEF I!ReportFound, I!ReportLostScanned, I!Report
  <2>2. ReportStep BY <2>1, RowAdded DEF ReportStep
  <2> QED BY <2>1, <2>2, RowAdded DEF Types, I!TypeOK, IntakeKinds
<1>2. CASE I!ReportManual
  <2>1. ReportStep BY <1>2 DEF I!ReportManual, ReportStep
  <2> QED BY <1>2, <2>1 DEF I!ReportManual, Types, I!TypeOK, IntakeKinds
<1> QED BY <1>1, <1>2

LEMMA CallIsKind ==
  ASSUME I!TypeOK, Table, NEW x \in Xs, I!Answer(x) \/ I!Stamp(x) \/ I!LoseCall(x)
  PROVE  Types
<1>0. extractions[x] \in I!Extraction BY DEF I!TypeOK, Xs
<1>1. PICK to \in {"answered", "stamped", "lost"} :
        extractions' = [extractions EXCEPT ![x].submit = to]
  BY DEF I!Answer, I!Stamp, I!LoseCall
<1> DEFINE e == [extractions[x] EXCEPT !.submit = to]
<1>2. e \in I!Extraction /\ e.status = extractions[x].status /\ e.submit = to
      /\ e.resolution = extractions[x].resolution /\ e.byStaff = extractions[x].byStaff
  BY <1>0 DEF I!Extraction
<1>3. extractions' = [extractions EXCEPT ![x] = e] BY <1>1 DEF I!TypeOK, Xs
<1> HIDE DEF e
<1>4. extractions' \in Seq(I!Extraction) /\ RowTouched(x) /\ extractions'[x] = e
  BY <1>2, <1>3, RowWritten
<1>5. \/ docaiJobs' = docaiJobs
      \/ extractions[x].submit = "calling" /\ docaiJobs' = [docaiJobs EXCEPT ![x] = "vision"]
  BY DEF I!Answer, I!Stamp, I!LoseCall
<1>6. /\ docaiJobs' \in Seq(I!JobState) /\ JobTouched(x)
      /\ docaiJobs'[x] = docaiJobs[x] \/ (extractions[x].submit = "calling" /\ docaiJobs'[x] = "vision")
  <2>1. "vision" \in I!JobState BY DEF I!JobState
  <2>2. CASE docaiJobs' = docaiJobs BY <2>2 DEF I!TypeOK, JobTouched
  <2> QED BY <1>5, <2>1, <2>2, JobWritten
<1>7. UNCHANGED <<kind, status, document, images, pending, req, disturbed>>
  BY DEF I!Answer, I!Stamp, I!LoseCall
<1>8. CallStep(x) BY <1>1, <1>2, <1>4, <1>6, <1>7 DEF CallStep
<1> QED BY <1>4, <1>6, <1>7, <1>8 DEF Types, I!TypeOK, IntakeKinds

LEMMA ProgressIsKind ==
  ASSUME I!TypeOK, Table, NEW x \in Xs, I!Docai(x)
  PROVE  Types
<1>1. PICK to \in I!JobState, event \in I!Event :
        /\ docaiJobs' = [docaiJobs EXCEPT ![x] = to] /\ pending' = pending \cup {<<x, event>>}
        /\ <<docaiJobs[x], to, event>> \in
            {<<"vision", "structure", "vision.success">>,
             <<"structure", "succeeded", "success">>,
             <<"vision", "visionFailed", "vision.failed">>,
             <<"structure", "structureFailed", "structure.failed">>}
  BY DEF I!Docai, I!Progress, I!JobState, I!Event
<1>2. UNCHANGED <<kind, status, document, images, extractions, req, disturbed>>
  BY DEF I!Docai, I!Progress
<1>3. docaiJobs' \in Seq(I!JobState) /\ JobTouched(x) /\ docaiJobs'[x] = to
  BY <1>1, JobWritten
<1>4. x \in Nat BY DEF I!TypeOK, Xs
<1>5. ProgressStep(x) BY <1>1, <1>2, <1>3 DEF ProgressStep
<1> QED BY <1>1, <1>2, <1>3, <1>4, <1>5 DEF Types, I!TypeOK, IntakeKinds

LEMMA VisionIsKind ==
  ASSUME I!TypeOK, Table, NEW x \in Xs, I!VisionSuccess(x)
  PROVE  Types
<1>0. extractions[x] \in I!Extraction BY DEF I!TypeOK, Xs
<1> DEFINE e == [extractions[x] EXCEPT !.status = "IN_PROGRESS"]
<1>2. e \in I!Extraction /\ e.status = "IN_PROGRESS" /\ e.submit = extractions[x].submit
      /\ e.resolution = extractions[x].resolution /\ e.byStaff = extractions[x].byStaff
  BY <1>0 DEF I!Extraction
<1>3. extractions' = [extractions EXCEPT ![x] = e] BY DEF I!VisionSuccess, I!TypeOK, Xs
<1> HIDE DEF e
<1>4. extractions' \in Seq(I!Extraction) /\ RowTouched(x) /\ extractions'[x] = e
  BY <1>2, <1>3, RowWritten
<1>5. /\ disturbed' \in [I!Disturbance -> Nat]
      /\ \/ extractions[x].status = "PENDING" /\ UNCHANGED disturbed
         \/ Counts("late")
  BY CountsDisturbance DEF I!VisionSuccess, I!DisturbIf, I!Disturbance, I!TypeOK
<1>6. /\ <<x, "vision.success">> \in pending /\ pending' \subseteq pending
      /\ UNCHANGED <<kind, status, document, images, docaiJobs, req>>
  BY DEF I!VisionSuccess
<1>7. VisionStep(x) BY <1>2, <1>4, <1>5, <1>6 DEF VisionStep
<1> QED BY <1>4, <1>5, <1>6, <1>7 DEF Types, I!TypeOK, IntakeKinds

LEMMA ServeIsKind ==
  ASSUME I!TypeOK, Table, NEW x \in Xs, NEW r \in Req,
         I!StartSuccess(r, x) \/ \E event \in I!Event : I!StartFailed(r, x, event)
  PROVE  Types
<1>0. x \in Nat BY DEF I!TypeOK, Xs
<1>1. ASSUME NEW s \in I!Request, NEW event \in I!Event, I!StartWebhook(r, x, event, s),
             s.x = x, s.event = event,
             \/ s.op = "success" /\ event = "success"
             \/ /\ s.op = "failed" /\ s.resolution = I!Verdict(event)
                /\ event \in {"vision.failed", "structure.failed"}
      PROVE  Types
  <2>1. /\ req[r].op = "none" /\ req' = [req EXCEPT ![r] = s] /\ <<x, event>> \in pending
        /\ UNCHANGED <<kind, status, document, images, extractions, docaiJobs, pending>>
    BY <1>1, IdleRequest DEF I!StartWebhook
  <2>2. /\ disturbed' \in [I!Disturbance -> Nat]
        /\ \/ /\ UNCHANGED disturbed
              /\ \A q \in Req : req[q].x = x => req[q].event # event
           \/ Counts("repeated")
    BY <1>1, CountsDisturbance DEF I!StartWebhook, I!DisturbIf, I!Disturbance, I!TypeOK
  <2>3. req' \in [Req -> I!Request] /\ req'[r] = s /\ OnlySlot(r) BY <2>1, SlotWritten
  <2>4. ServeStep(r) BY <1>1, <2>1, <2>2, <2>3 DEF ServeStep
  <2> QED BY <2>1, <2>2, <2>3, <2>4 DEF Types, I!TypeOK, IntakeKinds
<1>2. CASE I!StartSuccess(r, x)
  <2> DEFINE s == [I!Idle EXCEPT !.op = "success", !.step = "write", !.x = x,
                     !.event = "success", !.seen = document, !.batch = images.batch]
  <2>1. document \in {"null", "extracted", "typed"} /\ images.batch \in Nat BY DEF I!TypeOK
  <2>2. s \in I!Request BY <1>0, <2>1, IdleRequest DEF I!Request, I!Event
  <2>3. s.x = x /\ s.event = "success" /\ s.op = "success" BY IdleRequest DEF I!Request
  <2>4. I!StartWebhook(r, x, "success", s) BY <1>2 DEF I!StartSuccess
  <2> HIDE DEF s
  <2> QED BY <1>1, <2>2, <2>3, <2>4 DEF I!Event
<1>3. ASSUME NEW event \in I!Event, I!StartFailed(r, x, event) PROVE Types
  <2> DEFINE s == [I!Idle EXCEPT !.op = "failed", !.step = "commit", !.x = x,
                     !.event = event, !.resolution = I!Verdict(event)]
  <2>1. I!Verdict(event) \in I!Resolution BY DEF I!Verdict, I!Resolution
  <2>2. s \in I!Request BY <1>0, <2>1, IdleRequest DEF I!Request
  <2>3. s.x = x /\ s.event = event /\ s.op = "failed" /\ s.resolution = I!Verdict(event)
    BY IdleRequest DEF I!Request
  <2>4. I!StartWebhook(r, x, event, s) /\ event \in {"vision.failed", "structure.failed"}
    BY <1>3 DEF I!StartFailed
  <2> HIDE DEF s
  <2> QED BY <1>1, <2>2, <2>3, <2>4
<1> QED BY <1>2, <1>3

LEMMA BeginIsKind ==
  ASSUME I!TypeOK, Table, NEW r \in Req, I!Call(r)
  PROVE  Types
<1>0. extractions \in Seq(I!Extraction) /\ Len(extractions) \in Nat BY DEF I!TypeOK
<1>1. PICK op \in I!CallerOps, x \in Nat, resolution \in I!Resolution :
        /\ I!Begin(r, op, x, resolution)
        /\ op \in {"resubmit", "resolve"} =>
             /\ extractions # <<>> /\ I!Newest.status = "FAILED"
             /\ x = Len(extractions)
        /\ op = "verify" => kind = "found" /\ I!Newest.status = "COMPLETED"
        /\ op \in {"submit", "verify", "reject"} => kind # "none"
  <2>1. "none" \in I!Resolution /\ 0 \in Nat BY DEF I!Resolution
  <2>2. {"resubmit", "resolve", "verify", "reject", "submit"} = I!CallerOps
    BY DEF I!CallerOps
  <2>3. CASE I!StartResubmit(r) BY <1>0, <2>1, <2>2, <2>3 DEF I!StartResubmit
  <2>4. CASE I!StartSubmit(r) \/ I!StartHandIn(r)
    BY <2>1, <2>2, <2>4 DEF I!StartSubmit, I!StartHandIn
  <2>5. CASE I!StartVerify(r) BY <2>1, <2>2, <2>5 DEF I!StartVerify
  <2>6. CASE I!StartReject(r) BY <2>1, <2>2, <2>6 DEF I!StartReject
  <2>7. CASE \E resolution \in I!Resolution \ {"none"} : I!StartResolve(r, resolution)
    BY <1>0, <2>2, <2>7 DEF I!StartResolve
  <2> QED BY <2>3, <2>4, <2>5, <2>6, <2>7 DEF I!Call
<1>2. UNCHANGED <<kind, status, document, images, extractions, docaiJobs, pending>>
  BY DEF I!Call, I!StartResubmit, I!StartSubmit, I!StartHandIn, I!StartVerify,
     I!StartReject,
         I!StartResolve
<1> DEFINE s == [I!Idle EXCEPT !.op = op, !.step = "commit", !.x = x,
                               !.resolution = resolution]
<1>3. s \in I!Request /\ s.op = op /\ s.x = x BY IdleRequest DEF I!Request, I!CallerOps
<1>4. req[r].op = "none" /\ req' = [req EXCEPT ![r] = s]
  BY <1>1, IdleRequest DEF I!Begin
<1> HIDE DEF s
<1>5. req' \in [Req -> I!Request] /\ req'[r] = s /\ OnlySlot(r) BY <1>3, <1>4, SlotWritten
<1>6. /\ disturbed' \in [I!Disturbance -> Nat]
      /\ (UNCHANGED disturbed /\ \A q \in Req : ~Caller(q)) \/ Counts("overlap")
  BY <1>1, CountsDisturbance DEF I!Begin, I!DisturbIf, I!Disturbance, I!TypeOK, Caller
<1>7. extractions # <<>> => Len(extractions) > 0 BY <1>0
<1>8. kind # "none" BY <1>0, <1>1, <1>7 DEF Table, I!CallerOps
<1>9. BeginStep(r) BY <1>1, <1>2, <1>3, <1>4, <1>5, <1>6, <1>7, <1>8 DEF BeginStep
<1> QED BY <1>2, <1>5, <1>6, <1>9 DEF Types, I!TypeOK, IntakeKinds

LEMMA AcknowledgeCounts ==
  ASSUME I!TypeOK, NEW x, NEW event, I!Acknowledge(x, event)
  PROVE  /\ disturbed' \in [I!Disturbance -> Nat] /\ pending' \subseteq pending
         /\ \/ UNCHANGED disturbed /\ pending' = pending \ {<<x, event>>}
            \/ Counts("repeated") /\ UNCHANGED pending
BY CountsDisturbance DEF I!Acknowledge, I!Disturbance, I!TypeOK

LEMMA HandleIsKind ==
  ASSUME I!TypeOK, Table, NEW r \in Req, I!Handle(r)
  PROVE  Types
<1>0. req[r] \in I!Request BY DEF I!TypeOK
<1>1. CASE I!ApplyFields(r)
  <2>1. I!Goto(r, "move") /\ document' \in {"null", "extracted", "typed"}
        /\ UNCHANGED <<kind, status, images, extractions, docaiJobs, pending, disturbed>>
    BY <1>1 DEF I!ApplyFields, I!TypeOK
  <2>2. QuietStep /\ req' \in [Req -> I!Request]
    BY <2>1, SlotMoves DEF QuietStep, OnlySlot
  <2> QED BY <2>1, <2>2 DEF Types, I!TypeOK, IntakeKinds
<1>2. CASE I!MoveImages(r)
  <2>1. I!Goto(r, "complete") /\ UNCHANGED <<kind, status, document, extractions, docaiJobs, pending,
                                           disturbed>>
        /\ images' \in [batch: Nat, moved: BOOLEAN]
    BY <1>2 DEF I!MoveImages, I!TypeOK
  <2>2. QuietStep /\ req' \in [Req -> I!Request]
    BY <2>1, SlotMoves DEF QuietStep, OnlySlot
  <2> QED BY <2>1, <2>2 DEF Types, I!TypeOK, IntakeKinds
<1>3. CASE I!Complete(r)
  <2>1. req[r].op = "success" /\ I!Done(r) /\ I!Acknowledge(req[r].x, "success")
        /\ UNCHANGED <<kind, status, document, images, docaiJobs>>
        /\ extractions' = [extractions EXCEPT ![req[r].x].status = "COMPLETED"]
    BY <1>3 DEF I!Complete, I!At
  <2>2. PICK x \in Xs : x = req[r].x BY <2>1 DEF Table
  <2> DEFINE e == [extractions[x] EXCEPT !.status = "COMPLETED"]
  <2>3. extractions[x] \in I!Extraction BY DEF I!TypeOK, Xs
  <2>4. e \in I!Extraction /\ e.status = "COMPLETED" /\ e.submit = extractions[x].submit
        /\ e.resolution = extractions[x].resolution /\ e.byStaff = extractions[x].byStaff
    BY <2>3 DEF I!Extraction
  <2>5. extractions' = [extractions EXCEPT ![x] = e] BY <2>1, <2>2 DEF I!TypeOK, Xs
  <2> HIDE DEF e
  <2>6. extractions' \in Seq(I!Extraction) /\ RowTouched(x) /\ extractions'[x] = e
    BY <2>4, <2>5, RowWritten
  <2>7. req' \in [Req -> I!Request] /\ Frees(r) BY <2>1, SlotFreed
  <2>8. disturbed' \in [I!Disturbance -> Nat] /\ pending' \subseteq pending
        /\ (UNCHANGED disturbed \/ Counts("repeated"))
    BY <2>1, AcknowledgeCounts
  <2>9. CompleteStep(r) BY <2>1, <2>2, <2>4, <2>6, <2>7, <2>8 DEF CompleteStep
  <2> QED BY <2>1, <2>6, <2>7, <2>8, <2>9 DEF Types, I!TypeOK, IntakeKinds
<1>4. CASE I!RecordFailure(r)
  <2>1. req[r].op = "failed" /\ I!Done(r) /\ I!Acknowledge(req[r].x, req[r].event)
        /\ UNCHANGED <<kind, status, document, images, docaiJobs>>
        /\ extractions' = [extractions EXCEPT
                ![req[r].x].status = "FAILED", ![req[r].x].resolution = req[r].resolution]
    BY <1>4 DEF I!RecordFailure, I!At
  <2>2. PICK x \in Xs : x = req[r].x BY <2>1 DEF Table
  <2> DEFINE e == [extractions[x] EXCEPT !.status = "FAILED",
                                         !.resolution = req[r].resolution]
  <2>3. extractions[x] \in I!Extraction BY DEF I!TypeOK, Xs
  <2>4. e \in I!Extraction /\ e.status = "FAILED" /\ e.submit = extractions[x].submit
        /\ e.resolution = req[r].resolution /\ e.byStaff = extractions[x].byStaff
    BY <1>0, <2>3 DEF I!Extraction, I!Request
  <2>5. extractions' = [extractions EXCEPT ![x] = e]
    BY <2>1, <2>2 DEF I!TypeOK, Xs, I!Extraction
  <2> HIDE DEF e
  <2>6. extractions' \in Seq(I!Extraction) /\ RowTouched(x) /\ extractions'[x] = e
    BY <2>4, <2>5, RowWritten
  <2>7. req' \in [Req -> I!Request] /\ Frees(r) BY <2>1, SlotFreed
  <2>8. disturbed' \in [I!Disturbance -> Nat] /\ pending' \subseteq pending
        /\ \/ UNCHANGED disturbed /\ pending' = pending \ {<<req[r].x, req[r].event>>}
           \/ Counts("repeated") /\ UNCHANGED pending
    BY <2>1, AcknowledgeCounts
  <2>9. FailStep(r) BY <2>1, <2>2, <2>4, <2>6, <2>7, <2>8 DEF FailStep
  <2> QED BY <2>1, <2>6, <2>7, <2>8, <2>9 DEF Types, I!TypeOK, IntakeKinds
<1>5. CASE I!Resubmit(r)
  <2>1. /\ Resubmitting(r) /\ I!Extract /\ I!Done(r)
        /\ UNCHANGED <<kind, status, document, pending, disturbed>>
    BY <1>5 DEF I!Resubmit, I!At, Resubmitting
  <2>2. req' \in [Req -> I!Request] /\ Frees(r) BY <2>1, SlotFreed
  <2>3. ResubmitStep(r) BY <2>1, <2>2, RowAdded DEF ResubmitStep
  <2> QED BY <2>1, <2>2, <2>3, RowAdded DEF Types, I!TypeOK, IntakeKinds
<1>6. CASE I!Resolve(r)
  <2>1. req[r].op = "resolve" /\ I!Done(r)
        /\ UNCHANGED <<kind, status, document, images, docaiJobs, pending, disturbed>>
        /\ extractions' = [extractions EXCEPT
                ![req[r].x].resolution = req[r].resolution, ![req[r].x].byStaff = TRUE]
    BY <1>6 DEF I!Resolve, I!At
  <2>2. PICK x \in Xs : x = req[r].x BY <2>1 DEF Table
  <2> DEFINE e == [extractions[x] EXCEPT !.resolution = req[r].resolution,
                                         !.byStaff = TRUE]
  <2>3. extractions[x] \in I!Extraction BY DEF I!TypeOK, Xs
  <2>4. e \in I!Extraction /\ e.status = extractions[x].status /\ e.byStaff = TRUE
        /\ e.submit = extractions[x].submit
    BY <1>0, <2>3 DEF I!Extraction, I!Request
  <2>5. extractions' = [extractions EXCEPT ![x] = e]
    BY <2>1, <2>2 DEF I!TypeOK, Xs, I!Extraction
  <2> HIDE DEF e
  <2>6. extractions' \in Seq(I!Extraction) /\ RowTouched(x) /\ extractions'[x] = e
    BY <2>4, <2>5, RowWritten
  <2>7. req' \in [Req -> I!Request] /\ Frees(r) BY <2>1, SlotFreed
  <2>8. ResolveStep(r) BY <2>1, <2>2, <2>4, <2>6, <2>7 DEF ResolveStep
  <2> QED BY <2>1, <2>6, <2>7, <2>8 DEF Types, I!TypeOK, IntakeKinds
<1>7. ASSUME NEW op \in {"submit", "verify", "reject"},
             NEW to \in {"SUBMITTED", "VERIFIED", "REJECTED"},
             to = "VERIFIED" => op = "verify", I!CommitStatus(r, op, to)
      PROVE  Types
  <2>1. /\ req[r].op = op /\ status' = to /\ I!Done(r)
        /\ UNCHANGED <<kind, document, images, extractions, docaiJobs, pending, disturbed>>
    BY <1>7 DEF I!CommitStatus, I!At
  <2>2. req' \in [Req -> I!Request] /\ Frees(r) BY <2>1, SlotFreed
  <2>3. CommitStep(r) BY <1>7, <2>1, <2>2 DEF CommitStep
  <2> QED BY <2>1, <2>2, <2>3 DEF Types, I!TypeOK, IntakeKinds
<1> QED BY <1>1, <1>2, <1>3, <1>4, <1>5, <1>6, <1>7 DEF I!Handle

LEMMA IntakeStepKinds ==
  ASSUME I!TypeOK, Table, [I!Next]_I!vars
  PROVE  Types
<1>1. CASE I!EditDocument
  <2>1. QuietStep BY <1>1 DEF I!EditDocument, QuietStep
  <2> QED BY <1>1, <2>1 DEF I!EditDocument, Types, I!TypeOK, IntakeKinds
<1>2. CASE UNCHANGED I!vars
  <2>1. QuietStep BY <1>2 DEF I!vars, QuietStep
  <2> QED BY <1>2, <2>1 DEF I!vars, Types, I!TypeOK, IntakeKinds
<1>3. ASSUME NEW x \in Xs, I!Deliver(x) PROVE Types
  <2>1. ASSUME NEW event \in I!Event, I!Drop(x, event) PROVE Types
    <3>1. DropStep BY <2>1 DEF I!Drop, DropStep
    <3> QED BY <2>1, <3>1 DEF I!Drop, Types, I!TypeOK, IntakeKinds
  <2> QED BY <1>3, <2>1, VisionIsKind, ServeIsKind DEF I!Deliver
<1>4. ASSUME NEW r \in Req, I!Die(r) PROVE Types
  <2>1. I!Done(r) /\ I!Disturb("death")
        /\ UNCHANGED <<kind, status, document, images, extractions, docaiJobs, pending>>
    BY <1>4 DEF I!Die
  <2>2. req' \in [Req -> I!Request] /\ Frees(r) BY <2>1, SlotFreed
  <2>3. disturbed' \in [I!Disturbance -> Nat] /\ Counts("death")
    BY <2>1, CountsDisturbance DEF I!Disturbance
  <2>4. DieStep(r) BY <2>1, <2>2, <2>3 DEF DieStep
  <2> QED BY <2>1, <2>2, <2>3, <2>4 DEF Types, I!TypeOK, IntakeKinds
<1>5. CASE \E x \in DOMAIN extractions :
             I!Answer(x) \/ I!Stamp(x) \/ I!LoseCall(x) \/ I!Docai(x) \/ I!Deliver(x)
  BY <1>3, <1>5, CallIsKind, ProgressIsKind DEF Xs
<1>6. CASE \E r \in Req : I!Call(r) \/ I!Handle(r) \/ I!Die(r)
  BY <1>4, <1>6, BeginIsKind, HandleIsKind
<1> QED BY <1>1, <1>2, <1>5, <1>6, ReportIsKind DEF I!Next

-----------------------------------------------------------------------------
(* Each part of the invariant is kept *)

\* Either a row is added at the end, or there are as many as before.
LEMMA RowNumbers ==
  ASSUME I!TypeOK, I!TypeOK', IntakeKinds
  PROVE  /\ Len(extractions) \in Nat /\ Xs = 1..Len(extractions)
         /\ Xs' = 1..Len(extractions') /\ Xs \subseteq Xs'
         /\ \/ Adding /\ Xs' = Xs \cup {Len(extractions) + 1}
            \/ /\ Len(extractions') = Len(extractions) /\ Len(docaiJobs') = Len(docaiJobs)
               /\ Xs' = Xs
<1>1. Len(extractions) \in Nat /\ Xs = 1..Len(extractions)
      /\ Len(extractions') \in Nat /\ Xs' = 1..Len(extractions')
  BY DEF I!TypeOK, Xs
<1>2. \/ Adding \/ (Len(extractions') = Len(extractions) /\ Len(docaiJobs') = Len(docaiJobs))
  BY DEF IntakeKinds, QuietStep, ReportStep, DropStep, CallStep, ProgressStep, VisionStep,
         ServeStep, CompleteStep, FailStep, BeginStep, ResubmitStep, ResolveStep,
         CommitStep, DieStep, RowTouched, JobTouched
<1>3. CASE Adding
  <2>1. Len(extractions') = Len(extractions) + 1 BY <1>3 DEF Adding
  <2> QED BY <1>1, <1>3, <2>1
<1> QED BY <1>1, <1>2, <1>3

\* A report adds the first row, a resubmission every other.
LEMMA WhoAdds ==
  ASSUME IntakeKinds, Len(extractions') # Len(extractions)
  PROVE  ReportStep \/ \E r \in Req : ResubmitStep(r)
BY DEF IntakeKinds, QuietStep, DropStep, CallStep, ProgressStep, VisionStep, ServeStep,
       CompleteStep, FailStep, BeginStep, ResolveStep, CommitStep, DieStep, RowTouched

\* What the handlers say that were under way before.
LEMMA SlotKinds ==
  ASSUME IntakeKinds, NEW r \in Req
  PROVE  \/ /\ req'[r].op = req[r].op /\ req'[r].x = req[r].x
            /\ req'[r].event = req[r].event /\ req'[r].resolution = req[r].resolution
         \/ req'[r].op = "none"
         \/ ServeStep(r) \/ BeginStep(r)
<1>1. ASSUME NEW q \in Req, OnlySlot(q), q # r PROVE req'[r] = req[r]
  BY <1>1 DEF OnlySlot
<1>2. ASSUME NEW q \in Req, ServeStep(q) \/ BeginStep(q) PROVE OnlySlot(q)
  BY <1>2 DEF ServeStep, BeginStep
<1>3. ASSUME NEW q \in Req, Frees(q) PROVE req'[r] = req[r] \/ req'[r].op = "none"
  BY <1>3 DEF Frees, OnlySlot
<1>4. CASE \E q \in Req : ServeStep(q) \/ BeginStep(q) BY <1>1, <1>2, <1>4
<1>5. CASE \E q \in Req : Frees(q) BY <1>3, <1>5
<1>6. CASE req' = req \/ QuietStep BY <1>6 DEF QuietStep
<1>7. \/ req' = req \/ QuietStep \/ (\E q \in Req : Frees(q))
      \/ \E q \in Req : ServeStep(q) \/ BeginStep(q)
  BY DEF IntakeKinds, ReportStep, DropStep, CallStep, ProgressStep, VisionStep,
         CompleteStep, FailStep, ResubmitStep, ResolveStep, CommitStep, DieStep
<1> QED BY <1>4, <1>5, <1>6, <1>7

LEMMA TableStep ==
  ASSUME I!TypeOK, I!TypeOK', Table, IntakeKinds
  PROVE  Table'
<1>1. Len(docaiJobs') = Len(extractions')
  <2>1. Len(docaiJobs) = Len(extractions) BY DEF Table
  <2>2. CASE Adding BY <2>1, <2>2 DEF Adding
  <2> QED BY <2>1, <2>2, RowNumbers
<1>2. ASSUME kind' = "none"
      PROVE  status' = "DRAFT" /\ Len(extractions') = 0 /\ \A r \in Req : req'[r].op = "none"
  <2>1. kind = "none"
    BY <1>2 DEF IntakeKinds, QuietStep, ReportStep, DropStep, CallStep, ProgressStep,
         VisionStep, ServeStep, CompleteStep, FailStep, BeginStep, ResubmitStep,
         ResolveStep, CommitStep, DieStep
  <2>2. status = "DRAFT" /\ Len(extractions) = 0 /\ \A r \in Req : req[r].op = "none"
    BY <2>1 DEF Table
  <2>3. Xs = {} /\ pending = {} BY <2>2, RowNumbers DEF Table
  <2>4. DropStep \/ QuietStep \/ \E r \in Req : DieStep(r)
    BY <1>2, <2>1, <2>2, <2>3
       DEF IntakeKinds, ReportStep, ServeStep, CompleteStep, FailStep, BeginStep,
           ResubmitStep, ResolveStep, CommitStep, Resubmitting
  <2> QED BY <2>2, <2>4 DEF DropStep, QuietStep, DieStep, Frees, OnlySlot
<1>3. ASSUME kind' = "found" PROVE Len(extractions') > 0
  <2>1. CASE Adding BY <2>1, RowNumbers DEF Adding
  <2>2. CASE ~Adding
    <3>1. kind = "found" /\ Len(extractions') = Len(extractions)
      BY <1>3, <2>2, RowNumbers
         DEF IntakeKinds, QuietStep, ReportStep, DropStep, CallStep, ProgressStep,
             VisionStep, ServeStep, CompleteStep, FailStep, BeginStep, ResubmitStep,
             ResolveStep, CommitStep, DieStep
    <3> QED BY <3>1 DEF Table
  <2> QED BY <2>1, <2>2
<1>4. \A p \in pending' : p[1] \in Xs'
  <2>1. pending' \subseteq pending \/ \E x \in Xs : ProgressStep(x)
    BY DEF IntakeKinds, QuietStep, ReportStep, DropStep, CallStep, VisionStep, ServeStep,
           CompleteStep, FailStep, BeginStep, ResubmitStep, ResolveStep, CommitStep,
           DieStep
  <2>2. \A p \in pending' : p[1] \in Xs BY <2>1 DEF Table, ProgressStep
  <2> QED BY <2>2, RowNumbers
<1>5. ASSUME NEW r \in Req, req'[r].op \in {"success", "failed", "resolve"}
      PROVE  req'[r].x \in Xs'
  <2>1. req[r].op \in {"success", "failed", "resolve"} => req[r].x \in Xs BY DEF Table
  <2>2. ServeStep(r) => req'[r].x \in Xs BY DEF ServeStep, Table
  <2>3. BeginStep(r) => req'[r].x \in Xs
    <3> SUFFICES ASSUME BeginStep(r) PROVE req'[r].x \in Xs OBVIOUS
    <3>1. req'[r].op = "resolve" BY <1>5 DEF BeginStep, I!CallerOps
    <3>2. Len(extractions) > 0 /\ req'[r].x = Len(extractions) BY <3>1 DEF BeginStep
    <3> QED BY <3>2, RowNumbers
  <2>4. req'[r].x \in Xs BY <1>5, <2>1, <2>2, <2>3, SlotKinds
  <2> QED BY <2>4, RowNumbers
<1> QED BY <1>1, <1>2, <1>3, <1>4, <1>5 DEF Table

\* What docai has come to of a job stays.
LEMMA JobsStay ==
  ASSUME I!TypeOK, I!TypeOK', Table, Truth, IntakeKinds, NEW x \in Xs
  PROVE  /\ docaiJobs[x] \in Failures \cup {"succeeded"} => docaiJobs'[x] = docaiJobs[x]
         /\ docaiJobs[x] = "structure" =>
              docaiJobs'[x] \in {"structure", "succeeded", "structureFailed"}
<1>1. extractions[x].submit = "calling" => docaiJobs[x] = "none" BY DEF Truth
<1>2. docaiJobs'[x] = docaiJobs[x] \/ \E y \in Xs : CallStep(y) \/ ProgressStep(y)
  BY DEF IntakeKinds, QuietStep, ReportStep, DropStep, VisionStep, ServeStep,
         CompleteStep, FailStep, BeginStep, ResubmitStep, ResolveStep, CommitStep,
         DieStep, Adding
<1>3. ASSUME NEW y \in Xs, CallStep(y)
      PROVE  docaiJobs'[x] = docaiJobs[x] \/ docaiJobs[x] = "none"
  BY <1>1, <1>3 DEF CallStep, JobTouched
<1>4. ASSUME NEW y \in Xs, ProgressStep(y)
      PROVE  docaiJobs'[x] = docaiJobs[x] \/ docaiJobs[x] = "vision"
               \/ (docaiJobs[x] = "structure" /\ docaiJobs'[x] \in {"succeeded", "structureFailed"})
  BY <1>4 DEF ProgressStep, JobTouched
<1> QED BY <1>2, <1>3, <1>4 DEF Failures

LEMMA TruthStep ==
  ASSUME I!TypeOK, I!TypeOK', Table, Truth, IntakeKinds
  PROVE  Truth'
<1>1. ASSUME NEW x \in Xs PROVE
       /\ extractions'[x].submit = "calling" => docaiJobs'[x] = "none"
       /\ extractions'[x].status = "COMPLETED" => docaiJobs'[x] = "succeeded"
       /\ extractions'[x].status = "FAILED" => docaiJobs'[x] \in Failures
  <2>1. /\ extractions[x].submit = "calling" => docaiJobs[x] = "none"
        /\ extractions[x].status = "COMPLETED" => docaiJobs[x] = "succeeded"
        /\ extractions[x].status = "FAILED" => docaiJobs[x] \in Failures
    BY DEF Truth
  <2>2. CASE extractions'[x] = extractions[x] /\ docaiJobs'[x] = docaiJobs[x]
    BY <2>1, <2>2
  <2>3. ASSUME NEW y \in Xs, CallStep(y) 
      PROVE  /\ extractions'[x].submit = "calling" => docaiJobs'[x] = "none"
             /\ extractions'[x].status = "COMPLETED" => docaiJobs'[x] = "succeeded"
             /\ extractions'[x].status = "FAILED" => docaiJobs'[x] \in Failures
    BY <2>1, <2>2, <2>3 DEF CallStep, RowTouched, JobTouched, Failures
  <2>4. ASSUME NEW y \in Xs, ProgressStep(y) 
      PROVE  /\ extractions'[x].submit = "calling" => docaiJobs'[x] = "none"
             /\ extractions'[x].status = "COMPLETED" => docaiJobs'[x] = "succeeded"
             /\ extractions'[x].status = "FAILED" => docaiJobs'[x] \in Failures
    BY <2>1, <2>2, <2>4 DEF ProgressStep, JobTouched, Failures
  <2>5. ASSUME NEW y \in Xs, VisionStep(y) 
      PROVE  /\ extractions'[x].submit = "calling" => docaiJobs'[x] = "none"
             /\ extractions'[x].status = "COMPLETED" => docaiJobs'[x] = "succeeded"
             /\ extractions'[x].status = "FAILED" => docaiJobs'[x] \in Failures
    BY <2>1, <2>2, <2>5 DEF VisionStep, RowTouched
  <2>6. ASSUME NEW r \in Req, CompleteStep(r) 
      PROVE  /\ extractions'[x].submit = "calling" => docaiJobs'[x] = "none"
             /\ extractions'[x].status = "COMPLETED" => docaiJobs'[x] = "succeeded"
             /\ extractions'[x].status = "FAILED" => docaiJobs'[x] \in Failures
    <3>1. docaiJobs[req[r].x] = "succeeded" BY <2>6 DEF Truth, CompleteStep
    <3> QED BY <2>1, <2>2, <2>6, <3>1 DEF CompleteStep, RowTouched
  <2>7. ASSUME NEW r \in Req, FailStep(r) 
      PROVE  /\ extractions'[x].submit = "calling" => docaiJobs'[x] = "none"
             /\ extractions'[x].status = "COMPLETED" => docaiJobs'[x] = "succeeded"
             /\ extractions'[x].status = "FAILED" => docaiJobs'[x] \in Failures
    <3>1. docaiJobs[req[r].x] \in Failures BY <2>7 DEF Truth, FailStep, Failures
    <3> QED BY <2>1, <2>2, <2>7, <3>1 DEF FailStep, RowTouched
  <2>8. ASSUME NEW r \in Req, ResolveStep(r) 
      PROVE  /\ extractions'[x].submit = "calling" => docaiJobs'[x] = "none"
             /\ extractions'[x].status = "COMPLETED" => docaiJobs'[x] = "succeeded"
             /\ extractions'[x].status = "FAILED" => docaiJobs'[x] \in Failures
    BY <2>1, <2>2, <2>8 DEF ResolveStep, RowTouched
  <2> QED BY <2>2, <2>3, <2>4, <2>5, <2>6, <2>7, <2>8
     DEF IntakeKinds, QuietStep, ReportStep, DropStep, ServeStep, BeginStep, ResubmitStep,
         CommitStep, DieStep, Adding
<1>2. ASSUME NEW x \in Xs' \ Xs
      PROVE  /\ docaiJobs'[x] = "none" /\ extractions'[x].status = "PENDING"
  <2>1. Adding /\ x = Len(extractions) + 1 BY RowNumbers
  <2>2. Len(docaiJobs) = Len(extractions) BY DEF Table
  <2> QED BY <2>1, <2>2 DEF Adding, I!NewExtraction
<1>3. ASSUME NEW x \in Xs PROVE
       /\ <<x, "success">> \in pending => docaiJobs[x] = "succeeded"
       /\ <<x, "vision.failed">> \in pending => docaiJobs[x] = "visionFailed"
       /\ <<x, "structure.failed">> \in pending => docaiJobs[x] = "structureFailed"
       /\ <<x, "vision.success">> \in pending =>
            docaiJobs[x] \in {"structure", "succeeded", "structureFailed"}
  BY DEF Truth
<1>4. ASSUME NEW x \in Xs PROVE
       /\ <<x, "success">> \in pending' => docaiJobs'[x] = "succeeded"
       /\ <<x, "vision.failed">> \in pending' => docaiJobs'[x] = "visionFailed"
       /\ <<x, "structure.failed">> \in pending' => docaiJobs'[x] = "structureFailed"
       /\ <<x, "vision.success">> \in pending' =>
            docaiJobs'[x] \in {"structure", "succeeded", "structureFailed"}
  <2>1. pending' \subseteq pending \/ \E y \in Xs : ProgressStep(y)
    BY DEF IntakeKinds, QuietStep, ReportStep, DropStep, CallStep, VisionStep, ServeStep,
           CompleteStep, FailStep, BeginStep, ResubmitStep, ResolveStep, CommitStep,
           DieStep
  <2>2. CASE pending' \subseteq pending BY <1>3, <2>2, JobsStay DEF Failures
  <2>3. ASSUME NEW y \in Xs, ProgressStep(y) 
      PROVE  /\ <<x, "success">> \in pending' => docaiJobs'[x] = "succeeded"
             /\ <<x, "vision.failed">> \in pending' => docaiJobs'[x] = "visionFailed"
             /\ <<x, "structure.failed">> \in pending' => docaiJobs'[x] = "structureFailed"
             /\ <<x, "vision.success">> \in pending' =>
                  docaiJobs'[x] \in {"structure", "succeeded", "structureFailed"}
    <3>1. PICK event \in I!Event :
            /\ pending' = pending \cup {<<y, event>>}
            /\ <<docaiJobs[y], docaiJobs'[y], event>> \in
                 {<<"vision", "structure", "vision.success">>,
                  <<"structure", "succeeded", "success">>,
                  <<"vision", "visionFailed", "vision.failed">>,
                  <<"structure", "structureFailed", "structure.failed">>}
      BY <2>3 DEF ProgressStep
    <3>2. CASE x = y BY <1>3, <3>1, <3>2
    <3>3. CASE x # y
      <4>1. docaiJobs'[x] = docaiJobs[x] BY <2>3, <3>3 DEF ProgressStep, JobTouched
      <4> QED BY <1>3, <3>1, <3>3, <4>1
    <3> QED BY <3>2, <3>3
  <2> QED BY <2>1, <2>2, <2>3
<1>5. ASSUME NEW x \in Xs' \ Xs, NEW event PROVE <<x, event>> \notin pending'
  <2>0. Len(extractions') # Len(extractions) BY <1>5, RowNumbers
  <2>1. UNCHANGED pending BY <2>0, WhoAdds DEF ReportStep, ResubmitStep
  <2> QED BY <1>5, <2>1 DEF Table
<1>6. ASSUME NEW r \in Req PROVE
       /\ req'[r].op = "success" => docaiJobs'[req'[r].x] = "succeeded"
       /\ req'[r].op = "failed" =>
            \/ req'[r].event = "vision.failed" /\ docaiJobs'[req'[r].x] = "visionFailed"
            \/ /\ req'[r].event = "structure.failed"
               /\ docaiJobs'[req'[r].x] = "structureFailed" /\ req'[r].resolution = "none"
  <2>1. CASE /\ req'[r].op = req[r].op /\ req'[r].x = req[r].x
             /\ req'[r].event = req[r].event /\ req'[r].resolution = req[r].resolution
    <3>1. req[r].op \in {"success", "failed"} => req[r].x \in Xs BY DEF Table
    <3>2. /\ req[r].op = "success" => docaiJobs[req[r].x] = "succeeded"
          /\ req[r].op = "failed" =>
            \/ req[r].event = "vision.failed" /\ docaiJobs[req[r].x] = "visionFailed"
            \/ /\ req[r].event = "structure.failed"
               /\ docaiJobs[req[r].x] = "structureFailed" /\ req[r].resolution = "none"
      BY DEF Truth
    <3> QED BY <2>1, <3>1, <3>2, JobsStay DEF Failures
  <2>2. CASE ServeStep(r)
    <3>1. req'[r].x \in Xs /\ docaiJobs' = docaiJobs BY <2>2 DEF ServeStep, Table
    <3> QED BY <1>3, <2>2, <3>1 DEF ServeStep, I!Verdict
  <2>3. CASE BeginStep(r) BY <2>3 DEF BeginStep, I!CallerOps
  <2> QED BY <2>1, <2>2, <2>3, SlotKinds
<1>7. Xs' = Xs \cup (Xs' \ Xs) BY RowNumbers
<1>8. \A x \in Xs' \ Xs : docaiJobs'[x] = "none" /\ extractions'[x].status = "PENDING"
  BY <1>2
<1> HIDE DEF Xs
<1> QED BY <1>1, <1>4, <1>5, <1>6, <1>7, <1>8 DEF Truth

LEMMA CallersStep ==
  ASSUME I!TypeOK, I!TypeOK', Callers, IntakeKinds
  PROVE  Callers'
<1>0. /\ disturbed["overlap"] \in Nat /\ disturbed'["overlap"] \in Nat
      /\ "overlap" \in I!Disturbance
  BY DEF I!TypeOK, I!Disturbance
<1>1. \/ /\ disturbed'["overlap"] = disturbed["overlap"]
         /\ \A q \in Req : Caller(q)' => Caller(q)
      \/ \E r \in Req : BeginStep(r)
  <2>1. \/ disturbed'["overlap"] = disturbed["overlap"] \/ \E r \in Req : BeginStep(r)
    BY DEF IntakeKinds, QuietStep, ReportStep, DropStep, CallStep, ProgressStep,
           VisionStep, ServeStep, CompleteStep, FailStep, ResubmitStep, ResolveStep,
           CommitStep, DieStep, Counts, I!Disturbance
  <2>2. ASSUME NEW q \in Req, Caller(q)', ~BeginStep(q) PROVE Caller(q)
    BY <2>2, SlotKinds DEF Caller, ServeStep, I!CallerOps
  <2> QED BY <2>1, <2>2
<1>2. ASSUME NEW r \in Req, BeginStep(r) PROVE Callers'
  <2>1. \A q \in Req : Caller(q)' => Caller(q) \/ q = r
    BY <1>2 DEF BeginStep, OnlySlot, Caller
  <2>2. \/ disturbed'["overlap"] = disturbed["overlap"] /\ \A q \in Req : ~Caller(q)
        \/ disturbed'["overlap"] = disturbed["overlap"] + 1
    BY <1>2 DEF BeginStep, Counts
  <2>3. CASE \A q \in Req : ~Caller(q)
    <3>1. \A q \in Req : Caller(q)' => q = r BY <2>1, <2>3
    <3> QED BY <3>1 DEF Callers
  <2>4. CASE disturbed'["overlap"] = disturbed["overlap"] + 1
    <3>1. disturbed'["overlap"] # 0 BY <1>0, <2>4
    <3>2. disturbed'["overlap"] <= 1 => disturbed["overlap"] = 0 BY <1>0, <2>4
    <3>3. disturbed["overlap"] = 0 => \A p, q \in Req : Caller(p) /\ Caller(q) => p = q
      BY DEF Callers
    <3> QED BY <2>1, <3>1, <3>2, <3>3 DEF Callers
  <2> QED BY <2>2, <2>3, <2>4
<1>3. CASE /\ disturbed'["overlap"] = disturbed["overlap"]
           /\ \A q \in Req : Caller(q)' => Caller(q)
  BY <1>3 DEF Callers
<1> QED BY <1>1, <1>2, <1>3

\* Disturbances are only counted up.
LEMMA CountsStay ==
  ASSUME I!TypeOK, I!TypeOK', IntakeKinds, NEW d \in I!Disturbance
  PROVE  disturbed[d] \in Nat /\ disturbed'[d] \in Nat /\ disturbed[d] <= disturbed'[d]
<1>1. disturbed[d] \in Nat /\ disturbed'[d] \in Nat BY DEF I!TypeOK
<1>2. disturbed' = disturbed \/ \E e \in I!Disturbance : Counts(e)
  BY DEF IntakeKinds, QuietStep, ReportStep, DropStep, CallStep, ProgressStep,
         VisionStep, ServeStep, CompleteStep, FailStep, BeginStep, ResubmitStep,
         ResolveStep, CommitStep, DieStep, I!Disturbance
<1>3. disturbed'[d] = disturbed[d] \/ disturbed'[d] = disturbed[d] + 1
  BY <1>2 DEF Counts
<1> QED BY <1>1, <1>3

\* Who has a handler of the caller after a step: another one only begins.
LEMMA OpStays ==
  ASSUME IntakeKinds, NEW r \in Req, Caller(r)'
  PROVE  BeginStep(r) \/ (Caller(r) /\ req'[r].op = req[r].op)
BY SlotKinds DEF Caller, ServeStep, I!CallerOps

LEMMA RestedStep ==
  ASSUME I!TypeOK, I!TypeOK', Table, Truth, Callers, Rested, IntakeKinds
  PROVE  Rested'
<1> SUFFICES ASSUME disturbed'["overlap"] <= 1
             PROVE  /\ Verified' => Len(extractions') > 0 /\ NewestJob' = "succeeded"
                    /\ \A r \in Req : Resubmitting(r)' =>
                         /\ Len(extractions') > 0
                         /\ \/ NewestJob' \in Failures
                            \/ /\ disturbed'["overlap"] = 1 /\ status' # "VERIFIED"
                               /\ \A q \in Req : Caller(q)' => q = r
  BY DEF Rested
<1>1. /\ disturbed["overlap"] \in Nat /\ disturbed'["overlap"] \in Nat
      /\ disturbed["overlap"] <= disturbed'["overlap"]
  BY CountsStay DEF I!Disturbance
<1>2. /\ Verified => Len(extractions) > 0 /\ NewestJob = "succeeded"
      /\ \A r \in Req : Resubmitting(r) =>
           /\ Len(extractions) > 0
           /\ \/ NewestJob \in Failures
              \/ /\ disturbed["overlap"] = 1 /\ status # "VERIFIED"
                 /\ \A q \in Req : Caller(q) => q = r
  BY <1>1 DEF Rested
<1>3. \A r \in Req : Resubmitting(r) \/ req[r].op = "verify" => Caller(r)
  BY DEF Resubmitting, Caller, I!CallerOps
<1>4. \A r \in Req : Resubmitting(r)' \/ req'[r].op = "verify" => Caller(r)'
  BY DEF Resubmitting, Caller, I!CallerOps
<1>5. CASE ReportStep
  <2>1. /\ kind = "none" /\ UNCHANGED <<status, req>> BY <1>5 DEF ReportStep
  <2>2. status' = "DRAFT" /\ \A r \in Req : req'[r].op = "none" BY <2>1 DEF Table
  <2> QED BY <2>2 DEF Verified, Resubmitting
<1>6. ASSUME NEW r \in Req, ResubmitStep(r)
      PROVE  /\ ~Verified'
             /\ \A p \in Req : Resubmitting(p)' =>
                  /\ Len(extractions') > 0
                  /\ disturbed'["overlap"] = 1 /\ status' # "VERIFIED"
                  /\ \A q \in Req : Caller(q)' => q = p
  <2>1. /\ Resubmitting(r) /\ Caller(r) /\ status' = status /\ disturbed' = disturbed
        /\ req'[r].op = "none" /\ \A q \in Req \ {r} : req'[q] = req[q]
    BY <1>3, <1>6 DEF ResubmitStep, Frees, OnlySlot
  <2>2. ~Caller(r)' BY <2>1 DEF Caller, I!CallerOps
  <2>3. \A q \in Req \ {r} : Caller(q)' => Caller(q) BY <2>1 DEF Caller
  <2>4. Len(extractions') > 0 BY <1>6, RowNumbers DEF ResubmitStep, Adding
  <2>5. CASE NewestJob \in Failures
    <3>1. ~Verified BY <1>2, <2>5 DEF Failures
    <3>2. ~Verified' BY <2>1, <3>1 DEF Verified
    <3>3. ASSUME NEW p \in Req, Resubmitting(p)' PROVE
            disturbed'["overlap"] = 1 /\ \A q \in Req : Caller(q)' => q = p
      <4>1. p # r /\ Caller(p) BY <1>4, <2>2, <2>3, <3>3
      <4>2. disturbed["overlap"] # 0 BY <2>1, <4>1 DEF Callers
      <4>3. disturbed["overlap"] = 1 BY <1>1, <4>2
      <4>4. ASSUME NEW q \in Req, Caller(q)' PROVE q = p
        <5>1. q # r /\ Caller(q) BY <2>2, <2>3, <4>4
        <5> QED BY <2>1, <4>1, <4>3, <5>1 DEF Callers
      <4> QED BY <2>1, <4>3, <4>4
    <3>4. status' # "VERIFIED" BY <3>2 DEF Verified
    <3> QED BY <2>4, <3>2, <3>3, <3>4
  <2>6. CASE status # "VERIFIED" /\ \A q \in Req : Caller(q) => q = r
    <3>1. \A q \in Req : ~Caller(q)' BY <2>2, <2>3, <2>6
    <3>2. ~Verified' BY <1>4, <2>1, <2>6, <3>1 DEF Verified
    <3> QED BY <1>4, <3>1, <3>2
  <2> QED BY <1>2, <2>1, <2>5, <2>6
<1>7. CASE Len(extractions') = Len(extractions)
  <2>0. Len(extractions) > 0 => Len(extractions) \in Xs BY RowNumbers
  <2>1. Len(extractions) > 0 /\ NewestJob \in Failures \cup {"succeeded"}
          => NewestJob' = NewestJob
    BY <1>7, <2>0, JobsStay DEF NewestJob
  <2>2. \A r \in Req : BeginStep(r) =>
          /\ docaiJobs' = docaiJobs /\ status' = status
          /\ disturbed' = disturbed => \A q \in Req : ~Caller(q)
          /\ disturbed' # disturbed => disturbed'["overlap"] = disturbed["overlap"] + 1
    BY <1>1 DEF BeginStep, Counts
  <2>3. ASSUME Verified' PROVE Len(extractions') > 0 /\ NewestJob' = "succeeded"
    <3>1. CASE Verified BY <1>2, <1>7, <2>1, <3>1
    <3>2. CASE ~Verified
      <4>1. status' = "VERIFIED" => \E r \in Req : BeginStep(r) /\ req'[r].op = "verify"
        BY <3>2 DEF IntakeKinds, QuietStep, ReportStep, DropStep, CallStep, ProgressStep,
                    VisionStep, ServeStep, CompleteStep, FailStep, BeginStep,
                    ResubmitStep, ResolveStep, CommitStep, DieStep, Verified
      <4>2. PICK r \in Req : BeginStep(r) /\ req'[r].op = "verify"
        BY <1>4, <2>3, <3>2, <4>1, OpStays DEF Verified
      <4>3. kind = "found" /\ I!Newest.status = "COMPLETED" BY <4>2 DEF BeginStep
      <4>4. Len(extractions) > 0 BY <4>3 DEF Table
      <4>5. NewestJob = "succeeded" BY <2>0, <4>3, <4>4 DEF Truth, I!Newest, NewestJob
      <4> QED BY <1>7, <2>1, <4>4, <4>5
    <3> QED BY <3>1, <3>2
  <2>4. ASSUME NEW r \in Req, Resubmitting(r)'
        PROVE  /\ Len(extractions') > 0
               /\ \/ NewestJob' \in Failures
                  \/ /\ disturbed'["overlap"] = 1 /\ status' # "VERIFIED"
                     /\ \A q \in Req : Caller(q)' => q = r
    <3>1. CASE BeginStep(r)
      <4>1. Len(extractions) > 0 /\ I!Newest.status = "FAILED"
        BY <2>4, <3>1 DEF BeginStep, Resubmitting
      <4>2. NewestJob \in Failures BY <2>0, <4>1 DEF Truth, I!Newest, NewestJob
      <4> QED BY <1>7, <2>1, <4>1, <4>2
    <3>2. CASE ~BeginStep(r)
      <4>1. Caller(r) /\ Resubmitting(r) BY <1>4, <2>4, <3>2, OpStays DEF Resubmitting
      <4>2. Len(extractions') > 0 BY <1>2, <1>7, <4>1
      <4>3. CASE NewestJob \in Failures BY <1>2, <2>1, <4>1, <4>2, <4>3
      <4>4. CASE /\ disturbed["overlap"] = 1 /\ status # "VERIFIED"
                 /\ \A q \in Req : Caller(q) => q = r
        <5>1. \A q \in Req : ~BeginStep(q)
          BY <1>1, <2>2, <4>1, <4>4
        <5>2. \A q \in Req : Caller(q)' => q = r BY <4>4, <5>1, OpStays
        <5>3. disturbed'["overlap"] = 1 BY <1>1, <4>4
        <5>4. status' # "VERIFIED"
          <6>1. req[r].op # "verify" BY <4>1 DEF Resubmitting
          <6>2. \A q \in Req : req[q].op # "verify" BY <1>3, <4>4, <6>1
          <6> QED
            BY <4>4, <6>2
               DEF IntakeKinds, QuietStep, ReportStep, DropStep, CallStep, ProgressStep,
                   VisionStep, ServeStep, CompleteStep, FailStep, BeginStep,
                   ResubmitStep, ResolveStep, CommitStep, DieStep
        <5> QED BY <4>2, <5>2, <5>3, <5>4
      <4> QED BY <1>2, <4>1, <4>3, <4>4
    <3> QED BY <3>1, <3>2
  <2> QED BY <2>3, <2>4
<1> QED BY <1>5, <1>6, <1>7, WhoAdds

\* Who writes the status and the resolution of a row.
LEMMA WhoWrites ==
  ASSUME IntakeKinds, NEW x \in Xs
  PROVE  \/ /\ extractions'[x].status = extractions[x].status
            /\ extractions'[x].resolution = extractions[x].resolution
            /\ extractions'[x].byStaff = extractions[x].byStaff
         \/ VisionStep(x)
         \/ \E r \in Req : /\ CompleteStep(r) \/ FailStep(r) \/ ResolveStep(r)
                           /\ req[r].x = x
<1>1. \/ extractions'[x] = extractions[x]
      \/ \E y \in Xs : CallStep(y) \/ VisionStep(y)
      \/ \E r \in Req : CompleteStep(r) \/ FailStep(r) \/ ResolveStep(r)
  BY DEF IntakeKinds, QuietStep, ReportStep, DropStep, ProgressStep, ServeStep, BeginStep,
         ResubmitStep, CommitStep, DieStep, Adding
<1>2. ASSUME NEW y \in Xs, CallStep(y) \/ VisionStep(y), ~VisionStep(x)
      PROVE  /\ extractions'[x].status = extractions[x].status
             /\ extractions'[x].resolution = extractions[x].resolution
             /\ extractions'[x].byStaff = extractions[x].byStaff
  BY <1>2 DEF CallStep, VisionStep, RowTouched
<1>3. ASSUME NEW r \in Req, CompleteStep(r) \/ FailStep(r) \/ ResolveStep(r),
             req[r].x # x
      PROVE  extractions'[x] = extractions[x]
  BY <1>3 DEF CompleteStep, FailStep, ResolveStep, RowTouched
<1> QED BY <1>1, <1>2, <1>3

\* A failed row stays failed unless the webhook of its first stage is late.
LEMMA FailedStays ==
  ASSUME I!TypeOK, Truth, IntakeKinds, NEW x \in Xs, extractions[x].status = "FAILED"
  PROVE  extractions'[x].status = "FAILED" \/ VisionStep(x)
<1>1. docaiJobs[x] \in Failures BY DEF Truth
<1>2. ASSUME NEW r \in Req, CompleteStep(r) PROVE req[r].x # x
  BY <1>1, <1>2 DEF Truth, CompleteStep, Failures
<1>3. ASSUME NEW r \in Req, FailStep(r) \/ ResolveStep(r), req[r].x = x
      PROVE  extractions'[x].status = "FAILED"
  BY <1>3 DEF FailStep, ResolveStep
<1> QED BY <1>2, <1>3, WhoWrites

LEMMA OneAtATimeStep ==
  ASSUME I!TypeOK, I!TypeOK', Table, Truth, Callers, Rested, OneAtATime, IntakeKinds
  PROVE  OneAtATime'
<1> SUFFICES ASSUME disturbed'["late"] = 0, disturbed'["overlap"] = 0
             PROVE  /\ \A x \in Xs' : x # Len(extractions') => extractions'[x].status = "FAILED"
                    /\ \A r \in Req : Resubmitting(r)' =>
                         extractions'[Len(extractions')].status = "FAILED"
  BY DEF OneAtATime, I!Newest
<1>1. disturbed["late"] = 0 /\ disturbed["overlap"] = 0
  BY CountsStay DEF I!Disturbance
<1>2. /\ \A x \in Xs : x # Len(extractions) => extractions[x].status = "FAILED"
      /\ \A r \in Req : Resubmitting(r) => I!Newest.status = "FAILED"
      /\ \A r, q \in Req : Caller(r) /\ Caller(q) => r = q
  BY <1>1 DEF OneAtATime, Callers
<1>3. \A r \in Req : Resubmitting(r) => Caller(r)
  BY DEF Resubmitting, Caller, I!CallerOps
<1>4. CASE ReportStep /\ Len(extractions') # Len(extractions)
  <2>1. Len(extractions) = 0 /\ req' = req /\ \A r \in Req : req[r].op = "none"
    BY <1>4 DEF ReportStep, Table
  <2>2. Xs' = {Len(extractions) + 1} /\ Len(extractions') = Len(extractions) + 1
    BY <1>4, <2>1, RowNumbers DEF Adding
  <2> QED BY <2>1, <2>2 DEF Resubmitting
<1>5. ASSUME NEW r \in Req, ResubmitStep(r)
      PROVE  /\ \A x \in Xs' : x # Len(extractions') => extractions'[x].status = "FAILED"
             /\ \A q \in Req : ~Resubmitting(q)'
  <2>1. \A x \in Xs : extractions'[x].status = "FAILED"
    BY <1>2, <1>5 DEF ResubmitStep, Adding, I!Newest
  <2>2. Xs' = Xs \cup {Len(extractions) + 1} /\ Len(extractions') = Len(extractions) + 1
    BY <1>5, RowNumbers DEF ResubmitStep, Adding
  <2>3. \A q \in Req : ~Resubmitting(q)'
    BY <1>2, <1>3, <1>5 DEF ResubmitStep, Frees, OnlySlot, Resubmitting
  <2> QED BY <2>1, <2>2, <2>3
<1>6. CASE Len(extractions') = Len(extractions)
  <2>0. Xs' = Xs BY <1>6, RowNumbers
  <2>1. ASSUME NEW x \in Xs, extractions[x].status = "FAILED"
        PROVE  extractions'[x].status = "FAILED"
    <3>1. CASE VisionStep(x)
      <4>1. Counts("late") BY <2>1, <3>1 DEF VisionStep
      <4> QED BY <1>1, <4>1 DEF Counts
    <3> QED BY <2>1, <3>1, FailedStays
  <2>2. ASSUME NEW r \in Req, Resubmitting(r)'
        PROVE  Len(extractions) \in Xs /\ I!Newest.status = "FAILED"
    <3>1. Caller(r)' BY <2>2 DEF Resubmitting, Caller, I!CallerOps
    <3>2. CASE BeginStep(r)
      <4>1. Len(extractions) > 0 /\ I!Newest.status = "FAILED"
        BY <2>2, <3>2 DEF BeginStep, Resubmitting
      <4> QED BY <4>1, RowNumbers
    <3>3. CASE ~BeginStep(r)
      <4>1. Resubmitting(r) BY <2>2, <3>1, <3>3, OpStays DEF Resubmitting
      <4>2. Len(extractions) > 0
        BY <1>1, <4>1 DEF Rested
      <4> QED BY <1>2, <4>1, <4>2, RowNumbers
    <3> QED BY <3>2, <3>3
  <2> QED BY <1>2, <1>6, <2>0, <2>1, <2>2 DEF I!Newest
<1> QED BY <1>4, <1>5, <1>6, WhoAdds

LEMMA ReportedStays ==
  ASSUME I!TypeOK, I!TypeOK', Table, Truth, IntakeKinds, NEW x \in Xs, Reported(x)
  PROVE  Reported(x)'
<1>1. docaiJobs[x] \in Failures /\ docaiJobs'[x] = docaiJobs[x] BY JobsStay DEF Reported
<1>2. ASSUME NEW event \in {"vision.failed", "structure.failed"}
      PROVE  <<x, event>> \notin pending'
  <2>1. <<x, event>> \notin pending BY <1>2 DEF Reported
  <2>2. ASSUME NEW y \in Xs, ProgressStep(y) PROVE <<x, event>> \notin pending'
    BY <1>1, <2>1, <2>2 DEF ProgressStep, JobTouched, Failures
  <2>3. pending' \subseteq pending \/ \E y \in Xs : ProgressStep(y)
    BY DEF IntakeKinds, QuietStep, ReportStep, DropStep, CallStep, VisionStep, ServeStep,
           CompleteStep, FailStep, BeginStep, ResubmitStep, ResolveStep, CommitStep,
           DieStep
  <2> QED BY <2>1, <2>2, <2>3
<1>3. ASSUME NEW r \in Req, Failing(r)' PROVE req'[r].x # x
  <2>1. Failing(r) => req[r].x # x BY DEF Reported
  <2>2. CASE ServeStep(r) BY <1>3, <2>2 DEF ServeStep, Reported, Failing
  <2>3. CASE BeginStep(r) BY <1>3, <2>3 DEF BeginStep, I!CallerOps, Failing
  <2> QED BY <1>3, <2>1, <2>2, <2>3, SlotKinds DEF Failing
<1> QED BY <1>1, <1>2, <1>3 DEF Reported

\* The event a handler or a webhook has for a failure is the one docai reported.
LEMMA OneFailureEvent ==
  ASSUME Table, Truth, NEW x \in Xs,
         NEW e \in {"vision.failed", "structure.failed"}
  PROVE  /\ <<x, e>> \in pending =>
              docaiJobs[x] = IF e = "vision.failed" THEN "visionFailed" ELSE "structureFailed"
         /\ \A r \in Req : Failing(r) /\ req[r].x = x =>
              /\ req[r].event \in {"vision.failed", "structure.failed"}
              /\ docaiJobs[x] = IF req[r].event = "vision.failed"
                                  THEN "visionFailed" ELSE "structureFailed"
BY DEF Truth, Failing

LEMMA ReportsStep ==
  ASSUME I!TypeOK, I!TypeOK', Table, Truth, Reports, IntakeKinds
  PROVE  Reports'
<1> SUFFICES ASSUME disturbed'["repeated"] = 0 PROVE Reports' BY DEF Reports
<1>1. disturbed["repeated"] = 0 BY CountsStay DEF I!Disturbance
<1>2. /\ \A x \in Xs : extractions[x].status = "FAILED" => Reported(x)
      /\ \A r, q \in Req : Failing(r) /\ Failing(q) /\ req[r].x = req[q].x => r = q
  BY <1>1 DEF Reports
<1>3. ~Counts("repeated") BY <1>1 DEF Counts
<1>4. ASSUME NEW x \in Xs, extractions'[x].status = "FAILED" PROVE Reported(x)'
  <2>1. CASE extractions[x].status = "FAILED" BY <1>2, <2>1, ReportedStays
  <2>2. CASE extractions[x].status # "FAILED"
    <3>1. PICK r \in Req : FailStep(r) /\ req[r].x = x
      <4>1. ~VisionStep(x) BY <1>4 DEF VisionStep
      <4>2. \A r \in Req : req[r].x = x => ~CompleteStep(r) /\ ~ResolveStep(r)
        BY <1>4, <2>2 DEF CompleteStep, ResolveStep
      <4> QED BY <1>4, <2>2, <4>1, <4>2, WhoWrites
    <3>2. /\ Failing(r) /\ pending' = pending \ {<<x, req[r].event>>} /\ docaiJobs' = docaiJobs
          /\ req'[r].op = "none" /\ \A q \in Req \ {r} : req'[q] = req[q]
      BY <1>3, <3>1 DEF FailStep, Failing, Frees, OnlySlot
    <3>3. docaiJobs'[x] \in Failures
      BY <3>1, <3>2, OneFailureEvent DEF Failures
    <3>4. \A e \in {"vision.failed", "structure.failed"} : <<x, e>> \notin pending'
      BY <3>1, <3>2, OneFailureEvent
    <3>5. \A q \in Req : Failing(q)' => req'[q].x # x
      BY <1>2, <3>1, <3>2 DEF Failing
    <3> QED BY <3>3, <3>4, <3>5 DEF Reported
  <2> QED BY <2>1, <2>2
<1>5. ASSUME NEW x \in Xs' \ Xs PROVE extractions'[x].status # "FAILED"
  <2>1. Adding /\ x = Len(extractions) + 1 BY <1>5, RowNumbers
  <2> QED BY <2>1 DEF Adding, I!NewExtraction
<1>6. ASSUME NEW r \in Req, Failing(r)', ~ServeStep(r)
      PROVE  Failing(r) /\ req'[r].x = req[r].x
  BY <1>6, SlotKinds DEF Failing, BeginStep, I!CallerOps
<1>7. ASSUME NEW r \in Req, NEW q \in Req, Failing(r)', Failing(q)',
             req'[r].x = req'[q].x, ServeStep(r), r # q
      PROVE  FALSE
  <2>1. req'[q] = req[q] /\ Failing(q) BY <1>7 DEF ServeStep, OnlySlot, Failing
  <2>2. PICK x \in Xs : x = req'[r].x BY <1>7 DEF ServeStep, Table
  <2>3. /\ <<x, req'[r].event>> \in pending
        /\ req'[r].event \in {"vision.failed", "structure.failed"}
        /\ req[q].x = x => req[q].event # req'[r].event
    BY <1>3, <1>7, <2>2 DEF ServeStep, Failing
  <2> QED BY <1>7, <2>1, <2>2, <2>3, OneFailureEvent
<1>8. \A r, q \in Req : Failing(r)' /\ Failing(q)' /\ req'[r].x = req'[q].x => r = q
  BY <1>2, <1>6, <1>7
<1>9. \A x \in Xs' : x \in Xs \/ x \in Xs' \ Xs OBVIOUS
<1> HIDE DEF Xs
<1> QED BY <1>4, <1>5, <1>8, <1>9 DEF Reports

LEMMA ServedStep ==
  ASSUME I!TypeOK, I!TypeOK', Table, Truth, Served, IntakeKinds
  PROVE  Served'
<1>1. ASSUME NEW x \in Xs, SelfServed(x)'
      PROVE  docaiJobs'[x] = "visionFailed" /\ extractions'[x].status = "FAILED"
  <2>1. CASE \E r \in Req : FailStep(r) /\ req[r].x = x
    <3> PICK r \in Req : FailStep(r) /\ req[r].x = x BY <2>1
    <3>1. /\ Failing(r) /\ req[r].resolution = "RESUBMIT_IMAGE" /\ docaiJobs' = docaiJobs
          /\ extractions'[x].status = "FAILED"
      BY <1>1 DEF FailStep, SelfServed, Failing
    <3> QED BY <3>1 DEF Truth, Failing
  <2>2. CASE SelfServed(x) /\ ~\E r \in Req : FailStep(r) /\ req[r].x = x
    <3>1. docaiJobs[x] = "visionFailed" /\ extractions[x].status = "FAILED"
      BY <2>2 DEF Served
    <3>2. ~VisionStep(x) BY <3>1 DEF VisionStep, Truth
    <3> QED BY <3>1, <3>2, JobsStay, FailedStays DEF Failures
  <2>3. CASE ~SelfServed(x) /\ ~\E r \in Req : FailStep(r) /\ req[r].x = x
    <3>1. ~VisionStep(x) BY <1>1, <2>3 DEF VisionStep, SelfServed
    <3>2. \A r \in Req : req[r].x = x => ~CompleteStep(r) /\ ~ResolveStep(r)
      BY <1>1, <2>3 DEF CompleteStep, ResolveStep, SelfServed
    <3> QED BY <1>1, <2>3, <3>1, <3>2, WhoWrites DEF SelfServed
  <2> QED BY <2>1, <2>2, <2>3
<1>2. ASSUME NEW x \in Xs' \ Xs PROVE ~SelfServed(x)'
  <2>1. Adding /\ x = Len(extractions) + 1 BY <1>2, RowNumbers
  <2> QED BY <2>1 DEF Adding, I!NewExtraction, SelfServed
<1>3. \A x \in Xs' : x \in Xs \/ x \in Xs' \ Xs OBVIOUS
<1> HIDE DEF Xs
<1> QED BY <1>1, <1>2, <1>3 DEF Served

\* A row is new among those whose image the user may take again by the verdict on it.
LEMMA NewlyServed ==
  ASSUME I!TypeOK, I!TypeOK', IntakeKinds, NEW x \in Xs', SelfServed(x)'
  PROVE  /\ x \in Xs
         /\ \/ SelfServed(x)
            \/ \E r \in Req : /\ FailStep(r) /\ Failing(r) /\ req[r].x = x
                              /\ req[r].resolution = "RESUBMIT_IMAGE"
<1>1. x \in Xs
  <2> SUFFICES ASSUME x \notin Xs PROVE FALSE OBVIOUS
  <2>1. Adding /\ x = Len(extractions) + 1 BY RowNumbers
  <2> QED BY <2>1 DEF Adding, I!NewExtraction, SelfServed
<1>2. CASE ~SelfServed(x)
  <2>1. ~VisionStep(x) BY <1>2 DEF VisionStep, SelfServed
  <2>2. \A r \in Req : req[r].x = x => ~CompleteStep(r) /\ ~ResolveStep(r)
    BY <1>2 DEF CompleteStep, ResolveStep, SelfServed
  <2>3. PICK r \in Req : FailStep(r) /\ req[r].x = x
    BY <1>1, <1>2, <2>1, <2>2, WhoWrites DEF SelfServed
  <2> QED BY <1>1, <2>3 DEF FailStep, Failing, SelfServed
<1> QED BY <1>1, <1>2

LEMMA OnceStep ==
  ASSUME I!TypeOK, I!TypeOK', Table, Truth, Callers, Rested, Reports, Served, Once, IntakeKinds
  PROVE  Once'
<1> SUFFICES ASSUME disturbed'["repeated"] = 0, disturbed'["overlap"] = 0
             PROVE  /\ \A x \in Xs' : x # Len(extractions') => Reported(x)'
                    /\ \A r \in Req : Resubmitting(r)' => Reported(Len(extractions))'
                    /\ \A r \in Req : Failing(r)' /\ req'[r].resolution = "RESUBMIT_IMAGE"
                                        => \A x \in Xs' : ~SelfServed(x)'
                    /\ \A x, y \in Xs' : SelfServed(x)' /\ SelfServed(y)' => x = y
  BY DEF Once
<1>1. disturbed["repeated"] = 0 /\ disturbed["overlap"] = 0
  BY CountsStay DEF I!Disturbance
<1>2. /\ \A x \in Xs : x # Len(extractions) => Reported(x)
      /\ \A r \in Req : Resubmitting(r) =>
           Reported(Len(extractions)) /\ Len(extractions) > 0
      /\ \A r \in Req : Failing(r) /\ req[r].resolution = "RESUBMIT_IMAGE"
                          => \A x \in Xs : ~SelfServed(x)
      /\ \A x, y \in Xs : SelfServed(x) /\ SelfServed(y) => x = y
      /\ \A r, q \in Req : Caller(r) /\ Caller(q) => r = q
      /\ \A x \in Xs : extractions[x].status = "FAILED" => Reported(x)
      /\ \A r, q \in Req : Failing(r) /\ Failing(q) /\ req[r].x = req[q].x => r = q
  BY <1>1 DEF Once, Callers, Reports, Rested
<1>3. \A r \in Req : Resubmitting(r) => Caller(r)
  BY DEF Resubmitting, Caller, I!CallerOps
<1>4. /\ \A x \in Xs' : x # Len(extractions') => Reported(x)'
      /\ \A r \in Req : Resubmitting(r)' => Reported(Len(extractions))'
  <2>1. CASE ReportStep /\ Len(extractions') # Len(extractions)
    <3>1. Len(extractions) = 0 /\ req' = req /\ \A r \in Req : req[r].op = "none"
      BY <2>1 DEF ReportStep, Table
    <3>2. Xs' = {Len(extractions) + 1} /\ Len(extractions') = Len(extractions) + 1
      BY <2>1, <3>1, RowNumbers DEF Adding
    <3> QED BY <3>1, <3>2 DEF Resubmitting
  <2>2. ASSUME NEW r \in Req, ResubmitStep(r)
        PROVE  /\ \A x \in Xs' : x # Len(extractions') => Reported(x)'
               /\ \A q \in Req : ~Resubmitting(q)'
    <3>1. Reported(Len(extractions)) BY <1>2, <2>2 DEF ResubmitStep
    <3>2. \A x \in Xs : Reported(x)' BY <1>2, <3>1, ReportedStays
    <3>3. Xs' = Xs \cup {Len(extractions) + 1} /\ Len(extractions') = Len(extractions) + 1
      BY <2>2, RowNumbers DEF ResubmitStep, Adding
    <3>4. \A q \in Req : ~Resubmitting(q)'
      BY <1>2, <1>3, <2>2 DEF ResubmitStep, Frees, OnlySlot, Resubmitting
    <3> QED BY <3>2, <3>3, <3>4
  <2>3. CASE Len(extractions') = Len(extractions)
    <3>0. Xs' = Xs BY <2>3, RowNumbers
    <3>1. \A x \in Xs : Reported(x) => Reported(x)' BY ReportedStays
    <3>2. ASSUME NEW r \in Req, Resubmitting(r)'
          PROVE  Len(extractions) \in Xs /\ Reported(Len(extractions))
      <4>1. Caller(r)' BY <3>2 DEF Resubmitting, Caller, I!CallerOps
      <4>2. CASE BeginStep(r)
        <5>1. Len(extractions) > 0 /\ I!Newest.status = "FAILED"
          BY <3>2, <4>2 DEF BeginStep, Resubmitting
        <5>2. Len(extractions) \in Xs BY <5>1, RowNumbers
        <5> QED BY <1>2, <5>1, <5>2 DEF I!Newest
      <4>3. CASE ~BeginStep(r)
        <5>1. Resubmitting(r) BY <3>2, <4>1, <4>3, OpStays DEF Resubmitting
        <5>2. Len(extractions) > 0 /\ Reported(Len(extractions)) BY <1>2, <5>1
        <5> QED BY <5>2, RowNumbers
      <4> QED BY <4>2, <4>3
    <3>3. \A r \in Req : Resubmitting(r)' => Reported(Len(extractions))'
      <4> SUFFICES ASSUME NEW r \in Req, Resubmitting(r)'
                   PROVE  Reported(Len(extractions))'
        OBVIOUS
      <4>1. Len(extractions) \in Xs /\ Reported(Len(extractions)) BY <3>2
      <4> PICK n \in Xs : n = Len(extractions) BY <4>1
      <4>2. Reported(n)' BY <4>1, ReportedStays
      <4> QED BY <2>3, <4>2 DEF Reported
    <3> QED BY <1>2, <2>3, <3>0, <3>1, <3>3
  <2> QED BY <2>1, <2>2, <2>3, WhoAdds
<1>5. ASSUME NEW r \in Req, Failing(r)', req'[r].resolution = "RESUBMIT_IMAGE",
             NEW x \in Xs', SelfServed(x)'
      PROVE  FALSE
  <2>1. x \in Xs BY <1>5, NewlyServed
  <2>2. CASE ServeStep(r)
    <3>1. extractions' = extractions /\ req'[r].resolution = I!Verdict(req'[r].event)
      BY <1>5, <2>2 DEF ServeStep, Failing
    <3>2. extractions[x].status # "FAILED"
      BY <1>5, <2>1, <3>1 DEF I!Verdict, I!FailedBefore, Xs
    <3>3. SelfServed(x) BY <1>5, <3>1 DEF SelfServed
    <3> QED BY <2>1, <3>2, <3>3 DEF Served
  <2>3. CASE ~ServeStep(r)
    <3>1. Failing(r) /\ req[r].resolution = "RESUBMIT_IMAGE" /\ req[r].x \in Xs
      BY <1>5, <2>3, SlotKinds DEF Failing, BeginStep, I!CallerOps, Table
    <3>2. ~SelfServed(x) BY <1>2, <2>1, <3>1
    <3>3. PICK q \in Req : FailStep(q) /\ Failing(q) /\ req[q].x = x
      BY <1>5, <3>2, NewlyServed
    <3>4. q # r BY <1>5, <3>3 DEF FailStep, Frees, Failing
    <3>5. ~Reported(x) /\ ~Reported(req[r].x) BY <3>1, <3>3 DEF Reported
    <3>6. x = Len(extractions) /\ req[r].x = Len(extractions)
      BY <1>2, <2>1, <3>1, <3>5
    <3> QED BY <1>2, <3>1, <3>3, <3>4, <3>6
  <2> QED BY <2>2, <2>3
<1>6. ASSUME NEW x \in Xs', NEW y \in Xs', SelfServed(x)', SelfServed(y)' PROVE x = y
  <2>1. x \in Xs /\ y \in Xs BY <1>6, NewlyServed
  <2>2. CASE SelfServed(x) /\ SelfServed(y) BY <1>2, <2>1, <2>2
  <2>3. ASSUME NEW u \in Xs, NEW v \in Xs, SelfServed(u)', SelfServed(v)', ~SelfServed(u)
        PROVE  u = v
    <3>1. PICK r \in Req : /\ FailStep(r) /\ Failing(r) /\ req[r].x = u
                           /\ req[r].resolution = "RESUBMIT_IMAGE"
      BY <2>3, RowNumbers, NewlyServed
    <3>2. ~SelfServed(v) BY <1>2, <3>1
    <3>3. PICK q \in Req : FailStep(q) /\ Failing(q) /\ req[q].x = v
      BY <2>3, <3>2, RowNumbers, NewlyServed
    <3>4. q = r
      BY <3>1, <3>3 DEF FailStep, Frees, OnlySlot, Failing
    <3> QED BY <3>1, <3>3, <3>4
  <2> QED BY <1>6, <2>1, <2>2, <2>3
<1> QED BY <1>4, <1>5, <1>6

-----------------------------------------------------------------------------
(* The theorems *)

\* The inductive invariant.
IntakeInv ==
  /\ I!TypeOK /\ Table /\ Truth /\ Callers /\ Rested /\ OneAtATime
  /\ Reports /\ Served /\ Once

LEMMA InitIntake == I!Init => IntakeInv
<1> SUFFICES ASSUME I!Init PROVE IntakeInv OBVIOUS
<1>1. /\ Len(extractions) = 0 /\ Len(docaiJobs) = 0 /\ extractions \in Seq(I!Extraction)
      /\ docaiJobs \in Seq(I!JobState) /\ Xs = {}
  BY DEF I!Init, Xs
<1>2. \A r \in Req : req[r].op = "none" BY IdleRequest DEF I!Init
<1>3. I!TypeOK BY <1>1, IdleRequest DEF I!Init, I!TypeOK
<1>4. Table BY <1>1, <1>2 DEF I!Init, Table
<1>5. Truth BY <1>1, <1>2 DEF Truth
<1>6. Callers BY <1>2 DEF Callers, Caller, I!CallerOps
<1>7. Rested BY <1>2 DEF I!Init, Rested, Verified, Resubmitting
<1>8. OneAtATime BY <1>1, <1>2 DEF OneAtATime, Resubmitting
<1>9. Reports BY <1>1, <1>2 DEF Reports, Failing
<1>10. Served BY <1>1 DEF Served
<1>11. Once BY <1>1, <1>2 DEF Once, Resubmitting, Failing
<1> QED BY <1>3, <1>4, <1>5, <1>6, <1>7, <1>8, <1>9, <1>10, <1>11 DEF IntakeInv

LEMMA NextIntake == IntakeInv /\ [I!Next]_I!vars => IntakeInv'
<1> SUFFICES ASSUME IntakeInv, [I!Next]_I!vars PROVE IntakeInv' OBVIOUS
<1>1. I!TypeOK' /\ IntakeKinds BY IntakeStepKinds DEF IntakeInv, Types
<1> QED BY <1>1, TableStep, TruthStep, CallersStep, RestedStep, OneAtATimeStep,
           ReportsStep, ServedStep, OnceStep DEF IntakeInv

\* For any number of extractions, handlers and disturbances, the tables, what is said of
\* docai's jobs and what callers may do go together as IntakeInv says.
THEOREM IntakeIsSound == I!Spec => []IntakeInv
BY InitIntake, NextIntake, PTL DEF I!Spec

\* Unless callers overlapped twice, a verified found case rests on images docai has read
\* (verifyFoundCase and resubmitExtraction).
THEOREM VerifiedIsExtracted == I!Spec => []VerifiedWasExtracted
<1>1. IntakeInv => VerifiedWasExtracted
  <2> SUFFICES ASSUME IntakeInv, status = "VERIFIED", disturbed["overlap"] <= 1
               PROVE  I!Last(docaiJobs) = "succeeded"
    BY DEF VerifiedWasExtracted, I!VerifiedWasExtracted
  <2>1. NewestJob = "succeeded" /\ Len(docaiJobs) = Len(extractions)
    BY DEF IntakeInv, Rested, Verified, Table
  <2> QED BY <2>1 DEF NewestJob, I!Last
<1> QED BY <1>1, IntakeIsSound, PTL

LEMMA SameCount == \A S : I!Cardinality(S) = Cardinality(S)
  BY DEF I!Cardinality, I!IsFiniteSet, Cardinality, IsFiniteSet

\* Without an overlap or a webhook that comes again, a verdict lets the user take images
\* again at most once (handleStageFailed).
THEOREM SelfServiceIsOnce == I!Spec => []SelfServiceOnce
<1>1. IntakeInv => SelfServiceOnce
  <2> SUFFICES ASSUME IntakeInv, disturbed["repeated"] = 0, disturbed["overlap"] = 0
               PROVE  I!Cardinality({x \in DOMAIN extractions :
                        extractions[x].resolution = "RESUBMIT_IMAGE"
                          /\ ~extractions[x].byStaff}) <= 1
    BY DEF SelfServiceOnce, I!SelfServiceOnce
  <2> DEFINE S == {x \in DOMAIN extractions :
                     extractions[x].resolution = "RESUBMIT_IMAGE"
                       /\ ~extractions[x].byStaff}
  <2>1. \A x, y \in S : x = y BY DEF IntakeInv, Once, SelfServed, Xs
  <2> HIDE DEF S
  <2>2. S = {} \/ \E x : S = {x} BY <2>1
  <2>3. Cardinality(S) <= 1
    <3>1. CASE S = {} BY <3>1, FS_EmptySet
    <3>2. ASSUME NEW x, S = {x} PROVE Cardinality(S) = 1 BY <3>2, FS_Singleton
    <3> QED BY <2>2, <3>1, <3>2
  <2> QED BY <2>3, SameCount DEF S
<1> QED BY <1>1, IntakeIsSound, PTL

\* Without an overlap or a late webhook, a new extraction begins only after the one before
\* it failed (resubmitExtraction).
THEOREM ExtractionsAreSerial == I!Spec => []OneExtractionAtATime
<1>1. IntakeInv => OneExtractionAtATime
  <2> SUFFICES ASSUME IntakeInv, disturbed["late"] = 0, disturbed["overlap"] = 0,
                      NEW x \in 1 .. Len(extractions) - 1
               PROVE  extractions[x].status = "FAILED"
    BY DEF OneExtractionAtATime, I!OneExtractionAtATime
  <2>1. extractions \in Seq(I!Extraction) BY DEF IntakeInv, I!TypeOK
  <2>2. x \in Xs /\ x # Len(extractions) BY <2>1 DEF Xs
  <2> QED BY <2>2 DEF IntakeInv, OneAtATime
<1> QED BY <1>1, IntakeIsSound, PTL

-----------------------------------------------------------------------------
(* Matching *)

\* Nobody else's pipeline moves.
Alone(d) == \A e \in M!Doc \ {d} : pipe'[e] = pipe[e]

\* The pipeline of d moves to a step, for the same user.
Moves(d, step) == Alone(d) /\ pipe'[d].step = step /\ pipe'[d].by = pipe[d].by

\* The job's lists stay.
KeepsLists(d) ==
  /\ pipe'[d].candidates = pipe[d].candidates
  /\ pipe'[d].seen = pipe[d].seen /\ pipe'[d].kept = pipe[d].kept

NoLists(d) == pipe'[d].candidates = {} /\ pipe'[d].seen = {} /\ pipe'[d].kept = {}

\* A job that starts over has nothing but its caller and its attempts.
Fresh(step, by, made) == [M!Idle EXCEPT !.step = step, !.by = by, !.made = made]

LEMMA FreshPipe ==
  \A s \in M!Step, user \in Reporter \cup {M!NoText}, n \in Nat :
    /\ Fresh(s, user, n) \in M!Pipe /\ Fresh(s, user, n).step = s
    /\ Fresh(s, user, n).by = user /\ Fresh(s, user, n).candidates = {}
    /\ Fresh(s, user, n).seen = {} /\ Fresh(s, user, n).kept = {}
<1> TAKE s \in M!Step, user \in Reporter \cup {M!NoText}, n \in Nat
<1>1. M!Idle \in M!Pipe BY DEF M!Idle, M!Pipe, M!Step
<1>2. M!Idle.candidates = {} /\ M!Idle.seen = {} /\ M!Idle.kept = {} BY DEF M!Idle
<1>3. Fresh(s, user, n) \in M!Pipe BY <1>1 DEF Fresh, M!Pipe
<1>4. Fresh(s, user, n).step = s /\ Fresh(s, user, n).by = user
  BY <1>1 DEF Fresh, M!Pipe
<1>5. /\ Fresh(s, user, n).candidates = {} /\ Fresh(s, user, n).seen = {}
      /\ Fresh(s, user, n).kept = {}
  BY <1>1, <1>2 DEF Fresh, M!Pipe
<1> QED BY <1>3, <1>4, <1>5

LEMMA Opens ==
  ASSUME M!TypeOK, NEW d \in M!Doc, NEW user \in Reporter, M!Open(d, user)
  PROVE  /\ pipe' \in [M!Doc -> M!Pipe] /\ Alone(d) /\ NoLists(d)
         /\ pipe'[d].step = "unqueued"
<1> DEFINE q == [M!Idle EXCEPT !.step = "unqueued", !.by = user]
<1>1. M!Idle \in M!Pipe BY DEF M!Idle, M!Pipe, M!Step
<1>2. M!Idle.candidates = {} /\ M!Idle.seen = {} /\ M!Idle.kept = {} BY DEF M!Idle
<1>3. q \in M!Pipe BY <1>1 DEF M!Pipe, M!Step
<1>4. q.step = "unqueued" BY <1>1 DEF M!Pipe
<1>5. q.candidates = {} /\ q.seen = {} /\ q.kept = {} BY <1>1, <1>2 DEF M!Pipe
<1>6. pipe' = [pipe EXCEPT ![d] = q] BY DEF M!Open
<1> HIDE DEF q
<1> QED BY <1>3, <1>4, <1>5, <1>6 DEF Alone, NoLists, M!TypeOK

LEMMA QueueEmbeddingMoves ==
  ASSUME M!TypeOK, NEW d \in M!Doc, M!QueueEmbedding(d)
  PROVE  /\ pipe' \in [M!Doc -> M!Pipe] /\ Moves(d, "embedQueued") /\ KeepsLists(d)
         /\ M!At(d, "unqueued")
<1>0. pipe[d] \in M!Pipe BY DEF M!TypeOK
<1>1. [pipe[d] EXCEPT !.step = "embedQueued"] \in M!Pipe
  BY <1>0 DEF M!Pipe, M!Step
<1> QED BY <1>1 DEF M!QueueEmbedding, M!Goto, M!At, Moves, Alone, KeepsLists, M!TypeOK,
           M!Pipe

LEMMA QueueRefusesMoves ==
  ASSUME M!TypeOK, NEW d \in M!Doc, M!QueueRefuses(d)
  PROVE  /\ pipe' \in [M!Doc -> M!Pipe] /\ Moves(d, "forgotten") /\ KeepsLists(d)
         /\ pipe[d].step \in {"unqueued", "embedded"}
<1>0. pipe[d] \in M!Pipe BY DEF M!TypeOK
<1>1. [pipe[d] EXCEPT !.step = "forgotten"] \in M!Pipe
  BY <1>0 DEF M!Pipe, M!Step
<1> QED BY <1>1 DEF M!QueueRefuses, M!Goto, M!At, Moves, Alone, KeepsLists, M!TypeOK, M!Pipe

LEMMA QueueMatchingMoves ==
  ASSUME M!TypeOK, NEW d \in M!Doc, M!QueueMatching(d)
  PROVE  /\ pipe' \in [M!Doc -> M!Pipe] /\ Moves(d, "matchQueued") /\ KeepsLists(d)
         /\ M!At(d, "embedded")
<1>0. pipe[d] \in M!Pipe BY DEF M!TypeOK
<1>1. [pipe[d] EXCEPT !.step = "matchQueued", !.made = 0] \in M!Pipe
  BY <1>0 DEF M!Pipe, M!Step
<1>2. pipe' = [pipe EXCEPT ![d] = [pipe[d] EXCEPT !.step = "matchQueued", !.made = 0]]
  BY DEF M!QueueMatching, M!TypeOK, M!Pipe
<1> QED BY <1>1, <1>2 DEF M!QueueMatching, M!At, Moves, Alone, KeepsLists, M!TypeOK, M!Pipe

LEMMA ReadToEmbedMoves ==
  ASSUME M!TypeOK, NEW d \in M!Doc, M!ReadToEmbed(d)
  PROVE  /\ pipe' \in [M!Doc -> M!Pipe] /\ Moves(d, "embedding") /\ KeepsLists(d)
         /\ pipe'[d].read = text[d] /\ M!At(d, "embedQueued")
<1>0. pipe[d] \in M!Pipe BY DEF M!TypeOK
<1>1. text[d] \in Text \cup {Empty, M!NoText} BY DEF M!TypeOK
<1>2. [pipe[d] EXCEPT !.step = "embedding", !.read = text[d]] \in M!Pipe
  BY <1>0, <1>1 DEF M!Pipe, M!Step
<1>3. pipe' = [pipe EXCEPT ![d] = [pipe[d] EXCEPT !.step = "embedding", !.read = text[d]]]
  BY DEF M!ReadToEmbed, M!TypeOK, M!Pipe
<1> QED BY <1>2, <1>3 DEF M!ReadToEmbed, M!At, Moves, Alone, KeepsLists, M!TypeOK, M!Pipe

LEMMA StoreVectorMoves ==
  ASSUME M!TypeOK, NEW d \in M!Doc, M!StoreVector(d)
  PROVE  /\ pipe' \in [M!Doc -> M!Pipe] /\ Moves(d, "embedded") /\ KeepsLists(d)
         /\ M!At(d, "embedding") /\ vector'[d][dims] = pipe[d].read
         /\ \A e \in M!Doc \ {d} : vector'[e] = vector[e]
         /\ vector' \in [M!Doc -> [M!Dims -> Text \cup {Empty, M!NoText}]]
<1>0. pipe[d] \in M!Pipe BY DEF M!TypeOK
<1>1. [pipe[d] EXCEPT !.step = "embedded", !.read = M!NoText] \in M!Pipe
  BY <1>0 DEF M!Pipe, M!Step
<1>2. pipe' = [pipe EXCEPT ![d] = [pipe[d] EXCEPT !.step = "embedded", !.read = M!NoText]]
  BY DEF M!StoreVector, M!TypeOK, M!Pipe
<1>3. /\ vector'[d][dims] = pipe[d].read
      /\ \A e \in M!Doc \ {d} : vector'[e] = vector[e]
      /\ vector' \in [M!Doc -> [M!Dims -> Text \cup {Empty, M!NoText}]]
  BY DEF M!StoreVector, M!TypeOK, M!Pipe
<1> QED BY <1>1, <1>2, <1>3
        DEF M!StoreVector, M!At, Moves, Alone, KeepsLists, M!TypeOK, M!Pipe

LEMMA RetryMoves ==
  ASSUME M!TypeOK, NEW d \in M!Doc, NEW step, NEW again \in M!Step, M!Retry(d, step, again)
  PROVE  /\ pipe' \in [M!Doc -> M!Pipe] /\ M!At(d, step) /\ NoLists(d)
         /\ Moves(d, again) \/ Moves(d, "dead")
<1>0. pipe[d] \in M!Pipe BY DEF M!TypeOK
<1>1. pipe[d].made + 1 \in Nat /\ pipe[d].by \in Reporter \cup {M!NoText} BY <1>0 DEF M!Pipe
<1> PICK n : n = pipe[d].made + 1 OBVIOUS
<1> PICK user \in Reporter \cup {M!NoText} : user = pipe[d].by BY <1>1
<1>2. PICK to \in {again, "dead"} : pipe' = [pipe EXCEPT ![d] = Fresh(to, user, n)]
  BY DEF M!Retry, Fresh
<1>3. to \in M!Step BY DEF M!Step
<1>4. n \in Nat BY <1>1
<1>5. /\ Fresh(to, user, n) \in M!Pipe /\ Fresh(to, user, n).step = to
      /\ Fresh(to, user, n).by = user
      /\ Fresh(to, user, n).candidates = {}
      /\ Fresh(to, user, n).seen = {} /\ Fresh(to, user, n).kept = {}
  BY ONLY user \in Reporter \cup {M!NoText}, <1>3, <1>4, FreshPipe
<1>6. M!At(d, step) BY DEF M!Retry
<1>7. pipe' \in [M!Doc -> M!Pipe] /\ Alone(d) /\ pipe'[d] = Fresh(to, user, n)
  BY <1>2, <1>5 DEF Alone, M!TypeOK
<1> QED BY <1>5, <1>6, <1>7 DEF Moves, NoLists

LEMMA ReadToSearchMoves ==
  ASSUME M!TypeOK, NEW d \in M!Doc, M!ReadToSearch(d)
  PROVE  /\ pipe' \in [M!Doc -> M!Pipe] /\ Moves(d, "searching") /\ KeepsLists(d)
         /\ pipe'[d].read = text[d] /\ pipe'[d].at = dims /\ M!At(d, "matchQueued")
<1>0. pipe[d] \in M!Pipe BY DEF M!TypeOK
<1>1. text[d] \in Text \cup {Empty, M!NoText} /\ dims \in M!Dims BY DEF M!TypeOK
<1> DEFINE q == [pipe[d] EXCEPT !.step = "searching", !.read = text[d], !.at = dims]
<1>2. q \in M!Pipe BY <1>0, <1>1 DEF M!Pipe, M!Step
<1>3. pipe' = [pipe EXCEPT ![d] = q] BY DEF M!ReadToSearch, M!TypeOK, M!Pipe
<1> QED BY <1>2, <1>3 DEF M!ReadToSearch, M!At, Moves, Alone, KeepsLists, M!TypeOK, M!Pipe

\* The documents on the other side.
Other(d) == IF d \in Lost THEN Found ELSE Lost

LEMMA SearchMoves ==
  ASSUME M!TypeOK, NEW d \in M!Doc, M!Search(d)
  PROVE  /\ pipe' \in [M!Doc -> M!Pipe] /\ M!At(d, "searching")
         /\ Moves(d, "done") \/ Moves(d, "scored")
         /\ pipe'[d].step = "done" => pipe'[d].candidates = {}
         /\ pipe'[d].seen = pipe[d].seen /\ pipe'[d].kept = pipe[d].kept
         /\ pipe'[d].candidates \subseteq Other(d)
         /\ \A c \in Other(d) :
              c \in pipe'[d].candidates <=>
                /\ c \in open /\ vector[c][pipe[d].at] = pipe[d].read
                /\ Owner[c] # pipe[d].by
                /\ text[c] = pipe[d].read /\ text[c] # Empty
<1>0. pipe[d] \in M!Pipe BY DEF M!TypeOK
<1> DEFINE S == {c \in M!Candidates(d) : text[c] = pipe[d].read /\ text[c] # Empty}
           to == IF S = {} THEN "done" ELSE "scored"
           q == [pipe[d] EXCEPT !.step = to, !.read = M!NoText, !.at = 0, !.candidates = S]
<1>1. S \subseteq Other(d)
  BY DEF M!Candidates, M!FindFoundCandidates, M!FindLostCandidates, M!FindCandidates, Other
<1>2. \A c \in Other(d) :
        c \in S <=> /\ c \in open /\ vector[c][pipe[d].at] = pipe[d].read
                    /\ Owner[c] # pipe[d].by
                    /\ text[c] = pipe[d].read /\ text[c] # Empty
  BY DEF M!Candidates, M!FindFoundCandidates, M!FindLostCandidates, M!FindCandidates, Other
<1>3. S \in SUBSET M!Doc BY <1>1 DEF Other, M!Doc
<1>4. pipe' = [pipe EXCEPT ![d] = q] BY DEF M!Search, M!TypeOK
<1>5. M!At(d, "searching") BY DEF M!Search
<1>6. to \in {"done", "scored"} /\ (to = "done" => S = {}) OBVIOUS
<1> HIDE DEF S, to
<1>7. q \in M!Pipe BY <1>0, <1>3, <1>6 DEF M!Pipe, M!Step
<1>8. /\ q.step = to /\ q.by = pipe[d].by /\ q.candidates = S
      /\ q.seen = pipe[d].seen /\ q.kept = pipe[d].kept
  BY DEF M!TypeOK, M!Pipe
<1> HIDE DEF q
<1>9. pipe'[d] = q /\ pipe' \in [M!Doc -> M!Pipe] /\ Alone(d)
  BY <1>4, <1>7 DEF M!TypeOK, Alone
<1> QED BY <1>1, <1>2, <1>5, <1>6, <1>8, <1>9 DEF Moves

LEMMA LookForRowsMoves ==
  ASSUME M!TypeOK, NEW d \in M!Doc, M!LookForRows(d)
  PROVE  /\ pipe' \in [M!Doc -> M!Pipe] /\ Moves(d, "writing") /\ M!At(d, "scored")
         /\ pipe'[d].candidates = pipe[d].candidates /\ pipe'[d].kept = pipe[d].kept
         /\ pipe'[d].seen = {c \in pipe[d].candidates : match[M!Pair(d, c)] # "none"}
<1>0. pipe[d] \in M!Pipe BY DEF M!TypeOK
<1> DEFINE S == {c \in pipe[d].candidates : match[M!Pair(d, c)] # "none"}
           q == [pipe[d] EXCEPT !.step = "writing", !.seen = S]
<1>1. S \in SUBSET M!Doc BY DEF M!TypeOK, M!Pipe
<1>2. pipe' = [pipe EXCEPT ![d] = q] BY DEF M!LookForRows, M!TypeOK
<1>3. M!At(d, "scored") BY DEF M!LookForRows
<1> HIDE DEF S
<1>4. q \in M!Pipe BY <1>0, <1>1 DEF M!Pipe, M!Step
<1>5. /\ q.step = "writing" /\ q.by = pipe[d].by /\ q.candidates = pipe[d].candidates
      /\ q.seen = S /\ q.kept = pipe[d].kept
  BY DEF M!TypeOK, M!Pipe
<1> HIDE DEF q
<1> QED BY <1>2, <1>3, <1>4, <1>5 DEF M!TypeOK, Alone, Moves, S

LEMMA UpsertMatchMoves ==
  ASSUME M!TypeOK, NEW d \in M!Doc, NEW c \in M!Doc, M!UpsertMatch(d, c)
  PROVE  /\ pipe' \in [M!Doc -> M!Pipe] /\ M!At(d, "writing") /\ c \in pipe[d].candidates
         /\ IF pipe[d].candidates = {c} THEN Moves(d, "persisted") ELSE Moves(d, "writing")
         /\ pipe'[d].candidates = pipe[d].candidates \ {c}
         /\ pipe'[d].seen = pipe[d].seen \ {c}
         /\ pipe'[d].kept =
              IF c \in pipe[d].seen \/ match[M!Pair(d, c)] = "none"
                THEN pipe[d].kept \cup {c} ELSE pipe[d].kept
<1>0. pipe[d] \in M!Pipe BY DEF M!TypeOK
<1> DEFINE K == IF c \in pipe[d].seen \/ match[M!Pair(d, c)] = "none"
                  THEN pipe[d].kept \cup {c} ELSE pipe[d].kept
           C == pipe[d].candidates \ {c}
           S == pipe[d].seen \ {c}
           to == IF pipe[d].candidates = {c} THEN "persisted" ELSE pipe[d].step
           q == [pipe[d] EXCEPT !.candidates = C, !.seen = S, !.kept = K, !.step = to]
<1>1. K \in SUBSET M!Doc /\ C \in SUBSET M!Doc /\ S \in SUBSET M!Doc BY DEF M!TypeOK, M!Pipe
<1>2. M!At(d, "writing") /\ c \in pipe[d].candidates BY DEF M!UpsertMatch
<1>3. pipe' = [pipe EXCEPT ![d] = q] BY DEF M!UpsertMatch
<1>4. to = IF pipe[d].candidates = {c} THEN "persisted" ELSE "writing" BY <1>2 DEF M!At
<1>5. to \in M!Step BY <1>4 DEF M!Step
<1> HIDE DEF K, C, S, to
<1>6. q \in M!Pipe BY <1>0, <1>1, <1>5 DEF M!Pipe, M!Step
<1>7. /\ q.step = to /\ q.by = pipe[d].by /\ q.candidates = C
      /\ q.seen = S /\ q.kept = K
  BY DEF M!TypeOK, M!Pipe
<1> HIDE DEF q
<1>8. pipe'[d] = q /\ pipe' \in [M!Doc -> M!Pipe] /\ Alone(d)
  BY <1>3, <1>6 DEF M!TypeOK, Alone
<1> QED BY <1>2, <1>4, <1>7, <1>8 DEF Moves, K, C, S

LEMMA NotifyMoves ==
  ASSUME M!TypeOK, NEW d \in M!Doc, M!Notify(d)
  PROVE  /\ pipe' \in [M!Doc -> M!Pipe] /\ Moves(d, "done") /\ M!At(d, "persisted")
         /\ pipe'[d].candidates = pipe[d].candidates /\ pipe'[d].seen = pipe[d].seen
         /\ pipe'[d].kept = {}
<1>0. pipe[d] \in M!Pipe BY DEF M!TypeOK
<1> DEFINE q == [pipe[d] EXCEPT !.step = "done", !.kept = {}]
<1>1. q \in M!Pipe BY <1>0 DEF M!Pipe, M!Step
<1>2. pipe' = [pipe EXCEPT ![d] = q] BY DEF M!Notify, M!TypeOK, M!Pipe
<1>3. /\ q.step = "done" /\ q.by = pipe[d].by /\ q.candidates = pipe[d].candidates
      /\ q.seen = pipe[d].seen /\ q.kept = {}
  BY DEF M!TypeOK, M!Pipe
<1> HIDE DEF q
<1>4. M!At(d, "persisted") BY DEF M!Notify
<1> QED BY <1>1, <1>2, <1>3, <1>4 DEF M!TypeOK, Alone, Moves

\* What a crash leaves of the pipeline p.
LEMMA CrashedPipe ==
  ASSUME NEW p \in M!Pipe
  PROVE  /\ M!AfterCrash(p) \in M!Pipe /\ M!AfterCrash(p).by = p.by
         /\ p.step = "embedding" => M!AfterCrash(p).step = "embedQueued"
         /\ p.step \in {"searching", "scored", "writing"} =>
              /\ M!AfterCrash(p).step = "matchQueued"
              /\ M!AfterCrash(p).candidates = {} /\ M!AfterCrash(p).seen = {}
              /\ M!AfterCrash(p).kept = {}
         /\ p.step \in {"unqueued", "embedded", "persisted"} =>
              M!AfterCrash(p).step = "forgotten"
         /\ p.step \in {"embedding", "unqueued", "embedded", "persisted"} =>
              /\ M!AfterCrash(p).candidates = p.candidates
              /\ M!AfterCrash(p).seen = p.seen /\ M!AfterCrash(p).kept = p.kept
         /\ p.step \notin {"embedding", "searching", "scored", "writing", "unqueued",
                           "embedded", "persisted"} => M!AfterCrash(p) = p
<1>1. CASE p.step = "embedding"
  <2>1. M!AfterCrash(p) = [p EXCEPT !.step = "embedQueued", !.read = M!NoText]
    BY <1>1 DEF M!AfterCrash
  <2>2. M!AfterCrash(p) \in M!Pipe BY <2>1 DEF M!Pipe, M!Step
  <2>3. /\ M!AfterCrash(p).step = "embedQueued" /\ M!AfterCrash(p).by = p.by
        /\ M!AfterCrash(p).candidates = p.candidates
        /\ M!AfterCrash(p).seen = p.seen /\ M!AfterCrash(p).kept = p.kept
    BY <2>1 DEF M!Pipe
  <2> QED BY <1>1, <2>2, <2>3
<1>2. CASE p.step \in {"searching", "scored", "writing"}
  <2>1. p.made \in Nat /\ p.by \in Reporter \cup {M!NoText} /\ "matchQueued" \in M!Step
    BY DEF M!Pipe, M!Step
  <2> PICK user \in Reporter \cup {M!NoText}, n \in Nat : user = p.by /\ n = p.made BY <2>1
  <2>2. M!AfterCrash(p) = Fresh("matchQueued", user, n)
    BY <1>2 DEF M!AfterCrash, Fresh
  <2>3. /\ Fresh("matchQueued", user, n) \in M!Pipe
        /\ Fresh("matchQueued", user, n).step = "matchQueued"
        /\ Fresh("matchQueued", user, n).by = user
        /\ Fresh("matchQueued", user, n).candidates = {}
        /\ Fresh("matchQueued", user, n).seen = {}
        /\ Fresh("matchQueued", user, n).kept = {}
    BY <2>1, FreshPipe
  <2> QED BY <1>2, <2>2, <2>3
<1>3. CASE p.step \in {"unqueued", "embedded", "persisted"}
  <2>1. M!AfterCrash(p) = [p EXCEPT !.step = "forgotten"] BY <1>3 DEF M!AfterCrash
  <2>2. M!AfterCrash(p) \in M!Pipe BY <2>1 DEF M!Pipe, M!Step
  <2>3. /\ M!AfterCrash(p).step = "forgotten" /\ M!AfterCrash(p).by = p.by
        /\ M!AfterCrash(p).candidates = p.candidates
        /\ M!AfterCrash(p).seen = p.seen /\ M!AfterCrash(p).kept = p.kept
    BY <2>1 DEF M!Pipe
  <2> QED BY <1>3, <2>2, <2>3
<1>4. CASE p.step \notin {"embedding", "searching", "scored", "writing", "unqueued",
                          "embedded", "persisted"}
  <2>1. M!AfterCrash(p) = p BY <1>4 DEF M!AfterCrash
  <2> QED BY <1>4, <2>1
<1> QED BY <1>1, <1>2, <1>3, <1>4

-----------------------------------------------------------------------------
(* The inductive invariant *)

\* A document has a pipeline from its opening on, and a job has candidates only while it
\* writes, and written pairs only until it has told of them.
Shape ==
  \A d \in M!Doc :
    /\ M!At(d, "idle") <=> d \notin open
    /\ pipe[d].candidates \subseteq Other(d) /\ pipe[d].seen \subseteq pipe[d].candidates
    /\ pipe[d].candidates # {} => pipe[d].step \in {"scored", "writing"}
    /\ pipe[d].kept \subseteq Other(d)
    /\ pipe[d].kept # {} => pipe[d].step \in {"writing", "persisted", "forgotten"}

\* The steps after the vector was stored.
Stored == {"embedded", "matchQueued", "searching", "scored", "writing", "persisted",
           "done"}
Searched == {"scored", "writing", "persisted", "done"}

\* The vector a search of now looks at is that of the text.
Embedded(d) == vector[d][dims] = text[d]

\* Without an edit, what a step read is what is there.
FreshReads ==
  changes = 0 =>
    \A d \in M!Doc :
      /\ pipe[d].step \in Stored => Embedded(d)
      /\ pipe[d].step \in {"embedding", "searching"} => pipe[d].read = text[d]
      /\ M!At(d, "searching") => pipe[d].at = dims

\* Two open documents have one text, and their vectors say so.
Same(d, c) == /\ {c, d} \subseteq open /\ text[c] = text[d] /\ text[d] # Empty
              /\ Embedded(c) /\ Embedded(d)

\* A search finds documents of the same text and of somebody else only.
CandidatesAlike ==
  changes = 0 =>
    \A d \in M!Doc : \A c \in pipe[d].candidates \cup pipe[d].kept :
      Same(d, c) /\ Owner[c] # pipe[d].by

\* Rows are of documents with the same text, and a row that was seen is there.
RowsAlike ==
  changes = 0 =>
    /\ \A l \in Lost, f \in Found : match[<<l, f>>] # "none" => Same(l, f)
    /\ \A d \in M!Doc : \A c \in pipe[d].seen : match[M!Pair(d, c)] # "none"

\* Of two alike documents that were both searched for, one search has the pair in hand
\* unless the row is there: the later one to search finds the vector of the other.
FoundByOne ==
  changes = 0 =>
    \A l \in Lost, f \in Found :
      /\ M!Alike(l, f)
      /\ {pipe[l].step, pipe[f].step} \subseteq Searched
      => match[<<l, f>>] # "none" \/ f \in pipe[l].candidates \/ l \in pipe[f].candidates

\* The job of d has yet to tell of its pair with c, will find the pair again when it is run
\* again, or never comes to an end.
Keeps(d, c) == c \in pipe[d].kept
FindsAgain(d, c) ==
  /\ Owner[c] # pipe[d].by
  /\ \/ pipe[d].step \in {"matchQueued", "searching"}
     \/ M!At(d, "scored") /\ c \in pipe[d].candidates
     \/ M!At(d, "writing") /\ c \in pipe[d].seen
Stuck(d) == pipe[d].step \in {"dead", "forgotten"}

\* Without a fault, whoever wrote a row tells of it.
ToldUnlessFaults ==
  losses = 0 =>
    \A l \in Lost, f \in Found :
      match[<<l, f>>] # "none" => <<l, f>> \in told \/ Keeps(l, f) \/ Keeps(f, l)

\* Whoever wrote a pair tells of it, finds it again, or never comes to an end.
Tells(d, c) == Stuck(d) \/ Keeps(d, c) \/ FindsAgain(d, c)

ToldUnlessEdits ==
  changes = 0 =>
    \A l \in Lost, f \in Found :
      match[<<l, f>>] # "none" => <<l, f>> \in told \/ Tells(l, f) \/ Tells(f, l)

-----------------------------------------------------------------------------
(* The kinds of steps *)

Untouched == UNCHANGED <<text, open, vector, dims, match, told, changes, losses>>

\* A case is opened.
Opening(d) ==
  /\ Alone(d) /\ NoLists(d) /\ M!At(d, "idle") /\ pipe'[d].step = "unqueued"
  /\ open' = open \cup {d} /\ d \notin open
  /\ UNCHANGED <<text, vector, dims, match, told, changes, losses>>

\* From step to step, with nothing to write.
Passing(d) ==
  /\ Alone(d) /\ pipe'[d].by = pipe[d].by /\ KeepsLists(d)
  /\ <<pipe[d].step, pipe'[d].step>> \in
       {<<"unqueued", "embedQueued">>, <<"unqueued", "forgotten">>,
        <<"embedded", "forgotten">>, <<"embedded", "matchQueued">>,
        <<"embedQueued", "embedding">>, <<"matchQueued", "searching">>,
        <<"embedding", "embedQueued">>, <<"embedding", "dead">>,
        <<"searching", "matchQueued">>, <<"searching", "dead">>}
  /\ pipe'[d].step \in {"embedding", "searching"} => pipe'[d].read = text[d]
  /\ pipe'[d].step = "searching" => pipe'[d].at = dims
  /\ UNCHANGED <<text, open, vector, dims, match, told, changes>>
  /\ losses' \in {losses, losses + 1}

\* A text, a row or the embedding model changes, and nothing else.
Editing ==
  /\ UNCHANGED <<open, pipe, told, losses>>
  /\ changes' # 0
  /\ \A l \in Lost, f \in Found : match'[<<l, f>>] # "none" => match[<<l, f>>] # "none"

\* A vector is stored.
Storing(d) ==
  /\ Alone(d) /\ pipe'[d].by = pipe[d].by /\ KeepsLists(d)
  /\ M!At(d, "embedding") /\ pipe'[d].step = "embedded"
  /\ vector'[d][dims] = pipe[d].read
  /\ \A e \in M!Doc \ {d} : vector'[e] = vector[e]
  /\ UNCHANGED <<text, open, dims, match, told, changes, losses>>

\* A search answers with the alike documents of its column.
Searching(d) ==
  /\ Alone(d) /\ pipe'[d].by = pipe[d].by
  /\ M!At(d, "searching") /\ pipe'[d].step \in {"done", "scored"}
  /\ pipe'[d].step = "done" => pipe'[d].candidates = {}
  /\ pipe'[d].seen = pipe[d].seen /\ pipe'[d].kept = pipe[d].kept
  /\ pipe'[d].candidates \subseteq Other(d)
  /\ \A c \in Other(d) :
       c \in pipe'[d].candidates <=>
         /\ c \in open /\ vector[c][pipe[d].at] = pipe[d].read
         /\ Owner[c] # pipe[d].by
         /\ text[c] = pipe[d].read /\ text[c] # Empty
  /\ Untouched

\* The pairs that have rows are looked up.
Looking(d) ==
  /\ Alone(d) /\ pipe'[d].by = pipe[d].by
  /\ M!At(d, "scored") /\ pipe'[d].step = "writing"
  /\ pipe'[d].candidates = pipe[d].candidates /\ pipe'[d].kept = pipe[d].kept
  /\ pipe'[d].seen = {c \in pipe[d].candidates : match[M!Pair(d, c)] # "none"}
  /\ Untouched

\* A row that was not seen is there afterwards, one that was is left alone.
Writing(d, c) ==
  /\ Alone(d) /\ pipe'[d].by = pipe[d].by
  /\ M!At(d, "writing") /\ c \in pipe[d].candidates
  /\ pipe'[d].step = IF pipe[d].candidates = {c} THEN "persisted" ELSE "writing"
  /\ pipe'[d].candidates = pipe[d].candidates \ {c}
  /\ pipe'[d].seen = pipe[d].seen \ {c}
  /\ pipe'[d].kept = IF c \in pipe[d].seen \/ match[M!Pair(d, c)] = "none"
                       THEN pipe[d].kept \cup {c} ELSE pipe[d].kept
  /\ \A p \in Lost \X Found : p # M!Pair(d, c) => match'[p] = match[p]
  /\ c \notin pipe[d].seen => match'[M!Pair(d, c)] # "none"
  /\ c \in pipe[d].seen => match'[M!Pair(d, c)] = match[M!Pair(d, c)]
  /\ UNCHANGED <<text, open, vector, dims, told, changes, losses>>

\* The users of the kept pairs are told.
Telling(d) ==
  /\ Alone(d) /\ pipe'[d].by = pipe[d].by
  /\ M!At(d, "persisted") /\ pipe'[d].step = "done"
  /\ pipe'[d].candidates = pipe[d].candidates /\ pipe'[d].seen = pipe[d].seen
  /\ pipe'[d].kept = {}
  /\ told' = told \cup {M!Pair(d, c) : c \in pipe[d].kept}
  /\ UNCHANGED <<text, open, vector, dims, match, changes, losses>>

\* The process starts again, every job where the queue has it.
Crashing ==
  /\ \A d \in M!Doc : pipe[d] \in M!Pipe /\ pipe'[d] = M!AfterCrash(pipe[d])
  /\ UNCHANGED <<text, open, vector, dims, match, told, changes>>
  /\ losses' # 0

\* Every step is of one of these kinds.
Kinds ==
  \/ \E d \in M!Doc :
       \/ Opening(d) \/ Passing(d) \/ Storing(d) \/ Searching(d) \/ Looking(d)
       \/ Telling(d) \/ \E c \in Other(d) : Writing(d, c)
  \/ Editing \/ Crashing \/ UNCHANGED M!vars

\* Retries lose nothing.
LEMMA Pass ==
  ASSUME M!TypeOK, Shape, NEW d \in M!Doc,
         \/ M!QueueEmbedding(d) \/ M!QueueMatching(d) \/ M!QueueRefuses(d)
         \/ M!ReadToEmbed(d) \/ M!ReadToSearch(d) \/ M!EmbedFails(d)
  PROVE  Passing(d) /\ pipe' \in [M!Doc -> M!Pipe]
<1>0. losses \in Nat BY DEF M!TypeOK
<1>1. CASE M!QueueEmbedding(d)
  <2>1. UNCHANGED <<text, open, vector, dims, match, told, changes, losses>>
    BY <1>1 DEF M!QueueEmbedding, M!UnchangedByQueue
  <2> QED BY <1>1, <2>1, QueueEmbeddingMoves DEF Passing, Moves, M!At
<1>2. CASE M!QueueMatching(d)
  <2>1. UNCHANGED <<text, open, vector, dims, match, told, changes, losses>>
    BY <1>2 DEF M!QueueMatching, M!UnchangedByQueue
  <2> QED BY <1>2, <2>1, QueueMatchingMoves DEF Passing, Moves, M!At
<1>3. CASE M!QueueRefuses(d)
  <2>1. /\ UNCHANGED <<text, open, vector, dims, match, told, changes>>
        /\ losses' = losses + 1
    BY <1>3 DEF M!QueueRefuses, M!UnchangedByQueue
  <2> QED BY <1>3, <2>1, QueueRefusesMoves DEF Passing, Moves, M!At
<1>4. CASE M!ReadToEmbed(d)
  <2>1. UNCHANGED <<text, open, vector, dims, match, told, changes, losses>>
    BY <1>4 DEF M!ReadToEmbed, M!UnchangedByQueue
  <2> QED BY <1>4, <2>1, ReadToEmbedMoves DEF Passing, Moves, M!At
<1>5. CASE M!ReadToSearch(d)
  <2>1. UNCHANGED <<text, open, vector, dims, match, told, changes, losses>>
    BY <1>5 DEF M!ReadToSearch, M!UnchangedByQueue
  <2> QED BY <1>5, <2>1, ReadToSearchMoves DEF Passing, Moves, M!At
<1>6. ASSUME NEW step \in {"embedding", "searching"}, NEW again \in M!Step,
             <<step, again>> \in {<<"embedding", "embedQueued">>,
                                  <<"searching", "matchQueued">>},
             M!Retry(d, step, again)
      PROVE  Passing(d) /\ pipe' \in [M!Doc -> M!Pipe]
  <2>1. UNCHANGED <<text, open, vector, dims, match, told, changes, losses>>
    BY <1>6 DEF M!Retry, M!UnchangedByQueue
  <2>2. /\ pipe' \in [M!Doc -> M!Pipe] /\ M!At(d, step) /\ NoLists(d)
        /\ Moves(d, again) \/ Moves(d, "dead")
    BY <1>6, RetryMoves
  <2>3. pipe[d].candidates = {} /\ pipe[d].seen = {} /\ pipe[d].kept = {}
    BY <1>6, <2>2 DEF Shape, M!At
  <2> QED BY <1>6, <2>1, <2>2, <2>3 DEF Passing, Moves, M!At, NoLists, KeepsLists
<1>7. CASE M!EmbedFails(d) BY <1>6, <1>7 DEF M!EmbedFails, M!Step
<1> QED BY <1>1, <1>2, <1>3, <1>4, <1>5, <1>7

LEMMA OpenKind ==
  ASSUME M!TypeOK, Shape, NEW d \in M!Doc, NEW user \in Reporter, M!Open(d, user)
  PROVE  Opening(d) /\ pipe' \in [M!Doc -> M!Pipe]
<1>1. d \notin open /\ open' = open \cup {d}
      /\ UNCHANGED <<text, vector, dims, match, told, changes, losses>>
  BY DEF M!Open
<1>2. M!At(d, "idle") BY <1>1 DEF Shape
<1> QED BY <1>1, <1>2, Opens DEF Opening

LEMMA EditKind ==
  ASSUME M!TypeOK, \/ \E d \in M!Doc, t \in Text \cup {Empty} : M!EditText(d, t)
                   \/ M!EditMatches \/ M!SwitchModel
  PROVE  Editing /\ M!TypeOK'
<1>0. changes \in Nat /\ losses \in Nat /\ MaxChanges \in Nat
      /\ match \in [Lost \X Found -> {"none", "PENDING", "REJECTED"}]
  BY MatchingAssumption DEF M!ConstantsOK, M!TypeOK
<1>1. M!Disturbed => changes' \in Nat /\ changes' # 0 /\ changes' + losses <= MaxChanges
  BY <1>0 DEF M!Disturbed
<1>2. CASE \E d \in M!Doc, t \in Text \cup {Empty} : M!EditText(d, t)
  <2>1. PICK d \in M!Doc, t \in Text \cup {Empty} : M!EditText(d, t) BY <1>2
  <2>2. /\ M!Disturbed /\ UNCHANGED <<open, vector, dims, pipe, match, told, losses>>
        /\ text' = [text EXCEPT ![d] = t]
    BY <2>1 DEF M!EditText
  <2>3. text' \in [M!Doc -> Text \cup {Empty}] BY <2>2 DEF M!TypeOK
  <2> QED BY <1>1, <2>2, <2>3 DEF Editing, M!TypeOK
<1>3. ASSUME NEW p \in Lost \X Found, NEW row \in {"none", "REJECTED"},
             match[p] # "none", M!Disturbed, match' = [match EXCEPT ![p] = row],
             UNCHANGED <<text, open, vector, dims, pipe, told, losses>>
      PROVE  Editing /\ M!TypeOK'
  <2>1. match' \in [Lost \X Found -> {"none", "PENDING", "REJECTED"}]
    BY <1>0, <1>3
  <2>2. \A l \in Lost, f \in Found : match'[<<l, f>>] # "none" => match[<<l, f>>] # "none"
    BY <1>0, <1>3
  <2> QED BY <1>1, <1>3, <2>1, <2>2 DEF Editing, M!TypeOK
<1>4. CASE \E p \in Lost \X Found : M!RejectMatch(p) \/ M!RemoveMatch(p)
  BY <1>3, <1>4 DEF M!RejectMatch, M!RemoveMatch
<1>5. CASE M!SwitchModel
  BY <1>1, <1>5 DEF M!SwitchModel, Editing, M!TypeOK
<1> QED BY <1>2, <1>4, <1>5 DEF M!EditMatches

LEMMA OthersAreDocs ==
  ASSUME NEW d \in M!Doc
  PROVE  /\ Other(d) \subseteq M!Doc /\ d \notin Other(d)
         /\ \A c \in Other(d) : M!Pair(d, c) \in Lost \X Found /\ M!Pair(c, d) = M!Pair(d, c)
         /\ \A c, e \in Other(d) : M!Pair(d, c) = M!Pair(d, e) => c = e
BY MatchingAssumption DEF M!ConstantsOK, Other, M!Pair, M!Doc

LEMMA WriteKind ==
  ASSUME M!TypeOK, Shape, NEW d \in M!Doc, NEW c \in M!Doc, M!UpsertMatch(d, c)
  PROVE  Writing(d, c) /\ c \in Other(d) /\ pipe' \in [M!Doc -> M!Pipe]
         /\ match' \in [Lost \X Found -> {"none", "PENDING", "REJECTED"}]
<1>1. c \in Other(d) BY UpsertMatchMoves DEF Shape
<1>2. PICK p \in Lost \X Found : p = M!Pair(d, c) BY <1>1, OthersAreDocs
<1>3. /\ match' = IF c \notin pipe[d].seen /\ match[p] = "none"
                    THEN [match EXCEPT ![p] = "PENDING"] ELSE match
      /\ UNCHANGED <<text, open, vector, dims, told, changes, losses>>
  BY <1>2 DEF M!UpsertMatch
<1>4. /\ match' \in [Lost \X Found -> {"none", "PENDING", "REJECTED"}]
      /\ \A q \in Lost \X Found : q # p => match'[q] = match[q]
      /\ c \notin pipe[d].seen => match'[p] # "none"
      /\ c \in pipe[d].seen => match'[p] = match[p]
  BY <1>3 DEF M!TypeOK
<1> QED BY <1>1, <1>2, <1>3, <1>4, UpsertMatchMoves DEF Writing, Moves

LEMMA StepKinds ==
  ASSUME M!TypeOK, Shape, [M!Next]_M!vars
  PROVE  Kinds /\ M!TypeOK'
<1>0. losses \in Nat /\ losses' \in Nat /\ changes' \in Nat /\ changes' + losses' <= MaxChanges
  <2>1. changes \in Nat /\ losses \in Nat /\ MaxChanges \in Nat
        /\ changes + losses <= MaxChanges
    BY MatchingAssumption DEF M!ConstantsOK, M!TypeOK
  <2>2. \/ changes' = changes /\ losses' = losses
        \/ changes + losses < MaxChanges /\ changes' = changes + 1 /\ losses' = losses
        \/ changes + losses < MaxChanges /\ changes' = changes /\ losses' = losses + 1
    BY DEF M!Next, M!vars, M!SubmitLostCase, M!VerifyFoundCase, M!Open, M!Work,
       M!QueueRefuses,
           M!QueueEmbedding, M!ReadToEmbed, M!StoreVector, M!QueueMatching, M!ReadToSearch,
           M!Search, M!LookForRows, M!Notify, M!EmbedFails, M!Retry, M!UpsertMatch, M!EditText,
           M!EditMatches, M!RejectMatch, M!RemoveMatch, M!SwitchModel, M!Crash, M!Disturbed,
           M!UnchangedByQueue
  <2> QED BY <2>1, <2>2
<1>1. ASSUME NEW d \in M!Doc, NEW user \in Reporter, M!Open(d, user)
      PROVE  Kinds /\ M!TypeOK'
  <2>1. Opening(d) /\ pipe' \in [M!Doc -> M!Pipe] BY <1>1, OpenKind
  <2> QED BY <2>1 DEF Kinds, Opening, M!TypeOK
<1>2. ASSUME NEW d \in M!Doc,
             \/ M!QueueEmbedding(d) \/ M!QueueMatching(d) \/ M!QueueRefuses(d)
             \/ M!ReadToEmbed(d) \/ M!ReadToSearch(d) \/ M!EmbedFails(d)
      PROVE  Kinds /\ M!TypeOK'
  <2>1. Passing(d) /\ pipe' \in [M!Doc -> M!Pipe] BY <1>2, Pass
  <2>2. UNCHANGED <<text, open, vector, dims, match, told, changes>> BY <2>1 DEF Passing
  <2> QED BY <1>0, <2>1, <2>2 DEF Kinds, M!TypeOK
<1>3. ASSUME NEW d \in M!Doc, M!StoreVector(d)
      PROVE  Kinds /\ M!TypeOK'
  <2>1. UNCHANGED <<text, open, dims, match, told, changes, losses>>
    BY <1>3 DEF M!StoreVector
  <2>2. Storing(d) BY <1>3, <2>1, StoreVectorMoves DEF Storing, Moves
  <2> QED BY <1>3, <2>1, <2>2, StoreVectorMoves DEF Kinds, M!TypeOK
<1>4. ASSUME NEW d \in M!Doc, M!Search(d)
      PROVE  Kinds /\ M!TypeOK'
  <2>1. Untouched BY <1>4 DEF M!Search, M!UnchangedByQueue, Untouched
  <2>2. Searching(d) BY <1>4, <2>1, SearchMoves DEF Searching, Moves
  <2> QED BY <1>4, <2>1, <2>2, SearchMoves DEF Kinds, M!TypeOK, Untouched
<1>5. ASSUME NEW d \in M!Doc, M!LookForRows(d)
      PROVE  Kinds /\ M!TypeOK'
  <2>1. Untouched BY <1>5 DEF M!LookForRows, M!UnchangedByQueue, Untouched
  <2>2. Looking(d) BY <1>5, <2>1, LookForRowsMoves DEF Looking, Moves
  <2> QED BY <1>5, <2>1, <2>2, LookForRowsMoves DEF Kinds, M!TypeOK, Untouched
<1>6. ASSUME NEW d \in M!Doc, NEW c \in M!Doc, M!UpsertMatch(d, c)
      PROVE  Kinds /\ M!TypeOK'
  <2>1. Writing(d, c) /\ c \in Other(d) /\ pipe' \in [M!Doc -> M!Pipe]
        /\ match' \in [Lost \X Found -> {"none", "PENDING", "REJECTED"}]
    BY <1>6, WriteKind
  <2>2. UNCHANGED <<text, open, vector, dims, told, changes, losses>> BY <2>1 DEF Writing
  <2> QED BY <2>1, <2>2 DEF Kinds, M!TypeOK
<1>7. ASSUME NEW d \in M!Doc, M!Notify(d)
      PROVE  Kinds /\ M!TypeOK'
  <2>1. /\ told' = told \cup {M!Pair(d, c) : c \in pipe[d].kept}
        /\ UNCHANGED <<text, open, vector, dims, match, changes, losses>>
    BY <1>7 DEF M!Notify
  <2>2. Telling(d) BY <1>7, <2>1, NotifyMoves DEF Telling, Moves
  <2>3. \A c \in pipe[d].kept : M!Pair(d, c) \in Lost \X Found
    BY OthersAreDocs DEF Shape
  <2>4. told' \subseteq Lost \X Found BY <2>1, <2>3 DEF M!TypeOK
  <2> QED BY <1>7, <2>1, <2>2, <2>4, NotifyMoves DEF Kinds, M!TypeOK
<1>8. CASE \/ \E d \in M!Doc, t \in Text \cup {Empty} : M!EditText(d, t)
           \/ M!EditMatches \/ M!SwitchModel
  BY <1>8, EditKind DEF Kinds
<1>9. CASE M!Crash
  <2>1. /\ pipe' = [d \in M!Doc |-> M!AfterCrash(pipe[d])] /\ losses' = losses + 1
        /\ UNCHANGED <<text, open, vector, dims, match, told, changes>>
    BY <1>9 DEF M!Crash
  <2>2. \A d \in M!Doc : pipe[d] \in M!Pipe /\ M!AfterCrash(pipe[d]) \in M!Pipe
    BY CrashedPipe DEF M!TypeOK
  <2>3. Crashing BY <1>0, <2>1, <2>2 DEF Crashing
  <2>4. pipe' \in [M!Doc -> M!Pipe] BY <2>1, <2>2
  <2> QED BY <1>0, <2>1, <2>3, <2>4 DEF Kinds, M!TypeOK
<1>10. CASE UNCHANGED M!vars BY <1>10 DEF Kinds, M!vars, M!TypeOK
<1>11. Staff \subseteq Reporter /\ Lost \subseteq M!Doc /\ Found \subseteq M!Doc
       /\ \A l \in Lost : Owner[l] \in Reporter
  BY MatchingAssumption DEF M!ConstantsOK, M!Doc
<1> QED BY <1>1, <1>2, <1>3, <1>4, <1>5, <1>6, <1>7, <1>8, <1>9, <1>10, <1>11
        DEF M!Next, M!SubmitLostCase, M!VerifyFoundCase, M!Work

-----------------------------------------------------------------------------
(* Each part of the invariant is kept *)

LEMMA ShapeStep ==
  ASSUME Shape, Kinds
  PROVE  Shape'
<1>1. ASSUME NEW d \in M!Doc, Alone(d), open' = open,
             (pipe'[d].step = "idle") <=> (pipe[d].step = "idle"),
             pipe'[d].candidates \subseteq Other(d), pipe'[d].seen \subseteq pipe'[d].candidates,
             pipe'[d].candidates # {} => pipe'[d].step \in {"scored", "writing"},
             pipe'[d].kept \subseteq Other(d),
             pipe'[d].kept # {} => pipe'[d].step \in {"writing", "persisted", "forgotten"}
      PROVE  Shape'
  BY <1>1 DEF Shape, Alone, M!At
<1>2. ASSUME NEW d \in M!Doc, Opening(d) PROVE Shape'
  BY <1>2 DEF Opening, NoLists, Shape, Alone, M!At, Other
<1>3. ASSUME NEW d \in M!Doc, Passing(d) PROVE Shape'
  <2>1. pipe[d].candidates = {} /\ pipe[d].kept = {} /\ pipe[d].seen = {}
    BY <1>3 DEF Passing, Shape
  <2> QED BY <1>1, <1>3, <2>1 DEF Passing, KeepsLists
<1>4. ASSUME NEW d \in M!Doc, Storing(d) PROVE Shape'
  <2>1. pipe[d].candidates = {} /\ pipe[d].kept = {} /\ pipe[d].seen = {}
    BY <1>4 DEF Storing, Shape, M!At
  <2> QED BY <1>1, <1>4, <2>1 DEF Storing, KeepsLists, M!At
<1>5. ASSUME NEW d \in M!Doc, Searching(d) PROVE Shape'
  <2>1. pipe[d].kept = {} /\ pipe[d].seen = {}
    BY <1>5 DEF Searching, Shape, M!At
  <2> QED BY <1>1, <1>5, <2>1 DEF Searching, M!At, Untouched
<1>6. ASSUME NEW d \in M!Doc, Looking(d) PROVE Shape'
  <2>1. pipe[d].kept = {} /\ pipe[d].candidates \subseteq Other(d)
    BY <1>6 DEF Looking, Shape, M!At
  <2> QED BY <1>1, <1>6, <2>1 DEF Looking, M!At, Untouched
<1>7. ASSUME NEW d \in M!Doc, NEW c \in Other(d), Writing(d, c) PROVE Shape'
  <2>1. /\ pipe[d].kept \subseteq Other(d) /\ pipe[d].candidates \subseteq Other(d)
        /\ pipe[d].seen \subseteq pipe[d].candidates
    BY DEF Shape
  <2>2. pipe'[d].candidates # {} => pipe[d].candidates # {c} BY <1>7 DEF Writing
  <2> QED BY <1>1, <1>7, <2>1, <2>2 DEF Writing, M!At
<1>8. ASSUME NEW d \in M!Doc, Telling(d) PROVE Shape'
  <2>1. pipe[d].candidates = {} /\ pipe[d].seen = {}
    BY <1>8 DEF Telling, Shape, M!At
  <2> QED BY <1>1, <1>8, <2>1 DEF Telling, M!At
<1>9. CASE Editing \/ UNCHANGED M!vars
  BY <1>9 DEF Editing, M!vars, Shape, M!At
<1>10. CASE Crashing
  <2> SUFFICES ASSUME NEW d \in M!Doc
               PROVE  /\ pipe'[d].step = "idle" <=> d \notin open
                      /\ pipe'[d].candidates \subseteq Other(d)
                      /\ pipe'[d].seen \subseteq pipe'[d].candidates
                      /\ pipe'[d].candidates # {} => pipe'[d].step \in {"scored", "writing"}
                      /\ pipe'[d].kept \subseteq Other(d)
                      /\ pipe'[d].kept # {} =>
                           pipe'[d].step \in {"writing", "persisted", "forgotten"}
    BY <1>10 DEF Crashing, Shape, M!At
  <2>1. PICK p \in M!Pipe : p = pipe[d] /\ pipe'[d] = M!AfterCrash(p)
    BY <1>10 DEF Crashing
  <2>2. /\ p.step = "idle" <=> d \notin open
        /\ p.candidates \subseteq Other(d) /\ p.seen \subseteq p.candidates
        /\ p.candidates # {} => p.step \in {"scored", "writing"}
        /\ p.kept \subseteq Other(d)
        /\ p.kept # {} => p.step \in {"writing", "persisted", "forgotten"}
    BY <2>1 DEF Shape, M!At
  <2> QED BY <2>1, <2>2, CrashedPipe
<1> QED BY <1>2, <1>3, <1>4, <1>5, <1>6, <1>7, <1>8, <1>9, <1>10 DEF Kinds

LEMMA FreshReadsStep ==
  ASSUME Shape, FreshReads, Kinds
  PROVE  FreshReads'
<1> SUFFICES ASSUME changes' = 0, NEW e \in M!Doc
             PROVE  /\ pipe'[e].step \in Stored => vector'[e][dims'] = text'[e]
                    /\ pipe'[e].step \in {"embedding", "searching"} => pipe'[e].read = text'[e]
                    /\ pipe'[e].step = "searching" => pipe'[e].at = dims'
  BY DEF FreshReads, Embedded, M!At
<1>1. ~Editing BY DEF Editing
<1>2. changes = 0 /\ text' = text /\ dims' = dims
  BY <1>1 DEF Kinds, Opening, Passing, Storing, Searching, Looking, Telling, Writing,
              Crashing, M!vars, Untouched
<1>3. /\ pipe[e].step \in Stored => vector[e][dims] = text[e]
      /\ pipe[e].step \in {"embedding", "searching"} => pipe[e].read = text[e]
      /\ pipe[e].step = "searching" => pipe[e].at = dims
  BY <1>2 DEF FreshReads, Embedded, M!At
<1>4. ASSUME NEW d \in M!Doc, Opening(d) PROVE vector' = vector
             /\ (pipe'[e] = pipe[e] \/ pipe'[e].step = "unqueued")
  BY <1>4 DEF Opening, Alone
<1>5. ASSUME NEW d \in M!Doc, Passing(d)
      PROVE  /\ pipe'[e].step \in Stored => vector'[e][dims'] = text'[e]
             /\ pipe'[e].step \in {"embedding", "searching"} => pipe'[e].read = text'[e]
             /\ pipe'[e].step = "searching" => pipe'[e].at = dims'
  BY <1>2, <1>3, <1>5 DEF Passing, Alone, Stored
<1>6. ASSUME NEW d \in M!Doc, Storing(d)
      PROVE  /\ pipe'[e].step \in Stored => vector'[e][dims'] = text'[e]
             /\ pipe'[e].step \in {"embedding", "searching"} => pipe'[e].read = text'[e]
             /\ pipe'[e].step = "searching" => pipe'[e].at = dims'
  BY <1>2, <1>3, <1>6 DEF Storing, Alone, Stored, M!At
<1>7. ASSUME NEW d \in M!Doc,
             Searching(d) \/ Looking(d) \/ Telling(d) \/ \E c \in Other(d) : Writing(d, c)
      PROVE  /\ vector' = vector
             /\ \/ pipe'[e] = pipe[e]
                \/ /\ pipe'[e].step \in {"done", "scored", "writing", "persisted"}
                   /\ pipe[e].step \in Stored
  BY <1>7 DEF Searching, Looking, Telling, Writing, Alone, M!At, Untouched, Stored
<1>8. CASE Crashing
  <2>1. PICK p \in M!Pipe : p = pipe[e] /\ pipe'[e] = M!AfterCrash(p)
    BY <1>8 DEF Crashing
  <2>2. vector' = vector BY <1>8 DEF Crashing
  <2> QED BY <1>2, <1>3, <2>1, <2>2, CrashedPipe DEF Stored
<1>9. CASE UNCHANGED M!vars BY <1>2, <1>3, <1>9 DEF M!vars
<1>10. "unqueued" \notin Stored BY DEF Stored
<1> QED BY <1>1, <1>2, <1>3, <1>4, <1>5, <1>6, <1>7, <1>8, <1>9, <1>10
        DEF Kinds, Stored

\* Without edits nothing that makes a pair alike goes away, nor its row.
LEMMA Undisturbed ==
  ASSUME M!TypeOK, Shape, FreshReads, Kinds, changes' = 0
  PROVE  /\ changes = 0 /\ text' = text /\ dims' = dims /\ open \subseteq open'
         /\ \A e \in M!Doc : Embedded(e) => Embedded(e)'
         /\ \A e \in open \cap M!Doc : pipe'[e].by = pipe[e].by
         /\ \A p \in Lost \X Found : match[p] # "none" => match'[p] # "none"
<1>1. ~Editing BY DEF Editing
<1>2. changes = 0 /\ text' = text /\ dims' = dims /\ open \subseteq open'
  BY <1>1 DEF Kinds, Opening, Passing, Storing, Searching, Looking, Telling, Writing,
              Crashing, M!vars, Untouched
<1>3. ASSUME NEW d \in M!Doc, Storing(d) PROVE \A e \in M!Doc : Embedded(e) => Embedded(e)'
  <2>1. vector'[d][dims] = text[d] BY <1>2, <1>3 DEF FreshReads, Storing, M!At
  <2> QED BY <1>2, <1>3, <2>1 DEF Storing, Embedded
<1>4. vector' = vector \/ \E d \in M!Doc : Storing(d)
  BY <1>1 DEF Kinds, Opening, Passing, Searching, Looking, Telling, Writing,
              Crashing, M!vars, Untouched
<1>5. \A e \in M!Doc : Embedded(e) => Embedded(e)' BY <1>2, <1>3, <1>4 DEF Embedded
<1>6. \A e \in open \cap M!Doc : pipe'[e].by = pipe[e].by
  <2>1. CASE Crashing BY <2>1, CrashedPipe DEF Crashing
  <2>2. CASE ~Crashing
    BY <1>1, <2>2 DEF Kinds, Opening, Passing, Storing, Searching, Looking, Telling,
                      Writing, M!vars, Untouched, Alone
  <2> QED BY <2>1, <2>2
<1>7. ASSUME NEW d \in M!Doc, NEW c \in Other(d), Writing(d, c),
             NEW p \in Lost \X Found, match[p] # "none"
      PROVE  match'[p] # "none"
  BY <1>7 DEF Writing
<1>8. match' = match \/ \E d \in M!Doc : \E c \in Other(d) : Writing(d, c)
  BY <1>1 DEF Kinds, Opening, Passing, Storing, Searching, Looking, Telling,
              Crashing, M!vars, Untouched
<1> QED BY <1>2, <1>5, <1>6, <1>7, <1>8

\* What moves the pipeline of d, but for a crash.
LEMMA DocKinds ==
  ASSUME Kinds, ~Crashing, NEW d \in M!Doc
  PROVE  \/ pipe'[d] = pipe[d]
         \/ Opening(d) \/ Passing(d) \/ Storing(d) \/ Searching(d) \/ Looking(d)
         \/ Telling(d) \/ \E c \in Other(d) : Writing(d, c)
<1>1. ASSUME NEW e \in M!Doc, e # d, Alone(e) PROVE pipe'[d] = pipe[d]
  BY <1>1 DEF Alone
<1>2. Editing \/ UNCHANGED M!vars => pipe'[d] = pipe[d] BY DEF Editing, M!vars
<1>3. ASSUME NEW e \in M!Doc,
             \/ Opening(e) \/ Passing(e) \/ Storing(e) \/ Searching(e) \/ Looking(e)
             \/ Telling(e) \/ \E c \in Other(e) : Writing(e, c)
      PROVE  Alone(e)
  BY <1>3 DEF Opening, Passing, Storing, Searching, Looking, Telling, Writing
<1> QED BY <1>1, <1>2, <1>3 DEF Kinds

\* What a search without edits finds is all there is to find.
LEMMA SearchFindsAll ==
  ASSUME Shape, FreshReads, changes = 0, NEW d \in M!Doc, Searching(d), NEW c \in Other(d)
  PROVE  c \in pipe'[d].candidates <=> Same(d, c) /\ Owner[c] # pipe[d].by
<1>1. pipe[d].step = "searching" /\ d \in open BY DEF Searching, Shape, M!At
<1>2. pipe[d].at = dims /\ pipe[d].read = text[d] /\ Embedded(d)
  BY <1>1 DEF FreshReads, M!At, Stored
<1>3. Untouched BY DEF Searching
<1>4. c \in pipe'[d].candidates <=>
        /\ c \in open /\ vector[c][dims] = text[d]
        /\ Owner[c] # pipe[d].by
        /\ text[c] = text[d] /\ text[c] # Empty
  BY <1>2 DEF Searching
<1> QED BY <1>1, <1>2, <1>4 DEF Same, Embedded

LEMMA CandidatesAlikeStep ==
  ASSUME M!TypeOK, Shape, FreshReads, CandidatesAlike, Kinds
  PROVE  CandidatesAlike'
<1> SUFFICES ASSUME changes' = 0, NEW d \in M!Doc,
                    NEW c \in pipe'[d].candidates \cup pipe'[d].kept
             PROVE  Same(d, c)' /\ Owner[c] # pipe'[d].by
  BY DEF CandidatesAlike
<1>1. /\ changes = 0 /\ text' = text /\ dims' = dims /\ open \subseteq open'
      /\ \A e \in M!Doc : Embedded(e) => Embedded(e)'
      /\ \A e \in open \cap M!Doc : pipe'[e].by = pipe[e].by
  BY Undisturbed
<1>2. pipe[d].candidates \cup pipe[d].kept \subseteq Other(d) BY DEF Shape
<1>3. Other(d) \subseteq M!Doc BY OthersAreDocs
<1>4. c \in pipe[d].candidates \cup pipe[d].kept
        \/ (c \in Other(d) /\ Same(d, c) /\ Owner[c] # pipe[d].by)
  <2>1. CASE Crashing
    <3> PICK p \in M!Pipe : p = pipe[d] /\ pipe'[d] = M!AfterCrash(p) BY <2>1 DEF Crashing
    <3> QED BY CrashedPipe
  <2>2. CASE Searching(d)
    <3>1. c \in pipe'[d].candidates => c \in Other(d) BY <2>2 DEF Searching
    <3>2. c \in pipe'[d].candidates \/ c \in pipe[d].kept BY <2>2 DEF Searching
    <3> QED BY <1>1, <2>2, <3>1, <3>2, SearchFindsAll
  <2>3. CASE ~Crashing /\ ~Searching(d)
    <3>1. pipe'[d] = pipe[d] \/ Opening(d) \/ Passing(d) \/ Storing(d) \/ Looking(d)
            \/ Telling(d) \/ \E e \in Other(d) : Writing(d, e)
      BY <2>3, DocKinds
    <3>2. pipe'[d].candidates \cup pipe'[d].kept \subseteq pipe[d].candidates \cup pipe[d].kept
      <4>1. ASSUME NEW e \in Other(d), Writing(d, e) 
             PROVE  pipe'[d].candidates \cup pipe'[d].kept
                      \subseteq pipe[d].candidates \cup pipe[d].kept
        BY <4>1 DEF Writing
      <4> QED BY <3>1, <4>1 DEF Opening, Passing, Storing, Looking, Telling, NoLists,
                                KeepsLists
    <3> QED BY <3>2
  <2> QED BY <2>1, <2>2, <2>3
<1>5. c \in M!Doc /\ Same(d, c) /\ Owner[c] # pipe[d].by
  BY <1>1, <1>2, <1>3, <1>4 DEF CandidatesAlike
<1>6. d \in open BY <1>5 DEF Same
<1> QED BY <1>1, <1>5, <1>6 DEF Same

LEMMA RowsAlikeStep ==
  ASSUME M!TypeOK, Shape, FreshReads, CandidatesAlike, RowsAlike, Kinds
  PROVE  RowsAlike'
<1> SUFFICES ASSUME changes' = 0 PROVE RowsAlike' BY DEF RowsAlike
<1>0. ~Editing BY DEF Editing
<1>1. /\ changes = 0 /\ text' = text /\ dims' = dims /\ open \subseteq open'
      /\ \A e \in M!Doc : Embedded(e) => Embedded(e)'
      /\ \A p \in Lost \X Found : match[p] # "none" => match'[p] # "none"
  BY Undisturbed
<1>2. ASSUME NEW d \in M!Doc, NEW c \in M!Doc, Same(d, c) PROVE Same(d, c)'
  BY <1>1, <1>2 DEF Same
<1>3. ASSUME NEW l \in Lost, NEW f \in Found, match'[<<l, f>>] # "none"
      PROVE  Same(l, f)'
  <2>0. l \in M!Doc /\ f \in M!Doc /\ <<l, f>> \in Lost \X Found BY DEF M!Doc
  <2>1. CASE match[<<l, f>>] # "none"
    BY <1>1, <1>2, <2>0, <2>1 DEF RowsAlike
  <2>2. CASE match[<<l, f>>] = "none"
    <3>1. PICK d \in M!Doc : \E c \in Other(d) : Writing(d, c)
      BY <1>0, <1>3, <2>2 DEF Kinds, Opening, Passing, Storing, Searching, Looking,
                              Telling, Crashing, M!vars, Untouched
    <3>2. PICK c \in Other(d) : Writing(d, c) BY <3>1
    <3>3. M!Pair(d, c) = <<l, f>> BY <1>3, <2>0, <2>2, <3>2 DEF Writing
    <3>4. Same(d, c) BY <1>1, <3>2 DEF Writing, CandidatesAlike
    <3>5. Same(l, f) BY <3>3, <3>4 DEF M!Pair, Same
    <3> QED BY <1>2, <2>0, <3>5
  <2> QED BY <2>1, <2>2
<1>4. ASSUME NEW d \in M!Doc, NEW c \in pipe'[d].seen
      PROVE  match'[M!Pair(d, c)] # "none"
  <2>1. CASE c \in pipe[d].seen
    <3>1. match[M!Pair(d, c)] # "none" /\ c \in Other(d) BY <1>1, <2>1 DEF RowsAlike, Shape
    <3> QED BY <1>1, <3>1, OthersAreDocs
  <2>2. CASE c \notin pipe[d].seen
    <3>1. CASE Crashing
      <4> PICK p \in M!Pipe : p = pipe[d] /\ pipe'[d] = M!AfterCrash(p) BY <3>1 DEF Crashing
      <4> QED BY <1>4, <2>2, CrashedPipe
    <3>2. CASE ~Crashing
      <4>1. Looking(d)
        <5>1. pipe'[d] = pipe[d] \/ Opening(d) \/ Passing(d) \/ Storing(d)
                \/ Searching(d) \/ Looking(d) \/ Telling(d)
                \/ \E e \in Other(d) : Writing(d, e)
          BY <3>2, DocKinds
        <5> QED BY <1>4, <2>2, <5>1 DEF Opening, Passing, Storing, Searching, Telling,
                                        Writing, NoLists, KeepsLists
      <4>2. match[M!Pair(d, c)] # "none" /\ match' = match
        BY <1>4, <4>1 DEF Looking, Untouched
      <4> QED BY <4>2
    <3> QED BY <3>1, <3>2
  <2> QED BY <2>1, <2>2
<1> QED BY <1>3, <1>4 DEF RowsAlike

LEMMA SearchedBefore ==
  ASSUME Kinds, ~Crashing, NEW d \in M!Doc, ~Searching(d), pipe'[d].step \in Searched
  PROVE  pipe[d].step \in Searched /\ pipe'[d].by = pipe[d].by
<1>1. pipe'[d] = pipe[d] \/ Opening(d) \/ Passing(d) \/ Storing(d) \/ Looking(d)
        \/ Telling(d) \/ \E c \in Other(d) : Writing(d, c)
  BY DocKinds
<1> QED BY <1>1 DEF Opening, Passing, Storing, Looking, Telling, Writing, M!At, Searched

\* A candidate leaves the list only for its row.
LEMMA CandidateStays ==
  ASSUME M!TypeOK, Shape, FreshReads, RowsAlike, Kinds, changes' = 0, ~Crashing,
         NEW d \in M!Doc, NEW c \in Other(d), c \in pipe[d].candidates, ~Searching(d)
  PROVE  c \in pipe'[d].candidates \/ match'[M!Pair(d, c)] # "none"
<1>1. pipe[d].step \in {"scored", "writing"} BY DEF Shape
<1>2. pipe'[d] = pipe[d] \/ Opening(d) \/ Passing(d) \/ Storing(d) \/ Looking(d)
        \/ Telling(d) \/ \E e \in Other(d) : Writing(d, e)
  BY DocKinds
<1>3. CASE \E e \in Other(d) : Writing(d, e)
  <2> PICK e \in Other(d) : Writing(d, e) BY <1>3
  <2>1. CASE e # c BY <2>1 DEF Writing
  <2>2. CASE e = c /\ c \notin pipe[d].seen BY <2>2 DEF Writing
  <2>3. CASE e = c /\ c \in pipe[d].seen
    BY <2>3, Undisturbed DEF Writing, RowsAlike
  <2> QED BY <2>1, <2>2, <2>3
<1>4. CASE pipe'[d] = pipe[d] \/ Looking(d) BY <1>4 DEF Looking
<1> QED BY <1>1, <1>2, <1>3, <1>4 DEF Opening, Passing, Storing, Telling, M!At

LEMMA FoundByOneStep ==
  ASSUME M!TypeOK, Shape, FreshReads, CandidatesAlike, RowsAlike, FoundByOne, Kinds
  PROVE  FoundByOne'
<1> SUFFICES ASSUME changes' = 0, NEW l \in Lost, NEW f \in Found, M!Alike(l, f)',
                    pipe'[l].step \in Searched, pipe'[f].step \in Searched
             PROVE  match'[<<l, f>>] # "none" \/ f \in pipe'[l].candidates
                      \/ l \in pipe'[f].candidates
  BY DEF FoundByOne
<1>0. /\ l \in M!Doc /\ f \in M!Doc /\ l # f /\ f \in Other(l) /\ l \in Other(f)
      /\ M!Pair(l, f) = <<l, f>> /\ M!Pair(f, l) = <<l, f>> /\ <<l, f>> \in Lost \X Found
  BY MatchingAssumption DEF M!ConstantsOK, M!Doc, Other, M!Pair
<1>1. /\ changes = 0 /\ text' = text /\ dims' = dims
      /\ match[<<l, f>>] # "none" => match'[<<l, f>>] # "none"
  BY <1>0, Undisturbed
<1>2. CASE Crashing
  <2>1. ASSUME NEW d \in M!Doc, pipe'[d].step \in Searched PROVE pipe'[d] = pipe[d]
    <3> PICK p \in M!Pipe : p = pipe[d] /\ pipe'[d] = M!AfterCrash(p)
      BY <1>2 DEF Crashing
    <3> QED BY <2>1, CrashedPipe DEF Searched
  <2>2. pipe'[l] = pipe[l] /\ pipe'[f] = pipe[f] BY <1>0, <2>1
  <2>3. open' = open /\ match' = match BY <1>2 DEF Crashing
  <2> QED BY <1>1, <2>2, <2>3 DEF FoundByOne, M!Alike
<1>3. ASSUME NEW d \in M!Doc, NEW c \in M!Doc, d # c, c \in Other(d), Searching(d), ~Crashing,
             text[c] = text[d], text[d] # Empty, Owner[c] # pipe'[d].by,
             pipe'[c].step \in Searched
      PROVE  c \in pipe'[d].candidates
  <2>1. d \in open /\ c \in open /\ pipe[c].step \in Stored /\ pipe[d].step \in Stored
    <3>1. pipe'[c] = pipe[c] /\ M!At(d, "searching")
      BY <1>3 DEF Searching, Alone
    <3> QED BY <1>3, <3>1 DEF Shape, M!At, Stored, Searched
  <2>2. Embedded(c) /\ Embedded(d) BY <1>1, <2>1 DEF FreshReads
  <2>3. Same(d, c) BY <1>3, <2>1, <2>2 DEF Same
  <2>4. pipe'[d].by = pipe[d].by BY <1>3 DEF Searching
  <2> QED BY <1>1, <1>3, <2>3, <2>4, SearchFindsAll
<1>4. CASE Searching(l) /\ ~Crashing BY <1>0, <1>1, <1>3, <1>4 DEF M!Alike
<1>5. CASE Searching(f) /\ ~Crashing BY <1>0, <1>1, <1>3, <1>5 DEF M!Alike
<1>6. CASE ~Searching(l) /\ ~Searching(f) /\ ~Crashing
  <2>1. /\ pipe[l].step \in Searched /\ pipe'[l].by = pipe[l].by
        /\ pipe[f].step \in Searched /\ pipe'[f].by = pipe[f].by
    BY <1>0, <1>6, SearchedBefore
  <2>2. {l, f} \subseteq open BY <1>0, <2>1 DEF Shape, M!At, Searched
  <2>3. M!Alike(l, f) BY <1>1, <2>1, <2>2 DEF M!Alike
  <2>4. match[<<l, f>>] # "none" \/ f \in pipe[l].candidates \/ l \in pipe[f].candidates
    BY <1>1, <2>1, <2>3 DEF FoundByOne
  <2>5. f \in pipe[l].candidates =>
          f \in pipe'[l].candidates \/ match'[<<l, f>>] # "none"
    BY <1>0, <1>6, CandidateStays
  <2>6. l \in pipe[f].candidates =>
          l \in pipe'[f].candidates \/ match'[<<l, f>>] # "none"
    BY <1>0, <1>6, CandidateStays
  <2> QED BY <1>1, <2>4, <2>5, <2>6
<1> QED BY <1>2, <1>4, <1>5, <1>6

\* Whoever writes a new row keeps the pair.
LEMMA NewRowIsKept ==
  ASSUME Kinds, NEW l \in Lost, NEW f \in Found, match[<<l, f>>] = "none",
         match'[<<l, f>>] # "none"
  PROVE  Keeps(l, f)' \/ Keeps(f, l)'
<1>0. <<l, f>> \in Lost \X Found OBVIOUS
<1>1. PICK d \in M!Doc : \E c \in Other(d) : Writing(d, c)
  BY DEF Kinds, Opening, Passing, Storing, Searching, Looking, Telling, Editing,
         Crashing, M!vars, Untouched
<1>2. PICK c \in Other(d) : Writing(d, c) BY <1>1
<1>3. M!Pair(d, c) = <<l, f>> BY <1>0, <1>2 DEF Writing
<1>4. c \in pipe'[d].kept BY <1>2, <1>3 DEF Writing
<1>5. (d = l /\ c = f) \/ (d = f /\ c = l) BY <1>3 DEF M!Pair
<1> QED BY <1>4, <1>5 DEF Keeps

LEMMA KeptIsTold ==
  ASSUME Shape, Kinds, ~Crashing, NEW d \in M!Doc, NEW c \in Other(d), Keeps(d, c)
  PROVE  Keeps(d, c)' \/ M!Pair(d, c) \in told'
<1>1. pipe[d].step \in {"writing", "persisted", "forgotten"} BY DEF Shape, Keeps
<1>2. pipe'[d] = pipe[d] \/ Opening(d) \/ Passing(d) \/ Storing(d) \/ Searching(d)
        \/ Looking(d) \/ Telling(d) \/ \E e \in Other(d) : Writing(d, e)
  BY DocKinds
<1>3. CASE Telling(d) BY <1>3 DEF Telling, Keeps
<1>4. CASE \E e \in Other(d) : Writing(d, e) BY <1>4 DEF Writing, Keeps
<1> QED BY <1>1, <1>2, <1>3, <1>4
        DEF Opening, Passing, Storing, Searching, Looking, M!At, Keeps

LEMMA ToldStays ==
  ASSUME Kinds
  PROVE  told \subseteq told'
BY DEF Kinds, Opening, Passing, Storing, Searching, Looking, Telling, Writing, Editing,
       Crashing, M!vars, Untouched

LEMMA ToldUnlessFaultsStep ==
  ASSUME M!TypeOK, Shape, ToldUnlessFaults, Kinds
  PROVE  ToldUnlessFaults'
<1> SUFFICES ASSUME losses' = 0, NEW l \in Lost, NEW f \in Found,
                    match'[<<l, f>>] # "none"
             PROVE  <<l, f>> \in told' \/ Keeps(l, f)' \/ Keeps(f, l)'
  BY DEF ToldUnlessFaults
<1>1. ~Crashing BY DEF Crashing
<1>2. losses = 0
  <2>1. losses \in Nat BY DEF M!TypeOK
  <2>2. losses' \in {losses, losses + 1}
    BY <1>1 DEF Kinds, Opening, Passing, Storing, Searching, Looking, Telling, Writing,
                Editing, M!vars, Untouched
  <2> QED BY <2>1, <2>2
<1>3. /\ l \in M!Doc /\ f \in M!Doc /\ f \in Other(l) /\ l \in Other(f)
      /\ M!Pair(l, f) = <<l, f>> /\ M!Pair(f, l) = <<l, f>>
  BY MatchingAssumption DEF M!ConstantsOK, M!Doc, Other, M!Pair
<1>4. CASE match[<<l, f>>] # "none"
  BY <1>1, <1>2, <1>3, <1>4, ToldStays, KeptIsTold DEF ToldUnlessFaults
<1> QED BY <1>4, NewRowIsKept

\* Whoever tells of a written pair does so in the end.
LEMMA TellsStays ==
  ASSUME M!TypeOK, Shape, FreshReads, CandidatesAlike, RowsAlike, Kinds, changes' = 0,
         NEW d \in M!Doc, NEW c \in Other(d), Tells(d, c), match[M!Pair(d, c)] # "none"
  PROVE  Tells(d, c)' \/ M!Pair(d, c) \in told'
<1>0. changes = 0 BY Undisturbed
<1>1. c \in pipe[d].kept => Owner[c] # pipe[d].by BY <1>0 DEF CandidatesAlike
<1>2. /\ pipe[d].kept # {} => pipe[d].step \in {"writing", "persisted", "forgotten"}
      /\ pipe[d].seen \subseteq pipe[d].candidates
  BY DEF Shape
<1>3. CASE Crashing
  <2> PICK p \in M!Pipe : p = pipe[d] /\ pipe'[d] = M!AfterCrash(p) BY <1>3 DEF Crashing
  <2> QED BY <1>1, <1>2, CrashedPipe DEF Tells, Stuck, Keeps, FindsAgain, M!At
<1>4. CASE ~Crashing /\ Keeps(d, c) BY <1>4, KeptIsTold DEF Tells
<1>5. CASE ~Crashing /\ Stuck(d)
  <2>1. pipe'[d] = pipe[d] \/ Opening(d) \/ Passing(d) \/ Storing(d) \/ Searching(d)
          \/ Looking(d) \/ Telling(d) \/ \E e \in Other(d) : Writing(d, e)
    BY <1>5, DocKinds
  <2>2. pipe'[d] = pipe[d]
    BY <1>5, <2>1 DEF Stuck, Opening, Passing, Storing, Searching, Looking, Telling,
                      Writing, M!At
  <2> QED BY <1>5, <2>2 DEF Tells, Stuck
<1>6. CASE ~Crashing /\ FindsAgain(d, c)
  <2>1. pipe[d].step \in {"matchQueued", "searching", "scored", "writing"}
        /\ Owner[c] # pipe[d].by
    BY <1>6 DEF FindsAgain, M!At
  <2>2. pipe'[d] = pipe[d] \/ Opening(d) \/ Passing(d) \/ Storing(d) \/ Searching(d)
          \/ Looking(d) \/ Telling(d) \/ \E e \in Other(d) : Writing(d, e)
    BY <1>6, DocKinds
  <2>3. CASE pipe'[d] = pipe[d] BY <1>6, <2>3 DEF Tells, FindsAgain, M!At
  <2>4. CASE Passing(d)
    BY <2>1, <2>4 DEF Passing, Tells, FindsAgain, Stuck, M!At
  <2>5. CASE Searching(d)
    <3>1. Same(d, c)
      <4>1. M!Pair(d, c) \in Lost \X Found BY OthersAreDocs
      <4>2. (d \in Lost /\ c \in Found /\ Same(d, c)) \/ (d \in Found /\ c \in Lost /\ Same(c, d))
        BY <1>0, <4>1 DEF RowsAlike, M!Pair, Other, M!Doc
      <4> QED BY <4>2 DEF Same
    <3>2. c \in pipe'[d].candidates BY <1>0, <2>1, <2>5, <3>1, SearchFindsAll
    <3>3. pipe'[d].step = "scored" /\ pipe'[d].by = pipe[d].by
      BY <2>5, <3>2 DEF Searching
    <3> QED BY <2>1, <3>2, <3>3 DEF Tells, FindsAgain, M!At
  <2>6. CASE Looking(d)
    BY <1>6, <2>6 DEF Looking, Tells, FindsAgain, M!At
  <2>7. ASSUME NEW e \in Other(d), Writing(d, e) PROVE Tells(d, c)'
    <3>1. c \in pipe[d].seen /\ c \in pipe[d].candidates
      BY <1>2, <1>6, <2>7 DEF FindsAgain, Writing, M!At
    <3>2. CASE e = c BY <2>7, <3>1, <3>2 DEF Writing, Tells, Keeps
    <3>3. CASE e # c
      <4>1. pipe[d].candidates # {e} BY <3>1, <3>3
      <4> QED BY <2>1, <2>7, <3>1, <3>3, <4>1 DEF Writing, Tells, FindsAgain, M!At
    <3> QED BY <3>2, <3>3
  <2> QED BY <2>1, <2>2, <2>3, <2>4, <2>5, <2>6, <2>7 DEF Opening, Storing, Telling, M!At
<1> QED BY <1>3, <1>4, <1>5, <1>6 DEF Tells

LEMMA ToldUnlessEditsStep ==
  ASSUME M!TypeOK, Shape, FreshReads, CandidatesAlike, RowsAlike, ToldUnlessEdits, Kinds
  PROVE  ToldUnlessEdits'
<1> SUFFICES ASSUME changes' = 0, NEW l \in Lost, NEW f \in Found,
                    match'[<<l, f>>] # "none"
             PROVE  <<l, f>> \in told' \/ Tells(l, f)' \/ Tells(f, l)'
  BY DEF ToldUnlessEdits
<1>1. /\ l \in M!Doc /\ f \in M!Doc /\ f \in Other(l) /\ l \in Other(f)
      /\ M!Pair(l, f) = <<l, f>> /\ M!Pair(f, l) = <<l, f>>
  BY MatchingAssumption DEF M!ConstantsOK, M!Doc, Other, M!Pair
<1>2. CASE match[<<l, f>>] # "none"
  <2>1. changes = 0 BY Undisturbed
  <2>2. <<l, f>> \in told \/ Tells(l, f) \/ Tells(f, l)
    BY <1>2, <2>1 DEF ToldUnlessEdits
  <2>3. Tells(l, f) => Tells(l, f)' \/ <<l, f>> \in told' BY <1>1, <1>2, TellsStays
  <2>4. Tells(f, l) => Tells(f, l)' \/ <<l, f>> \in told' BY <1>1, <1>2, TellsStays
  <2> QED BY <2>2, <2>3, <2>4, ToldStays
<1>3. CASE match[<<l, f>>] = "none" BY <1>3, NewRowIsKept DEF Tells
<1> QED BY <1>2, <1>3

-----------------------------------------------------------------------------
(* The theorems *)

\* The inductive invariant.
MatchInv ==
  /\ M!TypeOK /\ Shape /\ FreshReads /\ CandidatesAlike /\ RowsAlike
  /\ FoundByOne /\ ToldUnlessFaults /\ ToldUnlessEdits

LEMMA InitMatchInv == M!Init => MatchInv
<1> SUFFICES ASSUME M!Init PROVE MatchInv OBVIOUS
<1>1. M!Idle \in M!Pipe /\ M!Idle.step = "idle" BY DEF M!Idle, M!Pipe, M!Step
<1>2. M!Idle.candidates = {} /\ M!Idle.seen = {} /\ M!Idle.kept = {} BY DEF M!Idle
<1>3. \A d \in M!Doc : pipe[d] = M!Idle BY DEF M!Init
<1>4. M!TypeOK
  <2>1. 768 \in M!Dims BY DEF M!Dims
  <2>2. vector \in [M!Doc -> [M!Dims -> Text \cup {Empty, M!NoText}]] BY DEF M!Init
  <2>3. pipe \in [M!Doc -> M!Pipe] BY <1>1 DEF M!Init
  <2>4. /\ text \in [M!Doc -> Text \cup {Empty}] /\ open \subseteq M!Doc /\ dims \in M!Dims
        /\ match \in [Lost \X Found -> {"none", "PENDING", "REJECTED"}]
        /\ told \subseteq Lost \X Found
        /\ changes \in Nat /\ losses \in Nat /\ changes + losses <= MaxChanges
    BY <2>1, MatchingAssumption DEF M!ConstantsOK, M!Init
  <2> QED BY <2>2, <2>3, <2>4 DEF M!TypeOK
<1>5. Shape BY <1>1, <1>2, <1>3 DEF Shape, M!Init, M!At
<1>6. FreshReads BY <1>1, <1>3 DEF FreshReads, M!At, Stored
<1>7. CandidatesAlike BY <1>2, <1>3 DEF CandidatesAlike
<1>8. \A l \in Lost, f \in Found : match[<<l, f>>] = "none" BY DEF M!Init
<1>9. RowsAlike BY <1>2, <1>3, <1>8 DEF RowsAlike
<1>10. FoundByOne
  BY <1>1, <1>3, MatchingAssumption DEF M!ConstantsOK, FoundByOne, Searched, M!Doc
<1> QED BY <1>4, <1>5, <1>6, <1>7, <1>8, <1>9, <1>10
        DEF MatchInv, ToldUnlessFaults, ToldUnlessEdits

LEMMA NextMatchInv == MatchInv /\ [M!Next]_M!vars => MatchInv'
<1> SUFFICES ASSUME MatchInv, [M!Next]_M!vars PROVE MatchInv' OBVIOUS
<1>1. Kinds /\ M!TypeOK' BY StepKinds DEF MatchInv
<1> QED BY <1>1, ShapeStep, FreshReadsStep, CandidatesAlikeStep, RowsAlikeStep,
           FoundByOneStep, ToldUnlessFaultsStep, ToldUnlessEditsStep DEF MatchInv

\* For any number of cases, texts and attempts, vectors, candidates, rows and what was told
\* go together as MatchInv says.
THEOREM MatchingIsSound == M!Spec => []MatchInv
<1>1. MatchInv /\ UNCHANGED M!vars => MatchInv' BY NextMatchInv
<1> QED BY InitMatchInv, NextMatchInv, PTL DEF M!Spec

\* Without an edit, and whatever the order in which the two sides embed and search, alike
\* cases that have both come to an end have a row (layeredMatching, persistCandidates).
THEOREM NoMatchIsMissed == M!Spec => []NoMissedMatch
<1>1. MatchInv => NoMissedMatch
  <2> SUFFICES ASSUME MatchInv, changes = 0, NEW l \in Lost, NEW f \in Found, M!Alike(l, f),
                      M!At(l, "done"), M!At(f, "done")
               PROVE  match[<<l, f>>] # "none"
    BY DEF NoMissedMatch, M!NoMissedMatch
  <2>1. pipe[l].candidates = {} /\ pipe[f].candidates = {}
    BY DEF MatchInv, Shape, M!At, M!Doc
  <2> QED BY <2>1 DEF MatchInv, FoundByOne, M!At, Searched
<1> QED BY <1>1, MatchingIsSound, PTL

\* Whoever writes the row, and however often, the users are told of it, with faults or with
\* edits but not with both (onCompleted).
THEOREM MatchesAreTold == M!Spec => []MatchIsTold
<1>1. MatchInv => MatchIsTold
  <2> SUFFICES ASSUME MatchInv, changes = 0 \/ losses = 0, NEW l \in Lost, NEW f \in Found,
                      match[<<l, f>>] # "none", M!At(l, "done"), M!At(f, "done")
               PROVE  <<l, f>> \in told
    BY DEF MatchIsTold, M!MatchIsTold
  <2>1. pipe[l].kept = {} /\ pipe[f].kept = {} BY DEF MatchInv, Shape, M!At, M!Doc
  <2>2. CASE changes = 0
    BY <2>1, <2>2 DEF MatchInv, ToldUnlessEdits, Tells, Stuck, Keeps, FindsAgain, M!At
  <2>3. CASE losses = 0 BY <2>1, <2>3 DEF MatchInv, ToldUnlessFaults, Keeps
  <2> QED BY <2>2, <2>3
<1> QED BY <1>1, MatchingIsSound, PTL

\* No search takes a rejection back (persistCandidates).
THEOREM RejectionsStand == M!Spec => RejectionStands
<1>1. MatchInv /\ [M!Next]_M!vars =>
        [\A p \in DOMAIN match :
           match[p] = "REJECTED" => match'[p] \in {"REJECTED", "none"}]_M!vars
  <2> SUFFICES ASSUME MatchInv, M!Next, NEW p \in Lost \X Found, match[p] = "REJECTED"
               PROVE  match'[p] \in {"REJECTED", "none"}
    BY DEF MatchInv, M!TypeOK
  <2>0. match \in [Lost \X Found -> {"none", "PENDING", "REJECTED"}]
    BY DEF MatchInv, M!TypeOK
  <2>1. ASSUME NEW d \in M!Doc, NEW c \in M!Doc, M!UpsertMatch(d, c)
        PROVE  match'[p] \in {"REJECTED", "none"}
    <3>1. c \in Other(d) BY <2>1, UpsertMatchMoves DEF MatchInv, Shape
    <3>2. PICK q \in Lost \X Found : q = M!Pair(d, c) BY <3>1, OthersAreDocs
    <3>3. match' = match \/ (match[q] = "none" /\ match' = [match EXCEPT ![q] = "PENDING"])
      BY <2>1, <3>2 DEF M!UpsertMatch
    <3> QED BY <2>0, <3>3
  <2>2. CASE M!EditMatches
    BY <2>0, <2>2 DEF M!EditMatches, M!RejectMatch, M!RemoveMatch
  <2>3. match' = match \/ M!EditMatches \/ \E d \in M!Doc, c \in M!Doc : M!UpsertMatch(d, c)
    BY DEF M!Next, M!SubmitLostCase, M!VerifyFoundCase, M!Open, M!Work, M!QueueRefuses,
           M!QueueEmbedding, M!ReadToEmbed, M!StoreVector, M!QueueMatching, M!ReadToSearch,
           M!Search, M!LookForRows, M!Notify, M!EmbedFails, M!Retry, M!EditText, M!SwitchModel,
           M!Crash, M!UnchangedByQueue
  <2> QED BY <2>1, <2>2, <2>3
<1> QED BY <1>1, MatchingIsSound, PTL DEF M!Spec, RejectionStands, M!RejectionStands
=============================================================================
