--------------------------- MODULE Notifications ---------------------------
(***************************************************************************)
(* The notifications of one user, from a caller's send to a settled row    *)
(* (src/notifications, src/push-token).                                    *)
(*                                                                         *)
(* A dispatch writes an event for the inbox, one log row per channel and   *)
(* per push token, and then hands one job per row to a queue of BullMQ.    *)
(* A worker renders the template, sends through a provider and writes the  *)
(* row; an accepted push has a second job that asks for its receipt.       *)
(* BullMQ keeps jobs over a crash and gives a worker's unfinished job to   *)
(* another with the same attemptsMade; a second stall of one job, the      *)
(* delay before a retry and the three priorities are not modelled.         *)
(*                                                                         *)
(* An inline source is a template nobody edits; bodies, errors and the     *)
(* queries are left out.                                                   *)
(***************************************************************************)
EXTENDS Integers, Sequences, FiniteSets, SequencesExt

CONSTANTS
  Channel,    \* the channels there are; SMS is treated as EMAIL is
  Token,      \* push tokens of the user's devices
  Templates,  \* what the template may be, from edit to edit
  Attempts,   \* attempts of a job
  MaxEvents,  \* bound: events ever created
  MaxLogs,    \* bound: rows ever created
  MaxEdits,   \* bound: what the user, their devices and the template's author do
  MaxFaults   \* bound: crashes and refused additions to a queue

\* channels: metadata.channels, where a channel may be left unsaid; slots: the
\* channels there is text for.
Template == [voided: BOOLEAN,
             channels: [Channel -> {"on", "off", "unsaid"}],
             slots: SUBSET Channel]

ASSUME NotificationsAssumption ==
  /\ Channel \subseteq {"EMAIL", "SMS", "PUSH"}
  /\ Templates \subseteq Template /\ Templates # {}
  /\ Attempts \in Nat \ {0} /\ IsFiniteSet(Token) /\ Token \cap {"EMAIL", "SMS", "PUSH"} = {}
  /\ {MaxEvents, MaxLogs, MaxEdits, MaxFaults} \subseteq Nat

VARIABLES
  template,  \* the template of the notifications sent
  token,     \* the user's push token rows
  device,    \* whether the token's device still has the application
  dispatch,  \* the send under way: its event, rows to write, jobs to add
  events,    \* NotificationEvent rows
  logs,      \* NotificationLog rows, oldest first
  jobs,      \* the job of each row
  receipts,  \* rows with a receipt job
  accepted,  \* observed: how often a provider took each row's message
  edits, faults

vars == <<template, token, device, dispatch, events, logs, jobs, receipts,
          accepted, edits, faults>>

\* Where a row's message goes: a push row names its token.
Target == (Channel \ {"PUSH"}) \cup Token
ChannelOf(to) == IF to \in Token THEN "PUSH" ELSE to

Log == [event: Nat, to: Target, attempts: Nat,
        status: {"PENDING", "QUEUED", "SENT", "FAILED", "SKIPPED", "gone"}]

\* waiting, then a worker's steps, then how the job ended
Job == [made: Nat,
        step: {"none", "waiting", "started", "resolved", "accepted", "sent",
               "caught", "exhausted", "done", "failed"}]

TypeOK ==
  /\ template \in Templates
  /\ token \in [Token -> {"absent", "active", "voided"}]
  /\ device \in [Token -> {"alive", "dead"}]
  /\ dispatch \in [step: {"idle", "insert", "add"}, event: Nat,
                   todo: SUBSET Target, rows: SUBSET Nat]
  /\ events \in Seq([state: {"kept", "voided", "gone"}, read: BOOLEAN])
  /\ logs \in Seq(Log) /\ jobs \in Seq(Job) /\ Len(logs) = Len(jobs)
  /\ receipts \subseteq DOMAIN logs
  /\ accepted \in [DOMAIN logs -> Nat]
  /\ edits \in 0..MaxEdits /\ faults \in 0..MaxFaults

NoDispatch == [step |-> "idle", event |-> 0, todo |-> {}, rows |-> {}]

Init ==
  /\ template \in Templates
  /\ token \in [Token -> {"absent", "active"}] /\ device = [t \in Token |-> "alive"]
  /\ dispatch = NoDispatch
  /\ events = <<>> /\ logs = <<>> /\ jobs = <<>> /\ accepted = <<>>
  /\ receipts = {} /\ edits = 0 /\ faults = 0

-----------------------------------------------------------------------------
(* Dispatch *)

\* getAllowedChannels and isQuietHours; force skips both.
FilterAllowedChannels(requested, preferred, quiet, force) ==
  IF force THEN requested
  ELSE (requested \cap preferred) \cap (IF quiet THEN {"EMAIL"} ELSE Channel)

ActiveTokens == {t \in Token : token[t] = "active"}

\* reachable: the channels the user has an address for that is no placeholder.
Targets(allowed, reachable) ==
  ((allowed \cap reachable) \ {"PUSH"})
     \cup (IF "PUSH" \in allowed THEN ActiveTokens ELSE {})

NewEvent == [state |-> "kept", read |-> FALSE]

\* The template's channels come first, then the user's; an event is written even
\* when no channel has an address.
Enqueue(requested, preferred, quiet, force, reachable) ==
  LET offered == {c \in requested : template.channels[c] # "off"}
      allowed == FilterAllowedChannels(offered, preferred, quiet, force)
      targets == Targets(allowed, reachable)
  IN /\ dispatch.step = "idle" /\ Len(events) < MaxEvents
     /\ ~template.voided /\ allowed # {}
     /\ Len(logs) + Cardinality(targets) <= MaxLogs
     /\ events' = Append(events, NewEvent)
     /\ dispatch' = IF targets = {} THEN NoDispatch
                    ELSE [NoDispatch EXCEPT !.step = "insert", !.todo = targets,
                                            !.event = Len(events) + 1]
     /\ UNCHANGED <<template, token, device, logs, jobs, receipts, accepted, edits, faults>>

NewLog(e, to) == [event |-> e, to |-> to, attempts |-> 0, status |-> "PENDING"]
NoJob == [made |-> 0, step |-> "none"]

NewRows(e, targets) ==
  LET n == Cardinality(targets) IN
  /\ logs' = logs \o [i \in 1..n |-> NewLog(e, SetToSeq(targets)[i])]
  /\ jobs' = jobs \o [i \in 1..n |-> NoJob]
  /\ accepted' = accepted \o [i \in 1..n |-> 0]

\* The rows are written one by one, here in any order; with the last of them
\* written only the jobs are missing.  A purged event refuses its rows.
InsertLog(to) ==
  /\ dispatch.step = "insert" /\ to \in dispatch.todo
  /\ IF events[dispatch.event].state = "gone"
     THEN dispatch' = NoDispatch /\ UNCHANGED <<logs, jobs, accepted>>
     ELSE /\ NewRows(dispatch.event, {to})
          /\ dispatch' = [dispatch EXCEPT
                !.todo = @ \ {to}, !.rows = @ \cup {Len(logs) + 1},
                !.step = IF dispatch.todo = {to} THEN "add" ELSE @]
  /\ UNCHANGED <<template, token, device, events, receipts, edits,
                 faults>>

AddBulk ==
  /\ dispatch.step = "add"
  /\ jobs' = [l \in DOMAIN jobs |->
                IF l \in dispatch.rows THEN [made |-> 0, step |-> "waiting"]
                ELSE jobs[l]]
  /\ dispatch' = NoDispatch
  /\ UNCHANGED <<template, token, device, events, logs, receipts, accepted, edits, faults>>

\* No template or address is asked for, the rows are one transaction, and the user
\* listed n times has n events, of which the last has all the rows.
SendBulk(n, preferred, quiet, force) ==
  LET allowed == FilterAllowedChannels(Channel, preferred, quiet, force)
      targets == Targets(allowed, Channel)
      last    == Len(events) + n
  IN /\ dispatch.step = "idle" /\ last <= MaxEvents
     /\ targets # {} /\ Len(logs) + Cardinality(targets) <= MaxLogs
     /\ events' = events \o [i \in 1..n |-> NewEvent]
     /\ NewRows(last, targets)
     /\ dispatch' = [NoDispatch EXCEPT !.step = "add", !.event = last,
                       !.rows = (Len(logs) + 1)..(Len(logs) + Cardinality(targets))]
     /\ UNCHANGED <<template, token, device, receipts, edits, faults>>

-----------------------------------------------------------------------------
(* Delivery *)

At(l, step)   == jobs[l].step = step
Goto(l, step) == jobs' = [jobs EXCEPT ![l].step = step]
SetStatus(l, status) == logs' = [logs EXCEPT ![l].status = status]
Gone(l) == logs[l].status = "gone"

\* Mutant: the attempts are not counted.
MutAttemptFails(l) ==
  Goto(l, IF jobs[l].made + 1 < Attempts THEN "waiting" ELSE "exhausted")

\* An attempt ends with an error: the queue tries again or gives up.
AttemptFails(l) ==
  jobs' = [jobs EXCEPT ![l] =
             [made |-> @.made + 1,
              step |-> IF @.made + 1 < Attempts THEN "waiting" ELSE "exhausted"]]

UnchangedByWorker ==
  UNCHANGED <<template, token, device, dispatch, events, edits, faults>>

\* The first attempt marks the row, and fails when there is none.
Start(l) ==
  /\ At(l, "waiting")
  /\ IF jobs[l].made = 0 /\ Gone(l) THEN AttemptFails(l) ELSE Goto(l, "started")
  /\ IF jobs[l].made = 0 /\ ~Gone(l) THEN SetStatus(l, "QUEUED")
     ELSE UNCHANGED logs
  /\ UnchangedByWorker /\ UNCHANGED <<receipts, accepted>>

\* What the template has for the channel now; a channel it does not mention is off
\* here and on in Enqueue.
HasContent(c) == template.channels[c] = "on" /\ c \in template.slots

\* Mutant: the body is not written to the row before it is sent.
MutResolve(l) ==
  /\ At(l, "started")
  /\ IF template.voided
     THEN Goto(l, "caught") /\ UNCHANGED logs
     ELSE IF HasContent(ChannelOf(logs[l].to))
          THEN Goto(l, "resolved") /\ UNCHANGED logs
          ELSE Goto(l, "done") /\ SetStatus(l, "SKIPPED")
  /\ UnchangedByWorker /\ UNCHANGED <<receipts, accepted>>

Resolve(l) ==
  /\ At(l, "started")
  /\ CASE template.voided \/ Gone(l) ->
            Goto(l, "caught") /\ UNCHANGED logs
       [] ~template.voided /\ ~Gone(l) /\ HasContent(ChannelOf(logs[l].to)) ->
            Goto(l, "resolved") /\ UNCHANGED logs
       [] OTHER -> Goto(l, "done") /\ SetStatus(l, "SKIPPED")
  /\ UnchangedByWorker /\ UNCHANGED <<receipts, accepted>>

\* The channel service tries its providers and reports their errors in a text: the
\* code of a refusal is not in its result.
ChannelResult(ticket) ==
  [success |-> ticket = "ok", errorCode |-> "none"]

PermanentPushErrors == {"DeviceNotRegistered"}

\* What Expo answers to one message, and 15 minutes later about it.
Ticket  == {"ok", "error", "DeviceNotRegistered"}
ReceiptOutcome == Ticket \cup {"none"}

Send(l, ticket) ==
  LET to == logs[l].to
      result == ChannelResult(ticket)
  IN /\ At(l, "resolved")
     /\ ticket = "DeviceNotRegistered" => to \in Token /\ device[to] = "dead"
     /\ token' = IF ~result.success /\ result.errorCode \in PermanentPushErrors
                   THEN [token EXCEPT ![to] = "voided"] ELSE token
     /\ IF result.success
        THEN Goto(l, "accepted") /\ accepted' = [accepted EXCEPT ![l] = @ + 1]
        ELSE Goto(l, "caught") /\ UNCHANGED accepted
     /\ UNCHANGED <<template, device, dispatch, events, logs, receipts, edits,
                    faults>>

WriteSent(l) ==
  /\ At(l, "accepted")
  /\ IF Gone(l) THEN Goto(l, "caught") /\ UNCHANGED logs
     ELSE /\ logs' = [logs EXCEPT ![l].status = "SENT",
                                  ![l].attempts = jobs[l].made + 1]
          /\ Goto(l, IF logs[l].to \in Token THEN "sent" ELSE "done")
  /\ UnchangedByWorker /\ UNCHANGED <<receipts, accepted>>

ScheduleReceipt(l) ==
  /\ At(l, "sent")
  /\ receipts' = receipts \cup {l} /\ Goto(l, "done")
  /\ UnchangedByWorker /\ UNCHANGED <<logs, accepted>>

\* The queue's store refuses the receipt job: the whole attempt has failed.
ReceiptRefused(l) ==
  /\ At(l, "sent") /\ faults < MaxFaults
  /\ faults' = faults + 1 /\ Goto(l, "caught")
  /\ UNCHANGED <<template, token, device, dispatch, events, logs, receipts,
                 accepted, edits>>

Catch(l) ==
  /\ At(l, "caught")
  /\ logs' = IF Gone(l) THEN logs
             ELSE [logs EXCEPT ![l].attempts = jobs[l].made + 1]
  /\ AttemptFails(l)
  /\ UnchangedByWorker /\ UNCHANGED <<receipts, accepted>>

\* Mutant: the row is left as it is when the queue gives up.
MutOnFailed(l) ==
  /\ At(l, "exhausted") /\ Goto(l, "failed") /\ UNCHANGED logs
  /\ UnchangedByWorker /\ UNCHANGED <<receipts, accepted>>

OnFailed(l) ==
  /\ At(l, "exhausted")
  /\ IF Gone(l) THEN UNCHANGED logs ELSE SetStatus(l, "FAILED")
  /\ Goto(l, "failed")
  /\ UnchangedByWorker /\ UNCHANGED <<receipts, accepted>>

\* The row first: a purged one stops the job before the token.
CheckReceipt(l, receipt) ==
  /\ l \in receipts
  /\ receipt = "DeviceNotRegistered" => device[logs[l].to] = "dead"
  /\ receipts' = receipts \ {l}
  /\ IF receipt \in {"none", "ok"} \/ Gone(l) THEN UNCHANGED <<logs, token>>
     ELSE /\ SetStatus(l, "FAILED")
          /\ token' = IF receipt = "DeviceNotRegistered"
                        THEN [token EXCEPT ![logs[l].to] = "voided"] ELSE token
  /\ UNCHANGED <<template, device, dispatch, events, jobs, accepted,
                 edits, faults>>

\* The process dies: the send under way is lost, unfinished jobs wait again, a job
\* the queue has given up is not told to anyone.
Crash ==
  /\ faults < MaxFaults /\ faults' = faults + 1
  /\ dispatch' = NoDispatch
  /\ jobs' = [l \in DOMAIN jobs |->
       CASE jobs[l].step = "exhausted" -> [jobs[l] EXCEPT !.step = "failed"]
         [] jobs[l].step \in {"none", "waiting", "done", "failed"} -> jobs[l]
         [] OTHER -> [jobs[l] EXCEPT !.step = "waiting"]]
  /\ UNCHANGED <<template, token, device, events, logs, receipts, accepted, edits>>

-----------------------------------------------------------------------------
(* The inbox, the tokens and the template *)

Edited ==
  /\ edits < MaxEdits /\ edits' = edits + 1
  /\ UNCHANGED <<dispatch, jobs, receipts, accepted, faults>>

UnchangedByInbox == Edited /\ UNCHANGED <<template, token, device>>
UnchangedByToken == Edited /\ UNCHANGED <<events, logs>>

MarkRead(e) ==
  /\ events[e].state # "gone" /\ ~events[e].read
  /\ events' = [events EXCEPT ![e].read = TRUE]
  /\ UnchangedByInbox /\ UNCHANGED logs

\* Purging takes the event's rows along.
RemoveEvent(e, purge) ==
  /\ events[e].state # "gone"
  /\ events' = [events EXCEPT ![e].state = IF purge THEN "gone" ELSE "voided"]
  /\ logs' = [l \in DOMAIN logs |->
                IF purge /\ logs[l].event = e
                THEN [logs[l] EXCEPT !.status = "gone"] ELSE logs[l]]
  /\ UnchangedByInbox

RestoreEvent(e) ==
  /\ events[e].state # "gone"
  /\ events' = [events EXCEPT ![e].state = "kept"]
  /\ UnchangedByInbox /\ UNCHANGED logs

\* The upsert leaves voided as it is.
SetPushToken(t) ==
  /\ device[t] = "alive"
  /\ token' = [token EXCEPT ![t] = IF @ = "absent" THEN "active" ELSE @]
  /\ UnchangedByToken /\ UNCHANGED <<template, device>>

RemovePushToken(t, purge) ==
  /\ token[t] # "absent"
  /\ token' = [token EXCEPT ![t] = IF purge THEN "absent" ELSE "voided"]
  /\ UnchangedByToken /\ UNCHANGED <<template, device>>

RestorePushToken(t) ==
  /\ token[t] # "absent"
  /\ token' = [token EXCEPT ![t] = "active"]
  /\ UnchangedByToken /\ UNCHANGED <<template, device>>

DeviceDies(t) ==
  /\ device[t] = "alive"
  /\ device' = [device EXCEPT ![t] = "dead"]
  /\ UnchangedByToken /\ UNCHANGED <<template, token>>

EditTemplate(new) ==
  /\ new # template
  /\ template' = new
  /\ UnchangedByToken /\ UNCHANGED <<token, device>>

-----------------------------------------------------------------------------
Dispatch ==
  \/ /\ Len(events) < MaxEvents
     /\ \E requested, preferred \in SUBSET Channel, quiet, force \in BOOLEAN,
           reachable \in SUBSET (Channel \ {"PUSH"}) :
          Enqueue(requested, preferred, quiet, force, reachable)
  \/ \E to \in Target : InsertLog(to)
  \/ AddBulk
  \/ \E n \in 1..(MaxEvents - Len(events)), preferred \in SUBSET Channel, quiet, force \in BOOLEAN :
       SendBulk(n, preferred, quiet, force)

Worker(l) ==
  \/ Start(l) \/ Resolve(l) \/ WriteSent(l) \/ ScheduleReceipt(l) \/ Catch(l)
  \/ OnFailed(l)
  \/ \E ticket \in Ticket : Send(l, ticket)

EditPushTokens ==
  \E t \in Token :
    \/ SetPushToken(t) \/ RestorePushToken(t)
    \/ \E purge \in BOOLEAN : RemovePushToken(t, purge)

User ==
  \/ \E e \in DOMAIN events :
       MarkRead(e) \/ RestoreEvent(e) \/ \E purge \in BOOLEAN : RemoveEvent(e, purge)
  \/ EditPushTokens
  \/ \E t \in Token : DeviceDies(t)
  \/ \E new \in Templates : EditTemplate(new)

Receipt(l) == \E receipt \in ReceiptOutcome : CheckReceipt(l, receipt)

Next ==
  \/ Dispatch
  \/ \E l \in DOMAIN logs : Worker(l) \/ ReceiptRefused(l) \/ Receipt(l)
  \/ Crash
  \/ User

Spec == Init /\ [][Next]_vars

\* The queue's workers run; nothing makes a caller, a user or a fault act.
Fairness ==
  \A l \in 1..MaxLogs : WF_vars(l \in DOMAIN logs /\ Worker(l))

FairSpec == Spec /\ Fairness

-----------------------------------------------------------------------------
(* Properties *)

\* deriveEventStatus
InboxStatus(e) ==
  LET statuses == {logs[l].status : l \in {k \in DOMAIN logs : logs[k].event = e}}
  IN CASE statuses = {} -> "PENDING"
       [] statuses = {"SENT"} -> "SENT"
       [] statuses \subseteq {"FAILED", "SKIPPED"} -> "FAILED"
       [] "SENT" \in statuses -> "PARTIAL"
       [] OTHER -> "PENDING"

\* A row that says SENT was taken by a provider, whatever the crashes and retries
\* of its job; and without a fault no message is handed to a provider twice: a
\* retry follows only an attempt no provider took, also when the event is purged
\* under the job.
SentOnce ==
  \A l \in DOMAIN logs :
    /\ logs[l].status = "SENT" => accepted[l] > 0
    /\ faults = 0 => accepted[l] <= 1

\* Without a fault the inbox shows an event as pending only while a row of it has
\* an unfinished job, or when it never had a row.
PendingHasWork ==
  faults = 0 =>
    \A e \in DOMAIN events :
      LET rows == {l \in DOMAIN logs : logs[l].event = e} IN
      InboxStatus(e) = "PENDING" /\ events[e].state # "gone" /\ rows # {}
        => \E l \in rows : jobs[l].step \notin {"done", "failed"}

\* A row whose job the queue has is settled in the end, or a fault happened: a
\* failing provider, an edited template and a purged event do not keep it pending.
Settled(l) == logs[l].status \in {"SENT", "FAILED", "SKIPPED", "gone"}

QueuedSettles ==
  \A l \in 1..MaxLogs :
    (l \in DOMAIN logs /\ At(l, "waiting"))
      ~> (faults > 0 \/ (l \in DOMAIN logs /\ Settled(l)))
=============================================================================
