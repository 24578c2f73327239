# Citizen-Link: verification project

Citizen-Link reunites lost identity documents with their owners. Somebody
reports a *found* document, somebody else a *lost* one; images are read by an
extraction pipeline, cases are matched, a match is *claimed*, the claim is
reviewed and paid for, the document is handed to a station and from there to its
owner against one-time codes, and the finder is rewarded through a wallet that
is paid out by mobile money. The program is a NestJS server over PostgreSQL
(Prisma) with BullMQ queues; this directory holds TLA+ specifications of its
core, the TLC configurations that check them, and TLAPS proofs about them.

What makes this program hard is the same in every part: **every HTTP handler,
webhook and queue job reads rows, awaits, decides, and writes later.** No row is
locked, few operations use a transaction, and where there is one its checks were
usually made before it began. Several server processes and queue workers run the
same handlers side by side, and each can die between two statements. The modules
therefore treat a handler as a small program of its own: one action that takes
the snapshot and checks it, then one action per later statement or transaction.

## Contents

| file | what it is |
| --- | --- |
| `DocumentExchange.tla` | hand-over of one found document by one-time codes |
| `DocumentJourney.tla`, `SoleClaim.tla` | what a hand-over promises: the abstract journey of a document; the mapping to it, while no two claims are decided |
| `Timeline.tla` | what the parties are shown of a case, put together from the rows |
| `CustodyOperations.tla`, `SerialCustody.tla` | batch operations of station staff, custody of documents; what holds of them one after the other |
| `Wallet.tla`, `SerialWallet.tla`, `Account.tla` | a finder's wallet, withdrawals and the payout service; what holds while handlers have not overlapped; what a wallet promises |
| `InvoicePayment.tla` | a claim's invoice, payments through Mauzo, their callback queue |
| `Claims.tla` | claims on matches, decisions about them, editable reasons |
| `CaseIntake.tla` | a case from its report to its verification, beside the extraction pipeline |
| `Matching.tla`, `ExactMatch.tla` | how lost and found cases become matches; how alike two documents are |
| `Notifications.tla` | from a send to a settled row: log, queue, providers, receipts, tokens |
| `Access.tla` | roles, the copy of them decisions are made by, and the layers of a permission |
| `Templates.tla`, `Settings.tla`, `Files.tla`, `Addresses.tla` | templates and their versions; system and user settings; where files are; preferred addresses |
| `HumanIds.tla`, `Pages.tla` | numbers people know cases by; how lists are cut into pages |
| `*Proofs.tla` | theorems about `DocumentExchange`, `CustodyOperations`, `Wallet`, `InvoicePayment`, `Claims` |
| `BackgroundProofs.tla` | theorems about what runs by itself: `Notifications`, `CaseIntake`, `Matching` |
| `ContentAndAccessProofs.tla` | theorems about the four modules of `MCContent`, `Access` and `Pages` |
| `RowLemmas.tla` | lemmas on tables kept as sequences, used by all of them |
| `MC*.tla` | start states, histories, symmetry sets and operators the configurations use |
| `*.cfg` | one TLC configuration per run |
| `PROJECT.json` | components, runs, mutants, map to the source, hazards, findings, theorems |

## 1. Inventory

Paths are below `src/src/` unless they start with `prisma/` or `assets/`.

### 1.1 Parts, their state and their operations

| part | state it keeps | operations that change state | hard behaviour |
| --- | --- | --- | --- |
| **document-exchange** | `DocumentExchange`, `ExchangeVerification` (one-time codes); writes `FoundDocumentCase`, `LostDocumentCase`, `Disbursement`, `Wallet`, invoice items | schedule (in, out), change, issue code, verify code, courier confirmation, courier failure, cancel code, withdraw | multi-statement handlers without transactions; two current exchanges or codes; codes lapsing while used; payments and fees racing code issue |
| **document-custody** | `DocumentOperation`, its items and transitions; writes custody and station of found cases | create, update, add/remove/skip item, submit, approve, reject, cancel, execute | status overwritten by racing transitions; a batch executed on items read earlier; receipts racing collections |
| **wallet, disbursement, daraja** | `Wallet`, `WalletLedger`, `WalletWithdrawal`, `Disbursement` | reward, withdraw, payout call, callback, reversal | money and an external service: lost answers, repeated or early callbacks, crashes after the debit, overlapping withdrawals |
| **invoice, payment, mauzo** | `Invoice`, items, `Transaction` | create, add item, remove delivery fees, initiate payment, callback | stale totals, concurrent partial payments, callbacks before the row knows its request id |
| **claim** | `Claim`, its transitions | create, verify, reject, cancel, dispute, review of a dispute | unique claim per match, staff decisions racing the claimant's, invoice created once |
| **document-cases** | `FoundDocumentCase`, `LostDocumentCase`, transitions | report, edit, submit, verify, reject, remove, restore, resubmit and resolve extraction | edits while the pipeline writes the same rows; verification starts matching |
| **docai, extraction** | `AIExtraction`, its stages, document fields | webhook per stage, failure, apply fields | webhooks late, repeated, out of order |
| **matching** | `Match`, queue jobs | find candidates, persist, reject | repeated jobs, unique pairs, matches of cases closed meanwhile |
| **notifications, push-token** | `NotificationLog`, queue jobs, receipts, device tokens | dispatch, process, fail, receipt | durable log plus queue, retries of what was sent, receipts that remove tokens |
| **status-transitions** | transition log, editable reasons | record, seed, edit reasons | reasons other parts look up and cannot do without |
| **human-id** | a sequence per prefix and period | generate | concurrent generation, period roll-over |
| **roles, auth, staff-operation-scope, station-operation-types** | roles, permissions, grants, a cache of access lists | grant, revoke, set permissions | cached permissions that are stale |
| **templates, settings, address** | versioned templates, settings, addresses | edit, roll back, set preferred | one current version, one preferred address; scripts that write rows at every start of a container |
| **s3, ai, pdf, chat-bot, prompts, region, query-builder, stations, document-types, …** | none, or single rows | calls out, single-row edits | pure input and output, or one statement |

`PROJECT.json` lists every part with its sources, and why it is left out if it is.

### 1.2 How the parts interact

```
 report found ──> extraction (webhooks) ──> document case ──> matching (queue)
      │                                         │                 │
      ▼ schedules                               ▼ staff check     ▼
 INBOUND exchange ── code ──> case SUBMITTED ─> VERIFIED ──> match ──> claim
                                  │                                      │ verify
                     custody operations                                  ▼
                                                     invoice <── payment callback
                                                        │ PAID
                                                        ▼
                                  OUTBOUND exchange ── code ──> case COMPLETED
                                                        │            │
                                                        ▼            ▼
                                              disbursement ──> wallet ──> Daraja
```

The parts share database rows rather than messages: exchanges read the claim's
invoice and write the found case; custody operations read exchanges and write
the same found case; verifying a code credits the wallet in its transaction.
Only extraction, matching, payment callbacks and notifications go through queues
or webhooks.

### 1.3 What makes each part correct

- *Exchanges*: no case is handed in or out without a confirmed code of the right lane,
  and no document moves without one but by a batch operation; at most one exchange
  and one code are usable; no code before payment; the reward
  is paid once per hand-over; a verdict, a hand-over and a closed case are not
  taken back; every move of the case is logged.
- *Custody*: what needs approval is approved, as submitted; what is completed
  left nothing pending; a receipt counts collected documents only; every move of
  custody is on record.
- *Wallet*: the ledger explains the balance; a completed payout was paid and its
  debit stands; what is given back was taken; nothing is overdrawn.
- *Invoices and payments*: the balance mirrors total and payments; no payment is
  lost or counted twice; only collected money completes a transaction; a reported
  payment is counted in the end.
- *Claims*: at most one live claim per match; a decision follows the path the
  workflow allows; a claim is invoiced exactly when it has once been verified.
- *Intake*: a verified case rests on images that were read; images are taken again
  once; a case waits for one extraction; every known job is settled.
- *Matching*: two alike cases are matched whichever is searched first, both users
  are told, a rejection stands.
- *Notifications*: nothing is sent twice, nothing stays pending without a job.
- *Access*: what is decided by is what is stored; who passes was authorised.
- *Content*: no filed version lost, no deleted setting in use, no file lost, no address
  preferred that nobody asked for.

The hazards behind these, each at its line, are `hazards` in `PROJECT.json`.

## 2. How the project is laid out

| order | module | checked by | proved |
| --- | --- | --- | --- |
| 1 | `DocumentExchange`; `Timeline` reads it, `SoleClaim` maps it to `DocumentJourney` | `exchange` | ten theorems |
| 2 | `CustodyOperations`, `SerialCustody` | `custody` | seven |
| 3 | `Wallet`, refines `Account`; `SerialWallet` | `wallet` | seven |
| 4 | `InvoicePayment` | `payment_serial`, `payment_overlap` | five |
| 5 | `Claims`, with `HumanIds` | `claims` | four |
| 6 | `CaseIntake` | `intake` | four |
| 7 | `Matching`, with `ExactMatch` | `matching` | four |
| 8 | `Notifications` | `notify` | three |
| 9 | `Access`, with `Pages` | `access` | five |
| 10 | `Templates`, `Settings`, `Files`, `Addresses` | `content`, `preferences` | five |

*Composition.* The components meet in rows, so a module has what another part
does to its rows as environment steps: `DocumentExchange` has the review of a
claim, the payment of its invoice and the batch operations on its document as single
steps (`VerifyClaim`, `RejectClaim`, `PayInvoice`, `ExecuteOperation`) that `Claims`,
`InvoicePayment` and `CustodyOperations` have in full, `CustodyOperations` has the exchanges
(`OpenExchange`, `CloseExchange`, `CompleteExchange`, `ReviewCase`),
`InvoicePayment` the fees. `Timeline` is composed with `DocumentExchange` proper.
`MCContent` holds four modules that share no state; a behaviour is of one of them.
`MCCaseIntake`, `MCMatching` and `MCAccess` are instances of their modules under a prefix
(`I!`, `M!`, `R!`), with names for constants and variables that no other module has, so
that one module of proofs can extend several of them.

*Abstractions.* `DocumentJourney` and `Account` say what a hand-over and a wallet
promise without handlers, codes, ledgers or an unreliable service; the detailed
modules are shown to implement them (`FollowsJourney`, `IsAccount`, section 3).

*Pure algorithms.* `ExactMatch`, `HumanIds` and `Pages` are operators with what is
claimed of them in named ASSUMEs over small inputs, which TLC evaluates with every
run of the module that extends them (`MCMatching`, `MCClaims`, `MCAccess`).

## 3. The modules

### 3.1 Reading a module

- A table is a sequence of rows in creation order, a row is a record, `None` is
  null. Rows are never deleted in these parts (items of an operation are, and
  become `ABSENT`).
- A handler in flight is a slot `req[r]`: the statement it will execute next and
  what it has read. `Load` or an equivalent action starts it; its guards are the
  handler's checks and early returns. A handler that would answer with an error
  before it wrote anything has no action: it changes nothing.
- A Prisma `$transaction` is one action, and so is a single statement. PostgreSQL
  runs these transactions at READ COMMITTED without row locks, which is weaker
  still: statements of two transactions can interleave. That is modelled only in
  `Addresses`, whose property is about it; elsewhere what is refuted stays refuted,
  and what holds holds for transactions that do not interleave inside.
- `Die(r)` ends a handler between two statements: the process crashes, or the
  next statement raises. Nothing is cleaned up, as in the code.
- `TypeOK` says which rows a table may hold. It is checked as part of the proofs
  of the modules that have them, and documents the state of the others.
- A property that is claimed of handlers that run one after the other is stated with
  what says that they did, so that it can be proved and one run covers both: a variable
  of `SerialCustody` (`alone`), a history variable of `SerialWallet` (`overlapped`) and
  of `Claims` (`overlaps`), or a constant (`Serial` in `InvoicePayment`, the only slot in
  `Req` of `DocumentExchange`).
- `Mut…` definitions are the mutants of `PROJECT.json`: plausible bugs the
  properties must catch. Nothing refers to them.

### 3.2 DocumentExchange

One found document, its inbound lane and one outbound lane per claim.

| state | code |
| --- | --- |
| `found` | `FoundDocumentCase.status`, `custodyStatus`, `currentStationId` |
| `caseLog` | its `StatusTransition` rows |
| `lost`, `claim` | status of the lost case and claim |
| `invoice` | the claim's invoice: its status, the delivery fees on it, how many of them it paid |
| `exchanges`, `verifications` | `DocumentExchange`, `ExchangeVerification` |
| `disbursed` | `Disbursement` rows |
| `operated` | nothing: observed, whether a batch operation has moved the document since a code did |

| actions | code |
| --- | --- |
| `ScheduleInbound`, `CreateExchange` | `document-exchange.inbound.service` scheduleExchange |
| `SetSubmission`, `UpdateSubmission` | `document-cases.service` updateSubmissionPreference |
| `ScheduleOutbound`, `CreateExchange`, `AddDeliveryFee` | `outbound.service` scheduleExchange: create, then the fee outside the transaction |
| `UpdateOutbound`, `UpdateExchange` | `outbound.service` updateExchange |
| `IssueCode`, `ExpireOldCodes`, `CreateCode`, `MarkInProgress` | `code-issue.service`: three statements, no transaction |
| `VerifyCode` → `ExpireCode`, `CountAttempt` or `ConfirmExchange` | `code-verify.service` |
| `EnterDeliveryCode`, `ConfirmDelivery`; `StartFailDelivery`, `FailDelivery` | `delivery.service` |
| `StartCancelCode`, `CancelCode`; `StartWithdraw`, `Withdraw` | `code-cancel.service`, `withdraw.service` |
| `StartReviewCase`, `ReviewCase` | verifyFoundCase and rejectFoundDocumentCase |
| `VerifyClaim`, `RejectClaim`, `PayInvoice`, `CodeLapses` | the environment: claim review, payment callback, time |
| `ExecuteOperation` | the environment: `document-custody-transitions.service` execute, with the rows of `CUSTODY_TRANSITION` |

Delivery fees are counted and all the same; a code is its row. Whether the entered code is
right is a choice of `VerifyCode`: wrong code, right code, or an unusable one.

A batch operation (`Operation` names the types that are executed) writes the custody and
the station that the exchanges write, at any time and from any custody: HANDOVER hands
the document over without a code, RETURN and TRANSFER_IN take it into custody,
TRANSFER_OUT sends it off, DISPOSAL destroys it. It asks for no exchange, and no exchange
asks for it: only the completion of one writes the custody again. What operations are
submitted, approved and executed is `CustodyOperations`; here any may come next.

`DocumentJourney` has four variables: `place`, where the document is, `stage`, how far its
case has come, `closed`, whose lost cases are closed, and `rewards`; and four actions,
`HandIn`, `Check`, `HandOver` and `Operate`. The mapping in `SoleClaim` reads them off
`found`, `lost` and `disbursed`. `FollowsJourney` says every statement of every handler,
every place it may die at and every batch operation is one of these four actions or
changes none of the four variables: the case moves with its lost case and the reward, and
an operation moves the document and none of these, and never back to the finder. With two
verified claims that is not so (section 6), hence a behaviour of `RSpec` has `rivals` or is
judged by the journey. In `MCDocumentExchange` a behaviour has couriers, or rivals, or
replaced codes, or batch operations (`batches`) around one exchange of each lane: each has
the room it needs (`Room`) within the bounds.

`Timeline` translates `document-cases.timeline.service`: which events a reader is
shown as done, from the case's log, the log of the followed claim and the newest
exchange of that claim. `ClaimOrders` are the orders in which the claims may have
been made, since the newest one decides who is followed. `TimelineTellsTruth`
relates what is shown to the rows, and names the ways in which they part: another
claimant has the document, a newer exchange hides the one that was completed, and a batch
operation has no event, so that what is shown says where the document is only until one
has moved it.

### 3.3 CustodyOperations

Operations with their items over a set of documents. `Requires` and
`HighPrivilege` are the editable configuration of operation types. The eight
types the repository seeds and any type an administrator adds are covered by
`Listed` and `Applied` (the table `CUSTODY_TRANSITION`).

Each `StartX` is the read and the checks of handler X, the action `X` its last
statement or transaction (`StartSubmit`/`Submit`, …). Execution is in three parts
for receipts: read, `CountExchanges` outside the transaction, then `Execute`,
which works on the items of the row that was read. `MCCustodyOperations` gives
the seeded requirements, with the notes lifted off `DISPOSAL`, because create
refuses every type that requires notes (section 6).

### 3.4 Wallet

One wallet. `payouts` is Daraja's side: `accepted` when it took the request,
`paid` or `failed` when settled, with the callbacks it has sent and those on
their way. `Faults` says what may go wrong: `crash` (a handler dies), `lostAnswer`
(Daraja accepted but its answer timed out), `lostUpdate` (the update that stores
the conversation id raises). `Reward` stands for verifyCode's transaction, which
reads and credits the wallet in one step. `StartWithdraw`, `Debit`, `CallDaraja`,
`SaveConversation`/`LoseConversation`, `Reverse` are withdraw; `StartCallback`,
`CompletePayout`, `FailPayout` are handleWithdrawalCallback. A callback is matched
by the conversation id; an unknown one is dropped.

`Account` has the funds and the withdrawals, each INITIATED, COMPLETED or FAILED,
and says that a completed one is final and gives nothing back. Overlapping requests
may take more than there is and a failure reported twice is given back twice,
because the code does both; `IsAccount` holds for any overlap and any fault. What is
claimed of serial handlers is `SerialLedger`: `SerialWallet` remembers in `overlapped`
whether a handler has moved, or the balance changed, under another one in flight.

### 3.5 InvoicePayment

One invoice, with the payments made towards it.

| state | code |
| --- | --- |
| `invoice` | `Invoice`: `totalAmount`, `amountPaid`, `balanceDue`, `status`, and how many delivery items it has |
| `transactions` | `Transaction` rows; `known` says that `checkoutRequestId` is stored |
| `intents` | Mauzo's payment intent of each transaction: none, open, succeeded, failed |
| `jobs` | the queue `payment-callbacks`; a job taken up holds the invoice as its handler read it |
| `req` | requests in flight |

| actions | code |
| --- | --- |
| `StartPayment`, `CreateTransaction`, `CallMauzo`, `SaveIntent`/`LoseIntent`, `FailTransaction` | `transaction.service` initiatePayment, `mauzo.service` initiatePayment |
| `StartAddFee`, `CreateItem`, `UpdateTotals` | `invoice.service` addItem as scheduleExchange calls it: three statements, no transaction |
| `Reschedule` | removeDeliveryFees and addItem as updateExchange calls them: one transaction |
| `Settle`, `Report` | Mauzo settles an intent; its webhook (`mauzo.webhook.service`) enqueues a job |
| `StartJob`, `MarkFailed`, `Complete`, `Acknowledge` | `payment-callback.processor`, handlePaymentCallback |
| `Interrupt` | the job raises, before or after its transaction committed, and is tried again, three times in all (`queue.module`) |

The webhook's schema (`mauzo.dto.ts`) admits no status of an intent but
SUCCEEDED: a failed payment is refused at the door and never reported. An event
other than `payment.succeeded` reaches the queue only if it comes late, about an
intent that is paid by then, and counts there as a failure; the constant
`OtherEvents` says whether that happens. A process that stalls hands its job back to BullMQ
without counting a try; `Interrupt` counts it, so it allows no fewer failures
than BullMQ within `MaxInterrupts`. Attempts and concurrency are constants; the
code has 3 and 5.

### 3.6 Claims

Two claims on one match, the match, both logs, and the reasons an administrator may
create, change and purge beside the installed ones. `Operation` is the table of the
seven moves of `claim.transitions.service`: what each accepts and what it writes.
`StartMove` (the reason), `ReadClaim` (the claim) and `CommitMove` (the transaction,
which writes without asking again) are all seven. `StartCreate`, `CheckNoOtherClaim`,
`InsertClaim`, `RecordAnswers`, `AttachFiles`, `ClaimMatch` are the statements of
create, of which only the last is a transaction; `Fail` ends a handler anywhere.
`StartRejectMatch` and `RejectMatch` are `matching.transitions.service`,
`EditReason` the administrator.

`HumanIds` has how a case's or claim's number is put together and taken apart.
`NumbersAreSound` and `DecodeRefuses` say that a number is read back as what it was
made of, also past its padding, that two of one prefix differ, and what is refused.

### 3.7 CaseIntake

One case: `kind` and `status` of it, its single field, its `images`, its
`extractions`, and docai's side in `jobs` (`docaiJobs` in `MCCaseIntake`) with the webhooks
not yet acknowledged in `pending`.

| actions | code |
| --- | --- |
| `ReportFound`, `ReportLostScanned`, `ReportManual`, `EditDocument` | `document-cases.create.service`, `case-documents.service` |
| `Answer`, `Stamp`, `LoseCall` | the asynchronous call of docai and the storing of its job id |
| `Docai` | docai reads and structures, or cannot; external |
| `VisionSuccess`; `StartSuccess`, `ApplyFields`, `MoveImages`, `Complete`; `StartFailed`, `RecordFailure`; `Drop` | `docai-webhook.service`; what arrives before the id is stored is dropped, or raises |
| `StartResubmit`, `Resubmit`, `StartResolve`, `Resolve` | the finder takes images again, the staff decide |
| `StartSubmit`, `StartHandIn`, `StartVerify`, `StartReject`, `CommitStatus` | the workflow service and the hand-in |

`disturbed` counts what a property excludes by name: a webhook handled twice at
once, one that is late, handlers that overlap, a death.

### 3.8 Matching and ExactMatch

Each document has a pipeline in `pipe`: `Open` (submission of a lost case,
verification of a found one) queues an embedding (`QueueEmbedding`, `ReadToEmbed`,
`StoreVector`), whose completed event queues a search (`QueueMatching`,
`ReadToSearch`, `Search`), which writes one match per survivor (`LookForRows`,
`UpsertMatch`) and tells both users (`Notify`). `Retry` and `EmbedFails` are BullMQ's
attempts, `QueueRefuses` a refused addition, `Crash` the loss of a completed event in
memory. `EditText`, `RejectMatch`, `RemoveMatch`, `SwitchModel` (another dimension of
vectors) are what people do meanwhile.

Two texts are *alike* in `Matching` when they are equal and not empty. `ExactMatch`
justifies that this is a symmetric relation to choose (`ScoreIsFair`): it has the
comparison of fields character by character, the weights and thresholds, the masks
and the public search. `ConfusionIsDistance` and `ThresholdsAreSound` say what the
scores come to; section 6 lists where the comments beside them say otherwise.

### 3.9 Notifications

One user with an e-mail address and devices. `Enqueue`, `InsertLog`, `AddBulk` are a
dispatch, `SendBulk` one to several events; `Start`, `Resolve`, `Send`, `WriteSent`,
`ScheduleReceipt`, `Catch`, `OnFailed` a worker's attempt, `ReceiptRefused` the refused
addition of a receipt job, `CheckReceipt` the receipt. `Crash` gives a worker's
unfinished job to another with the same count of attempts. `MarkRead`, `RemoveEvent`,
`RestoreEvent`, `SetPushToken`, `RemovePushToken`, `RestorePushToken`, `DeviceDies` and
`EditTemplate` are the user, their devices and the author. Which channels a template
offers is a member of `Templates`: `MCTemplates` has complete, deleted and partial ones.

### 3.10 Access and Pages

`roles` and `catalog` are rows, `live` is the object in memory the authentication
library decides by; `SyncRoleToMemory` is a statement of its own after the write, and
`Restart` is the start of a container: the seed script (`SeedRoles`, with the roles and
permissions `Installs`) gives the roles it ships their permissions back, all or some of
them, since it may stop half-way, and the process builds the object from the rows
(`LoadForStartup`). A custody operation is `StartWork` and then one action per layer that
`document-custody-permission.service` and the guards read: `CheckStation`, `CheckAssigned`,
`CheckAssignedGrant`, `CheckType`, `CheckCeiling`, `CheckBypass`, `CheckGrant`. An operation
without a station passes after the guards and, if it is an edit, the check of the caller's
active station: its type, the ceiling and the grants are not asked for
(`document-custody-permission.service.ts:34`, "Skips silently when no station applies"),
and `PassedWasAuthorised` says of it only what was. The requests are those that call
`assertPermissionForOperation`: create, the edits of an operation and its items, submit,
execute and cancel; approve and reject do not. Stations, types, ceilings and grants are created, voided,
purged and restored around them. In `MCAccess` a behaviour is either of administrators
or of one request with everything it depends on changing (`situation`), in the slots
`worker` and `editor`; `AtFirst` and `Uninstalled` say what the second begins with, `Given`
and `Adjusted` which slugs users are given in it and which roles are edited; `tainted` says that since the
start of the process handlers overlapped, something was renamed, or a deleted role was
given permissions, `given` and `taken` what changed since the request began.

`Pages` is the pagination every list uses. `PagesTile` (following the links shows every
row once) and `PagesAgree` (the page an answer says it is is that of its rows) are
evaluated with the run `access`, and `Tile` and `Agree`, what they say of one list, are proved
of every list.

### 3.11 Templates, Settings, Files, Addresses

- `Templates`: `StartUpdate` or `StartRollback` with `ReadSnapshot`, `FindActive`, which
  reads the template, and `Store`, the transaction that files the old content and
  writes the new; `Create`, `Void`, `Purge`, `Restore` beside them, and `Die`. That
  `(templateId, version)` is unique is the guard `Unfiled`. `SeedTemplate` is what the
  start of a container does to each template it ships (`Seed`): its content is written
  over what is stored, nothing is filed, and its version is 1 again. Handlers of other
  processes are under way meanwhile.
- `Settings`: `StartGet`, `FindRow`, `FillCache` are a read; `SetSystem` writes the row
  alone; `Uncache`, `DeleteRows` delete a key or prefix; `Restart` empties the cache, and
  the seed script makes rows that are missing. `own` has a user's notification
  preferences as stored text, `Coerced` and `Parses` what becomes of it,
  `GetAllowedChannels` who is reached.
- `Files`: `tmp`, `stored` and `blurred` are the buckets, `images` and `attached` the
  rows. A move is `Blur`, `CopyFile`, `DeleteFile` and then the row (`UpdateImage`,
  `Attach`); `Abandon` and `Crash` stop it anywhere.
- `Addresses`: here the statements inside a transaction are apart: `StartSave` looks up
  the others that are preferred, `CommitSave` writes. `latest` is observed: what the
  last save, and all that was under way with it or restored since, may leave preferred.

## 4. The runs

`CHECK_DEADLOCK` is off everywhere: a finished document needs no further step, and
the bounds stop the rest. The pure algorithms' ASSUMEs are evaluated with the runs
`matching`, `claims` and `access`.

| run | question | bounds | what holds |
| --- | --- | --- | --- |
| `exchange` | is one document's whole journey consistent, whatever dies on the way, and does it implement the abstract journey? | 2 claims, 3 exchanges, 3 codes, 1 attempt per code, 2 courier attempts; handlers one after the other; rivals, or batch operations of 4 types around 2 exchanges, or couriers, or replaced codes | moves by code but for batch operations, log tracks status, codes are sound, reward per hand-over, timeline tells the truth, follows the journey |
| `custody` | what survives racing approvals, cancellations, executions and collections? | 2 handlers; one after the other on 2 documents and 3 types, or overlapping on 1 document with receipts and disposals; 1 operation, 3 log rows | approved before execution, received were collected, custody moves are recorded; serially, completed leaves nothing pending and what was submitted stands |
| `wallet` | does a wallet implement an account under every fault and overlap? | 2 handlers, amounts 1 and 2, 2 withdrawals, 4 ledger rows, 2 reports | payouts settle, every change is ledgered, is an account; serially, never overdrawn, the ledger chains, restored once |
| `payment_serial` | do invoice, transactions and Mauzo agree if handlers do not overlap? | 2 payments towards 2 + 1 shillings, 1 fee at once, 2 jobs, 1 that raises, every fault, other events | completed was received, paid is received, balance mirrors |
| `payment_overlap` | what do jobs side by side keep, and does a payment count in the end? | 2 workers, 2 payments, 3 jobs, 2 that raise, beside a request, success only | never overcounted, success counts (liveness) |
| `claims` | who is invoiced, and what does a match come to? | 1 match, 2 claims, 2 handlers, 1 overlap, 5 moves, 1 editable reason | invoiced when verified (any overlap); without overlap the log is a path and a match has one outcome |
| `intake` | what does a verified case rest on when webhooks are late, repeated or lost? | 2 uploads, 2 handlers, 1 disturbance | verified was extracted, self-service once, one extraction at a time, stamped is settled (liveness) |
| `matching` | are alike cases matched whichever side searches first? | 2 lost cases, 1 found one, 2 owners, 1 edit or fault, 2 attempts | no missed match, match is told, rejection stands, alike are matched (liveness) |
| `notify` | what do a row, the inbox and the queue say of each other? | 2 sends, 2 rows, 1 token, 2 attempts, 1 edit, 1 fault | sent once, pending has work, queued settles (liveness) |
| `access` | is what is decided by what is stored, and who passes authorised? | 3 roles, 3 permissions, 3 edits; or 1 user, type and station, or none, with one request and one edit in flight, roles left with nothing, with the operations or with all; the seed script gives back some or all of what it installs | roles in effect, passed was authorised |
| `content` | do overlapping edits, reads, moves and saves lose anything? | 1 template, 3 versions, 2 handlers, containers that start at any time; 3 setting keys, 1 reader, 1 removal at a time; 2 files of 1 case and 1 claim, 2 moves; 2 addresses, 2 savers | cache is fresh, nothing lost, preferred is latest, history kept |
| `preferences` | is a channel that was turned off left alone? | as `content` | refuted |

*Why the bounds are enough to be interesting.* Three exchanges of one document
are an inbound one, an outbound one that is withdrawn, fails or is cancelled, and
a second outbound one; or the inbound one and one of each of two claims. Three
codes let a code lapse or be replaced and still leave one for each hand-over. Two
delivery fees on one invoice are one per outbound exchange. With one attempt per code
the limit is met at once; a higher limit adds counting, not behaviour. Two courier
attempts let the limit be both met and not met. Two documents in a batch are what a
partial receipt needs: one collected, one not. Three log rows hold a submission, an
approval and an execution, a rejection, and the race of any two transitions. Two
handlers are the smallest race; what is claimed of handlers, overlapping or not, is proved for any number of
them but for the liveness (section 5.13). Four ledger rows are two rewards, or one
reward, a debit and two reversals. Amounts 1 and 2 distinguish what was taken from what
was given back. A base of 2 can be paid at once or in two parts, or twice; three jobs
are two reports of one payment beside one of the other, or a triple report. `MaxDrift`
bounds how far crashed fees, whose items the total does not know, can pull the total
below `Base` when they are removed. Two interrupts let a job raise twice and succeed at
its third try. Five moves of claims are rejection, dispute, review, a second verdict
and one more. Two uploads are a failure and its resubmission, and a second failure.
Two lost cases make a search that finds several candidates, one of them of the finder's
own; the found case may come first, last or between. Two rows of notifications are two
channels of one event or one of each of two. Three edits of roles are an edit, a
removal and a return. Three setting keys are a prefix, a key below it and one whose
text only starts like it. One disturbance shows each fault by itself; two of them were
not checked.

*Modes.* Some runs hold several kinds of behaviour, told apart by a variable that
never changes: `rivals` and `batches` in `exchange`, `alone` in `custody`, `situation` in `access`
("roles", "work") and `mode` in `content` ("templates", "system", "own", "files", "addresses"). They share
a run because they share the code and nobody needs the product of them. Other
variables observe: `operated` in `exchange`, `overlapped` in `wallet`, `overlaps` in
`claims`, `tainted`, `given` and `taken` in `access`, `outdated` and `overlapped` in `content`; a property names them where
what it claims depends on them. `wallet` checks `SSpec` of `SerialWallet`, which is `Wallet`
with that history; the refinement is proved of `Wallet`'s own `Spec`.

*Properties for serial handlers.* Some properties hold only if handlers do not
overlap: the code takes no precaution against overlap, and e.g. two simultaneous
issueCode calls do leave two usable codes. They are stated for handlers one after the
other, where what is at stake is crashes, order of calls, and lapsing codes; section 6
lists which break under overlap and how.

*Mutants.* Every property of a passing run has a mutant of a mapped definition
that makes TLC refute it in the same run.

*Fairness* is assumed only where a queue or a worker runs by itself; nothing makes a
caller, a customer, a provider's report or a fault happen.

- `InvoicePayment`: every job's `Work` is weakly fair, because BullMQ's worker takes up a
  waiting job as long as it has a free place and runs a handler to its end or to its
  failure. With at most two jobs that raise and three attempts a job is never given up,
  which is what `SuccessCounts` says it needs.
- `CaseIntake`: docai works on a job it accepted (weak); it repeats a webhook until it is
  acknowledged, so `Deliver` is strongly fair, since a free handler comes and goes; what a
  handler has begun goes on or dies (weak).
- `Matching`: `Work(d)` of each pipeline is weakly fair: workers of both queues run.
- `Notifications`: `Worker(l)` is weakly fair for each row; the caller who adds the job
  is not, so a dispatch that dies leaves its rows behind.

## 5. What is proved

All proofs are for every set of claims, slots, amounts, documents, templates, files,
tokens, addresses, uploads, cases, roles, users or stations, and every value of the bounds.
The only assumptions are the modules' ASSUMEs about their constants (`ExchangeAssumption`,
`CustodyAssumption`, `WalletAssumption`, `InvoiceAssumption`, `ClaimsAssumption`,
`NotificationsAssumption`, `TemplatesAssumption`, `ContentAssumption`; `IntakeAssumption`,
`MatchingAssumption` and `AccessAssumption` in the MC modules, which say `ConstantsOK` of
their instance): limits are naturals, `None` is no claim or station, amounts are positive, a
user has finitely many push tokens, a case is no claim and a lost case no found one, a
document without fields has no text to be alike by, names of installed roles are unique, the
two slots of `MCAccess` are two.
The proofs follow the modules' bounds in the guards but do not depend on their values.

What is false under overlap is proved without it, and each theorem says in its statement
what that means. Its hypothesis is one of

| hypothesis | module | says |
| --- | --- | --- |
| `OneAtATime` | `DocumentExchange` | `Req` has one slot; it may die anywhere and start again |
| `alone` | `SerialCustody` | a handler steps only while the others are idle |
| `~overlapped` | `SerialWallet` | no handler has moved, and no reward has come in, under another one in flight |
| `Serial` | `InvoicePayment` | no request or job starts while another is under way |
| `~OtherEvents` | `InvoicePayment` | Mauzo reports nothing but success (handlers overlap freely) |
| `overlaps = 0` | `Claims` | no handler has begun while another was in flight |
| `disturbed.overlap`, `.late`, `.repeated` | `CaseIntake` | how often a handler of the caller overlapped another, a vision.success came late, an outcome came twice |
| `edits = 0`, `faults = 0` | `Matching` | no text, model or row was edited; no completed event or job was lost |
| `~tainted` | `MCAccess` | no edits of roles overlapped, nothing was renamed, no deleted role edited since the start |
| `~given`, `~taken` | `MCAccess` | while the request was under way no right was given, or none taken away |

The runs check each of them on behaviours of just that kind, so none is vacuous.

### 5.1 DocumentExchangeProofs

The parts of `MovesByCode` and `LogTracksStatus` are not inductive: they say nothing
about what a handler in flight has read and is about to write. The invariant that
carries every proof is `RowsOK`:

- the types;
- every code's exchange exists;
- `SnapshotOK` of every slot: the exchange and code a handler holds exist, the
  code belongs to the exchange and the exchange to the handler's lane.

It survives the steps of *other* handlers because rows are never removed, never
change lane, and a confirmation is never lost (`RowsKept`). Upon it:

| theorem | argument |
| --- | --- |
| `TypeCorrect` | `RowsOK` |
| `LogIsComplete` | only `ReviewCase` and the completions move the case (`WorldChanges`), and each appends the row |
| `NoHandoverWithoutCode` | no case is completed, no finder rewarded and no lost case closed without a confirmed code, and only a batch operation hands a document over without: a completion confirms a code of its own lane (`CompletionConfirms`), confirmations stay (`ConfirmedStays`), and an operation writes custody and station alone |
| `CodesArePaidFor` | strengthened with the slots between the check and the insert: their invoice is paid. A slot gets there only by the check (`HasReason`), and nothing takes PAID back (`InvoicesStayPaid`) |
| `CollectionStartsEverything` | no case leaves its draft without a confirmed inbound code, nor a document its finder but by a batch operation: strengthened to every trace that the case has left its draft, including handlers about to leave one (`Moved`): the first trace is left by confirming an inbound code (`FirstMove`) |
| `EverythingMovesByCode` | the three before it together: the property the run checks |

What `MovesByCode` says of custody it says `~operated`: since the last batch operation, if
there was one, a code has moved the document, or there was none at all. What it says of the
case, the reward and the lost case holds whatever operations do.

Four theorems assume `OneAtATime`. They rest on one invariant,
`SerialInv == RowsOK /\ HandlersRest /\ SerialRows /\ SerialCase`, which TLC has checked
before.

- `HandlersRest` is what one handler keeps of what it checked, up to its last statement:
  the lane it creates an exchange in has no active one, the code it is about to confirm
  or cancel is still pending, and between `ExpireOldCodes` and `CreateCode` no code of its
  exchange is. This is what a second handler destroys.
- `SerialRows` is about exchanges and codes: one active exchange of a lane, one live code,
  and a code confirmed exactly with its exchange.
- `SerialCase` is about the case: status and log agree, and custody with them as far as no
  batch operation has moved the document (`CaseAgrees`); a draft has no claim decided and a
  claim no exchange before it is (`StagesAgree`); a lost case is closed exactly by a
  completed exchange of its claim, and the found case by one of some claim
  (`ClosedByHandover`). The last two do not mention custody, which is why an operation
  disturbs neither.

Every step is one of four kinds, each with a lemma: it settles rows and nothing else
(`Settles`), adds a row, completes an exchange, or reviews the case; a batch operation is a step beside
them that leaves rows and handlers alone.

| theorem | argument |
| --- | --- |
| `SerialCodesAreSound` | `SerialRows` |
| `SerialRewardPerHandover` | what was paid for a claim is counted against the set of its exchanges that staff completed (`StaffHandovers`); only `ConfirmExchange` adds to both |
| `SerialFollowsJourney` | the refinement `RSpec => FollowsJourney`: without rivals a completion of a claim is `DocumentJourney`'s hand-over, a confirmed inbound code its receipt, a review its verdict, a batch operation its `Operate`, and every other step a stutter; `SerialCase` gives the guards |
| `SerialTimelineTellsTruth` | a state lemma (`ShownIsSo`): `SerialCase` says of the rows what the timeline derives from them |

### 5.2 CustodyProofs

`IInv` is the types, `ReceivedWereCollected`, and two parts about what the races turn on.

- `OpsAreSound`: the log of an operation ends at its status; an APPROVED row is written
  by approvals only; and in a log that needs approval each COMPLETED row has the
  approval *before* it. A racing cancellation or rejection appends behind it and takes
  nothing back.
- `SlotsAreSound`: a handler holds an operation that is there, of the type it read, and
  one that is going to execute a type that needs approval has an approval in the log.
  It got there by reading APPROVED, and by the first part that status stands for the row;
  other handlers only append (`MovedIsSound`), so the row stays although the status may
  not.

`NothingUnapproved`, `LogIsComplete` and `TypeCorrect` follow. `NothingUncollected` needs
in addition that a document never returns to its draft (`DocumentsMove`, over the
environment) and that a receipt settles what it finds in its draft as skipped
(`SettledIsItem`).

`MovesAreRecorded` is the action property `CustodyMovesRecorded`, for any overlap: only
`Execute` moves the custody of a document whose status stays, and it writes the item that
tells it in the same transaction.

`SerialIsDone` and `SerialContentIsKept` are about handlers one after the other, with
crashes and exchanges in between. `SerialInv` adds to `IInv` that while `alone` at most one
handler is in flight and the row it holds is the operation as it is (`RowIsFresh`), so what
it read (no item pending, the status DRAFT or APPROVED) is so when it writes. `MayBecome`
says what the last statement may make of an operation.

### 5.3 WalletProofs

The invariant `IInv` says who may still touch a withdrawal.

- `HandlersOK`: before the conversation id is stored only the one handler that
  requested the withdrawal may touch it (`OnePayer`), the withdrawal is INITIATED
  and unknown to callbacks; afterwards only callbacks touch it, and a callback in
  flight agrees with what Daraja has done. A completed withdrawal is known and
  paid, a failed one that is known was reported as failed.
- `LedgerOK`: every withdrawal has exactly one debit row, of its amount; every
  reversal row belongs to a FAILED withdrawal, has its amount and comes later.

This is why a lost answer is harmless for `CompletedIsPaid`: the handler that
reverses has never stored the id, so no callback can ever find the withdrawal.
`LedgerKept`, `LedgerCredit` and `LedgerDebit` carry `LedgerOK` over the three
kinds of step. The theorems are `TypeCorrect`, `CompletedWasPaid`,
`OnlyTakenIsRestored`, both together as `PayoutsAreSettled`, and `ChangesAreLedgered` (an
action property, from the same invariant).

`ImplementsAccount` is the refinement `Spec => IsAccount`, for any overlap and any fault.
`Debit`, `CompletePayout`, `Reverse`/`FailPayout` and `Reward` are `Account`'s operations and
the rest stutters. The code's updates do not ask for the status they replace; that a
completed withdrawal nevertheless stays so is `IInv`: the handler that reverses holds one
that is unknown, and a callback of failure one whose payout failed.

`SerialIsSound` is `SerialLedger`. `SerialInv` adds `Counts` (a report is on its way only of
those sent) and, as long as nothing has overlapped, `Serial`: one busy handler
(`SoleBusy`), what a withdrawal was checked against is still the balance (`DebitSound`),
and a report sent once finds its withdrawal INITIATED and has been taken off the way by
whoever handles it (`ReportsOnce`). With the last, a failure reported once is given back
once (`RestoredOnce`).

### 5.4 InvoicePaymentProofs

`CompletedWasReceived` says nothing of handlers in flight; the invariant `IInv`
adds who may touch a transaction and what a job may rely on.

- `SlotOK`, `OnePayer`: a transaction on its way to Mauzo exists and is its
  request's alone, and its intent is not yet opened before the call. So no other
  request opens, saves or fails it.
- `JobOK`: a job's transaction exists; a job of success reports an intent that
  succeeded, which stays so; a job about to complete has found a known
  transaction, which stays known (`Kept`).

`TypeCorrect` and `OnlyReceivedIsCompleted` follow for any overlap.
`BalanceStaysRight` assumes `Serial` and strengthens `BalanceMirrors` by `Alone`
(at most one handler is between two of its steps, because none starts beside
another) and `Fresh` (what it has read of the invoice is what the invoice still
says). It shows that a crash between a fee's item and its total, which leaves an
item nobody is billed for, does not disturb the balance.

Two theorems are about the sum over the transactions (`Received`).

- `PaidStaysReceived` (`Serial`): nobody completes a transaction twice, because what a job
  found not completed still is not (`ReadStands`), and nobody fails or opens one that a
  callback has found (`PayersUnknown`).
- `OverlapNeverOvercounts` (`~OtherEvents`, any overlap): what a job has read as paid *leaves
  out its own payment*, even if another job of the same payment has completed it meanwhile
  (`NothingTwice`). So adding to a stale amount may lose a payment but never counts one
  twice. A late event of another kind could, which is why it is excluded (section 6).

A recursive sum cannot be reasoned about by the library's induction theorems here (they
take an operator as a parameter). The two facts that are needed, that a sum stays if no
amount changes and moves by d if one amount does, are proved from the least index at which
they would fail (`Sums`, `DifferAt`): a set of naturals that is not empty has a least one.

### 5.5 ClaimsProofs

`InvoicedExactlyWhenVerified`: for any overlap, a claim has its invoice exactly when its
log has a row to VERIFIED. `IInv` adds that the log is about claims that are there
(`LogIsOfClaims`) and that a handler's claim is (`SlotsAreSound`); the invoice and the row
are written by one transaction, of a claim whose number a new claim cannot take.
`TypeCorrect` follows too.

`ClaimsFollowTheirRows` and `MatchesAreDecidedOnce` hold as long as no handler has begun while
another was in flight. `SerialInv == IInv /\ (overlaps = 0 => Serial)`, where `Serial` says that

- there is one handler and what it has read is still so (`SoleHandler`, `SlotsStillSo`): the
  status of the claim it moves, that the other claims on the match are cancelled, that the
  match is undecided;
- all claims on a match but the newest are cancelled (`OlderAreCancelled`);
- each row of the log is a move of the table of operations and starts where the rows of
  its claim before it ended, and the last one ends at the claim's status (`RowsAreMoves`,
  `RowsChain`); that a review comes after a rejection and a dispute follows by going back
  along the chain;
- a match has a row exactly when it is decided, and one (`DecidedOnce`).

### 5.6 Notifications (BackgroundProofs)

For any overlap of dispatch, workers, receipts, user and crashes. What the run's
properties say relates two tables and an observed count, so the invariant goes row by row:
`RowsAreTold` says of a row, its job and how often a provider took its message

- `Told`, always: SENT only of what was taken; a job between the provider's answer and the
  row's update has been taken; one that was never handed over has not;
- `Calm`, without a fault: taken at most once, and a job that can try again has not been
  taken *or its row is purged* (then the retry fails at the row, before it sends); a job
  that has ended has settled its row.

`DispatchIsNew` (the rows of a send have no jobs before it hands them over) is what keeps
`AddBulk` from starting a job again, `RowsHaveEvents` what makes a purge of the event a
purge of its rows. `SentAtMostOnce` and `PendingHasItsWork` follow in one state each.

### 5.7 CaseIntake (BackgroundProofs)

`IntakeIsSound` has the invariant, `IntakeInv`; every step is one of fourteen kinds
(`IntakeKinds`), and each part of the invariant has one lemma that goes through them.

- `Table` and `Truth`: a row, a pending webhook or a handler of one says of a job only what
  docai has made of it, however often and in whatever order it is told.
- `Callers`: with one overlap at most two handlers of the caller are under way.
- `Rested` is for `VerifiedIsExtracted`. As long as the case is verified, or a verification is
  in flight, the newest images were read; and a resubmission in flight is of images that
  could not be read, *or* it is left over from the one overlap and alone. The second arm is
  what one overlap can do: two resubmissions pass the check, one commits, its images are
  read, and only then the other commits. A verification beside that one would be the second
  overlap. With two, it does put images nobody has read under a verified case, so the
  property says up to which number of overlaps it holds (section 6).
- `Reports` and `Once` are for `SelfServiceIsOnce`: a failure that is recorded is told again
  only by a webhook that repeats (`Reported`), all rows but the newest have been told of, and
  so the verdict that offers the user new images has found no other one that did. `Served`
  says that what was offered stays a failed image.
- `OneAtATime` is for `ExtractionsAreSerial`: rows before the newest failed, and stay so unless
  a late vision.success revives one.

### 5.8 Matching (BackgroundProofs)

`MatchingIsSound` has the invariant, `MatchInv`. The three properties relate two pipelines
that never wait for each other.

- `FreshReads`: without an edit, what a step has read is the text of now, and from the storing
  of the vector on a search that looks finds it.
- `FoundByOne`, for `NoMatchIsMissed`: of two alike documents that have both been searched for,
  the row is there or one search has the other document among its candidates. The later of
  the two searches put it there: by then the vector of the other was stored. `CandidateStays`
  says that it leaves the list for its row only.
- `ToldUnlessFaults`, `ToldUnlessEdits`, for `MatchesAreTold`: without a fault whoever wrote a row
  keeps it until it has told of it. With faults a job runs again, and then it must find the
  pair again (`FindsAgain`), which holds because nobody edited; or it never comes to an end
  (`Stuck`).
- `RejectionsStand`, an action property, needs of the invariant only that candidates are
  documents of the other side, so that a write is one of a pair.

### 5.9 Access (ContentAndAccessProofs)

`AccessIsSound` has the invariant, `AccessInv == AdminInv /\ WorkSound` with the shape of the
situations.

- `Installed` and `RowsAreThere`: the administrator's role stays with what was installed, slugs
  stay unique, whatever the seed script gives back at a start, and an edit that has yet to
  write finds its row. (Without the last, a deletion
  could make a row appear whose slug another role has.)
- `InEffect`, for `RolesTakeEffect`: not tainted, at most one edit is under way. Before its
  write it is of a row that has the slug it read; after its write it brings what the rows now
  say (`SlotSound`); and the memory is what the rows say but for that one slug (`Behind`).
- `WorkSound`, for `PassedIsAuthorised`, looks at a request from both sides. Of the checks
  behind it: while nothing was taken away, what was found is still there (`Found`). Of those
  before it: while nothing was given, if what is `Left` is there now then all of it was when
  the request began. Both follow from the checks being monotone in `Rights` (`MoreRights`,
  `FewerRights`), which is why no pair of edits needs a case of its own. For an operation
  without a station nothing of its type, ceiling and grant is behind or before any step.

### 5.10 Content (ContentAndAccessProofs)

Four modules that share no state, proved about in `MCContent`, the module whose behaviours
the run checks; `ContentInvariant` has the four inductive invariants.

- *Templates* (`IInv`), for the action property `HistoryIsKept`: what makes it hold is not
  the version a handler has read but the unique index. Ids are given once (`IdsAreOwn`),
  also to what is filed (`FiledIsKnown`), and a handler about to store holds the content
  that is stored, *or* a version that is filed already, which the index refuses, *or* a
  container has started since and what is stored is what it ships (`ReadIsStoredOrFiled`).
  In the third case what the handler replaces is the shipped content, and what it files is
  what was there before. A start sets the version back, so a filed version may be above that
  of the template. What stays so is that every version *below* it is filed, of the template
  and of what a handler has read (`BelowAreFiled`); hence two handlers that hold
  versions that are not filed hold the same one (`OneUnfiledVersion`), and when
  one of them stores the other is refused.
- *Settings* (`SettingsInv`), for `CacheStaysFresh`: of a key that was neither edited while
  in use nor read while removed, the copy is the row or absent, a reader about to fill the
  cache holds the row, and during its removal there is no copy (`KeyIsFresh`). The second
  is what a read beside a removal destroys.
- *Files* (`FilesInv`), for `NothingIsLost`: a move was asked for by an owner of the file and
  has left a copy behind before it deletes (`MovesLeaveCopies`), and an owner that has
  checked its keys still has the files (`NamersHave`).
- *Addresses* (`AddressInv`), for `PreferredIsAlwaysLatest`: what is preferred while a save is
  in flight is what it has seen, what it has missed and its own address (`OthersAreKnown`).

### 5.11 Pages (ContentAndAccessProofs)

`PagesAlwaysTile` and `PagesAlwaysAgree` are about operators, not about a behaviour: for every
number of rows and every limit and page, given or not, the pages leave no row out and show
none twice, and rows and links agree although they are worked out apart. A row i is on page
(i - 1) div size + 1; that there is such a page, and that the last one is not empty, is
`PageCount`.

### 5.12 RowLemmas

Tables are sequences: an update of a row and an appended row keep the others
(`UpdateInSeq`, `AppendRows`, `AppendedRow`), two tables with the same indices are equally
long (`SameLength`), and a set of indices has a greatest one (`GreatestIndex`, for "the last
row before").

### 5.13 What is only model-checked

- Liveness under fairness (`SuccessCounts`, `StampedIsSettled`, `AlikeAreMatched`,
  `QueuedSettles`): out of the prover's reach, as is `ENABLED`.
- The ASSUMEs of `ExactMatch` and `HumanIds`: operators with recursion over characters and
  digits, evaluated over the inputs they name. What a recursive
  definition computes for every input needs induction with an operator as its parameter.
- `OptOutHonoured`, which the code violates.

All other properties of the runs have a theorem.

## 6. Disagreements of code and documentation

Shown by a run (`findings` in `PROJECT.json`): a notification preference never takes
effect. Stored "true" and "false" come back as booleans, the schema takes text alone, and
a preference that does not parse makes all of the user's preferences the defaults
(`common/settings/settings.user.service.ts:67`).

Met while modelling; each is in its module as the behaviour it is, and no property
claims otherwise.

*Exchanges and their timeline*

- A delivery fee added after the invoice was paid stays due while the collection code is
  issued: the check asks for the status PAID (`document-exchange.code-issue.service.ts:44`),
  which a later fee leaves alone (`invoice/invoice.service.ts:131`).
- Two claims on one document can both be verified and both handed over; the schema calls a
  lost case completed "When the document is reunited with the owner"
  (`prisma/schema.prisma:600`). With them `FollowsJourney` fails.
- Two overlapping issueCode calls both expire the old codes and then both create one, two
  overlapping scheduleExchange calls both create an exchange: `CodesAreSound` fails
  (`document-exchange.code-issue.service.ts:55`).
- updateExchange sets the method to courier without counting the failed attempts
  that scheduleExchange counts (`document-exchange.outbound.service.ts:96`).
- confirmDelivery completes a courier hand-over without the finder's reward that
  verifyCode pays (`document-exchange.code-verify.service.ts:221`).
- A batch HANDOVER hands a document over without a code
  (`document-custody/document-custody.constants.ts:65`), and the timeline has no event of it
  nor of any other operation. A document that was disposed of, although "custody becomes
  terminal" (`prisma/schema.prisma:1506`), is handed over by the next code that is confirmed:
  verifyCode does not ask for the custody (`document-exchange.code-verify.service.ts:177`).
- After a completed hand-over a new exchange of the same claim can be scheduled, and the
  timeline, which reads the newest one, shows the case as not completed
  (`document-cases.timeline.service.ts:152`).

*Custody*

- A code issued between a receipt's count and its transaction is not seen, against the
  comment beside it (`document-custody-transitions.service.ts:260`).
- No custody transition asks for the custody it starts from, so a TRANSFER_IN
  takes a disposed document back into custody, although "custody becomes terminal"
  (`prisma/schema.prisma:1506`).
- REQUISITION accepts a document at no station: the database comparison "not
  equal" is not true of null (`document-custody.service.ts:292`).
- An operation type without an entry in CUSTODY_TRANSITION records WITH_FINDER
  before and after instead of the current status (`document-custody.constants.ts:16`).
- A TRANSFER_IN without a station leaves a document IN_CUSTODY at none
  (`prisma/schema.prisma:963`).
- create does not pass the notes on to the check of required fields, so a type that
  requires notes, DISPOSAL among the seeded ones, cannot be created
  (`document-custody.service.ts:273`).

*Wallet and payments*

- Two overlapping withdrawals overdraw the wallet although the debit is called
  atomic (`wallet.service.ts:211`) and an amount "≤ wallet balance" (`wallet.dto.ts:27`).
- A failure callback that arrives twice restores the balance twice
  (`prisma/schema.prisma:1203`).
- A reward between a withdrawal's read and its transaction makes the balances in
  the ledger row wrong (`prisma/schema.prisma:1158`).
- A payout whose answer is lost is both paid and reversed, and its callback is
  dropped (`wallet.service.ts:212`).
- A callback that overtakes the update that stores its conversation id is dropped;
  the withdrawal stays INITIATED for ever, as after a crash between the debit and
  the call (`prisma/schema.prisma:1201`).
- The payout is rounded up to whole shillings while the wallet is debited the exact
  amount (`daraja.service.ts:157`). Amounts in the model are whole.
- Two callbacks of one invoice side by side each add to the `amountPaid` they have
  read: one payment is completed and not counted, so `PaidIsReceived` fails under
  overlap (`prisma/schema.prisma:981`).
- A callback between the statements of a fee is overwritten, so `BalanceMirrors`
  fails under overlap (`prisma/schema.prisma:983`).
- The record created before Mauzo is called "prevents re-entry"
  (`transaction.service.ts:122`), but nothing looks for it: two payments of the whole
  balance can both be collected.
- A callback that overtakes the update that stores its intent is dropped without an
  error, hence not tried again; the payment is collected and its transaction stays
  PROCESSING (`transaction.service.ts:200`).
- A payment that fails at Mauzo is never reported (section 3.5), so its transaction
  stays PROCESSING, although the webhook lists `payment.failed` (`mauzo.dto.ts:15`).
- A late event of another kind that overlaps with the success overwrites COMPLETED
  by FAILED; a repeated success is then counted twice (`transaction.service.ts:214`).
- Removing delivery fees leaves the invoice's status alone: one that has nothing due
  any more stays PARTIALLY_PAID, cannot be paid and gets no code (`invoice.service.ts:167`).

*Claims*

- Two claims made at once on a match are both live, against the comment "Only allow new
  claim if latest previous claim is cancelled" (`claim/claim.service.ts:121`).
- A claim on a rejected match is inserted and then fails: a PENDING claim is left.
- A rejected claim may be verified, but no reason from REJECTED to VERIFIED is
  installed; voided reasons are still accepted; a cancellation and a verification that
  overlap leave a log that is no path.

*Intake*

- A webhook that arrives before the job id is stored finds no extraction and is
  acknowledged; a call that died leaves its extraction PENDING for ever
  (`document-cases/document-cases.service.ts:244`).
- A repeated vision.failed counts its own first delivery as a prior failure and replaces
  RESUBMIT_IMAGE, or what the staff decided; a late vision.success takes a finished
  extraction back to IN_PROGRESS (`docai/docai-webhook.service.ts:38`, `:210`).
- Two resubmissions at once start two extractions; if a third handler, a verification,
  begins before the second of them commits, a verified case ends up with images nobody has
  read (`document-cases/document-cases.service.ts:591`). An owner's edit between the read
  and applyFields is overwritten.
- The check "Cant Update Found Document Case that is not in draft status"
  (`case-documents/case-documents.service.ts:59`) is not made by update.
- Files: a crash between the deletion from "tmp" and the update of the row leaves a row
  that names a key which is in "cases" only, and is never healed; a claim whose move
  stops half-way cannot be made again with the same keys; files of removed rows stay.

*Matching*

- verifyFoundCase queues the search for the member of staff who verifies, so it leaves
  out that person's lost cases and not the reporter's
  (`document-cases/documnt-cases.workflow.service.ts:318`).
- A crash between an embedding's completed event and the search job, or a refused addition,
  loses the search for good; two sides that write one match at once collide, and
  the loser is swallowed (`matching/matching.layered.service.ts:473`).
- A rejected match found again is told to its users again; vectors are not refreshed by an
  edit; a change of dimension leaves old vectors unused.
- No field ever scores 0.9: the confusion pairs are capitals and both values are in lower
  case (`matching/layers/exact-match.layer.ts:164`). The comments beside the weights
  (`:88`, `:103`) give 0.25 where the constants have 0.2 and 0.3.
- Number and full name give 0.70, which is PROBABLE, where the table of verdicts calls it
  VERIFIED; number and serial, or name and date of birth, give 0.5, POSSIBLE, where it
  calls them PROBABLE (`matching/matching.layered.service.ts:545`). With a threshold of
  0.4 the table's band from 0.30 to 0.40 never surfaces, and a misread number alone (0.34)
  is eliminated. The masked name in the comment at `:577` is not what maskValue returns.

*Notifications*

- A push ticket's DeviceNotRegistered does not deactivate the token: its code is lost
  between provider and handler (`notifications/channels/push/push.channel.service.ts:53`,
  `notifications/notification.processor.handler.ts:109`), although `src/notifications.md:529`
  says so. Only the receipt deactivates it.
- setPushToken leaves a voided token voided; a channel that a template's metadata does not
  mention is off for the resolver and on for the dispatch, which gives rows that are skipped.
- An event without rows is PENDING for ever; so are the rows of a dispatch that crashed
  before it added their jobs. A receipt job that is refused after the message was
  taken fails the row and sends again (`notification.processor.handler.ts:143`).
- Quiet hours default to 22 to 8, and an hour written as 24 at midnight is outside them.

*Access*

- "Better Auth picks up permission changes on the next request without a restart"
  (`roles/roles.service.ts:28`) is not so for new actions of the administrator, renamed
  slugs, an edited deleted role, and two setRolePermissions that overlap; actions that
  were voided stay granted. To rename an installed slug or the administrator's role locks
  administrators out when the process restarts without its container, whose start would
  have the seed script make the slug again.
- The seed script at each start of a container replaces the permissions of every role it
  ships (`scripts/seed-roles.ts:136`), so that what an administrator gave or took away
  there, editable roles included, is undone by the next deployment.
- The active station need not be the station of the operation, and one without a station
  skips the check; submit, execute and cancel do not ask for an active station at all; a
  session accepts any station.
- The return of a grant skips the check its creation makes; getAssignedStations asks for
  the permission of the user who is looked at.

*Content and small parts*

- A value read while it is deleted fills the cache after the delete, and a value set
  through the administrator's handler is not put in it
  (`common/settings/settings.system.service.ts:61`); a prefix empties more of the cache than
  the delete removes rows.
- The start of a container writes the templates it ships over what is stored, without
  filing it, and sets their versions back to 1 (`scripts/seed-templates.ts:76`), against
  "Full snapshot of every version — lets you roll back or diff changes"
  (`prisma/schema.prisma:1375`). What was edited last is lost; and as version 1 of an edited
  template is filed already, the unique index refuses every edit and rollback of it from
  then on.
- A rollback to a version without metadata keeps the later metadata; name and
  description have no versions.
- A voided preferred address that is restored, or two saves at once, leave two preferred
  ones (`address/address.service.ts:230`).
- A human id is read back whatever follows its digits; the first two numbers of a new
  prefix collide when they are made at once, and one is refused.
- A limit above 120 becomes 12 and not 120 (`common/query-builder/pagination.service.ts:8`);
  an answer without rows keeps the page that was asked for and points back to empty ones.

## 7. What is not modelled

- Labels and PDF files, image processing, prompts, the language model, the chat bot and
  the region's formats: input and output without state of their own. Address
  hierarchies and locales, document types: single-row edits. Queues and the database
  client are modelled where a component uses them.
- Of Mauzo: the signature check of the webhook, idempotency keys (a fresh one per
  call, so they identify nothing), withdrawals and the balance query. Of invoices:
  OVERDUE and CANCELLED, which nothing in the code sets. Of docai: batches, health and
  configuration calls. Of matching: security questions (claims compare them with an
  empty list), statistics and queries.
- Permissions outside `Access`: guards that refuse a call before anything is read or
  written. A refused call is one that never starts, so leaving them out only adds
  behaviour to the other modules.
- Of the scripts that run at the start of a container (`docker-entrypoint.sh:29`) only those
  of the templates, the roles and the missing system settings are modelled. The others
  write regions, document types and stations, reasons (again what is installed),
  operation types (constants here) and missing ceilings (what `Access` has the
  administrators create). Of the roles' script are left out what other processes still hold
  in memory and the rows it makes for a slug that was renamed; of the templates' their
  order: a start writes any of them, in any order.
- Prices, currency, message texts and the fields of addresses: no property is about them.
- Two codes with the same six digits, clock values (a code lapses at any time), two
  numbers of one prefix made in the same second with a restarted sequence.
- Statements of two transactions interleaving, but for `Addresses`, where the code's
  outcome turns on it.
- The payment providers, docai, the push and mail services, object storage, BullMQ and
  PostgreSQL themselves: external, as the code uses them.
- Code that nothing calls: submitFoundCase, applyExtractionToDocument,
  moveAndGenerateBluredVersions, SystemSettingService.set, savePreferences.
