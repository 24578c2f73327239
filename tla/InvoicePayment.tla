---------------------------- MODULE InvoicePayment ----------------------------
(***************************************************************************)
(* One claim's invoice (src/invoice) and the payments made towards it       *)
(* (src/payment) through Mauzo, the external payment gateway.               *)
(*                                                                         *)
(* The handlers of a payment and of a delivery fee are slots of "req".      *)
(* Mauzo settles a payment intent when it likes and reports it by webhooks, *)
(* each of which becomes a BullMQ job; a job is read, applied and            *)
(* acknowledged by a worker, side by side with other jobs and with requests, *)
(* and tried again when it raises.                                          *)
(*                                                                         *)
(* Not modelled: phone numbers, currency, receipts, fractions of a           *)
(* shilling, and the statuses OVERDUE and CANCELLED, which nothing sets.     *)
(***************************************************************************)
EXTENDS Integers, Sequences, FiniteSets

CONSTANTS
  Req,             \* slots for requests in flight
  Base,            \* service fee and finder reward of the document type
  Fee,             \* the delivery fee
  Workers,         \* jobs a worker processes side by side
  Attempts,        \* how often a job is tried
  Serial,          \* no two handlers are in flight at once
  OtherEvents,     \* a paid intent is also reported by an event not of success
  Faults,          \* which faults may happen
  MaxFees,         \* bound: delivery fees on the invoice at once
  MaxDrift,        \* bound: how far the total may fall below Base
  MaxTransactions, \* bound: payments ever started
  MaxJobs,         \* bound: webhooks ever received
  MaxInterrupts    \* bound: jobs that raise, over all jobs

\* A request dies; Mauzo's answer is lost; its intent cannot be stored.
FaultKinds == {"crash", "lostAnswer", "lostUpdate"}

ASSUME InvoiceAssumption ==
  /\ Base \in Nat /\ Fee \in Nat
  /\ Workers \in Nat /\ Attempts \in Nat
  /\ Serial \in BOOLEAN /\ OtherEvents \in BOOLEAN
  /\ Faults \subseteq FaultKinds
  /\ MaxFees \in Nat /\ MaxDrift \in Nat /\ MaxTransactions \in Nat
  /\ MaxJobs \in Nat /\ MaxInterrupts \in Nat

VARIABLES
  invoice,      \* the Invoice row, and how many delivery items it has
  transactions, \* Transaction rows, oldest first
  intents,      \* Mauzo's side of each transaction
  jobs,         \* the queue payment-callbacks, oldest first
  req,          \* requests in flight
  interrupts    \* jobs that raised so far

vars == <<invoice, transactions, intents, jobs, req, interrupts>>

Invoice == [total: Int, paid: Int, balance: Int, fees: Nat,
            status: {"PENDING", "PARTIALLY_PAID", "PAID"}]

Transaction == [amount: Nat, known: BOOLEAN, \* checkoutRequestId is stored
                status: {"PENDING", "PROCESSING", "COMPLETED", "FAILED"}]

Intent == {"none", "open", "succeeded", "failed"}

Active == {"complete", "fail", "acknowledge"}

\* A job: what it reports, and what its handler read of the invoice.
Job == [t: Nat, success: BOOLEAN, tries: Nat, paid: Int, total: Int,
        step: Active \cup {"waiting", "done", "failed"}]

Request == [step: {"idle", "create", "call", "save", "fail", "item", "totals"},
            t: Nat, amount: Nat, paid: Int, total: Int]

Idle == [step |-> "idle", t |-> 0, amount |-> 0, paid |-> 0, total |-> 0]

TypeOK ==
  /\ invoice \in Invoice
  /\ transactions \in Seq(Transaction)
  /\ intents \in Seq(Intent)
  /\ jobs \in Seq(Job)
  /\ req \in [Req -> Request]
  /\ interrupts \in Nat

Init ==
  /\ invoice = [total |-> Base, paid |-> 0, balance |-> Base, fees |-> 0,
                status |-> "PENDING"]
  /\ transactions = <<>>
  /\ intents = <<>>
  /\ jobs = <<>>
  /\ req = [r \in Req |-> Idle]
  /\ interrupts = 0

-----------------------------------------------------------------------------
At(r, step)   == req[r].step = step
Done(r)       == req' = [req EXCEPT ![r] = Idle]
Goto(r, step) == req' = [req EXCEPT ![r].step = step]

ActiveJobs == {j \in DOMAIN jobs : jobs[j].step \in Active}

\* In a serial run nothing starts before everything else has ended.
MayStart == Serial => ActiveJobs = {} /\ \A r \in Req : req[r] = Idle

(* initiatePayment *)

StartPayment(r) ==
  /\ req[r] = Idle /\ MayStart
  /\ invoice.status # "PAID"
  /\ \E a \in 1..invoice.balance :
       req' = [req EXCEPT ![r] = [Idle EXCEPT !.step = "create", !.amount = a]]
  /\ UNCHANGED <<invoice, transactions, intents, jobs, interrupts>>

CreateTransaction(r) ==
  /\ At(r, "create")
  /\ Len(transactions) < MaxTransactions
  /\ transactions' = Append(transactions, [amount |-> req[r].amount,
                              known |-> FALSE, status |-> "PENDING"])
  /\ intents' = Append(intents, "none")
  /\ req' = [req EXCEPT ![r] = [Idle EXCEPT !.step = "call",
                                            !.t = Len(transactions) + 1]]
  /\ UNCHANGED <<invoice, jobs, interrupts>>

\* Mauzo opens an intent and says so, refuses, or its answer is lost.
CallMauzo(r) ==
  /\ At(r, "call")
  /\ \/ /\ intents' = [intents EXCEPT ![req[r].t] = "open"]
        /\ \/ Goto(r, "save")
           \/ "lostAnswer" \in Faults /\ Goto(r, "fail")
     \/ Goto(r, "fail") /\ UNCHANGED intents
  /\ UNCHANGED <<invoice, transactions, jobs, interrupts>>

\* Mutant: the customer is taken to have paid once Mauzo has accepted.
MutSaveIntent(r) ==
  /\ At(r, "save")
  /\ transactions' = [transactions EXCEPT ![req[r].t] =
                        [amount |-> @.amount, known |-> TRUE,
                         status |-> "COMPLETED"]]
  /\ Done(r)
  /\ UNCHANGED <<invoice, intents, jobs, interrupts>>

SaveIntent(r) ==
  /\ At(r, "save")
  /\ transactions' = [transactions EXCEPT ![req[r].t] =
                        [amount |-> @.amount, known |-> TRUE,
                         status |-> "PROCESSING"]]
  /\ Done(r)
  /\ UNCHANGED <<invoice, intents, jobs, interrupts>>

\* The same catch serves the call and the update after it.
LoseIntent(r) ==
  /\ "lostUpdate" \in Faults
  /\ At(r, "save")
  /\ Goto(r, "fail")
  /\ UNCHANGED <<invoice, transactions, intents, jobs, interrupts>>

FailTransaction(r) ==
  /\ At(r, "fail")
  /\ transactions' = [transactions EXCEPT ![req[r].t].status = "FAILED"]
  /\ Done(r)
  /\ UNCHANGED <<invoice, intents, jobs, interrupts>>

Die(r) ==
  /\ "crash" \in Faults
  /\ req[r] # Idle
  /\ Done(r)
  /\ UNCHANGED <<invoice, transactions, intents, jobs, interrupts>>

-----------------------------------------------------------------------------
(* Delivery fees *)

\* addItem as scheduleExchange calls it, outside a transaction.
StartAddFee(r) ==
  /\ req[r] = Idle /\ MayStart
  /\ invoice.fees < MaxFees
  /\ req' = [req EXCEPT ![r] = [Idle EXCEPT !.step = "item",
                                            !.paid = invoice.paid,
                                            !.total = invoice.total]]
  /\ UNCHANGED <<invoice, transactions, intents, jobs, interrupts>>

CreateItem(r) ==
  /\ At(r, "item")
  /\ invoice' = [invoice EXCEPT !.fees = @ + 1]
  /\ Goto(r, "totals")
  /\ UNCHANGED <<transactions, intents, jobs, interrupts>>

\* Mutant: what was paid is not taken off.
MutUpdateTotals(r) ==
  /\ At(r, "totals")
  /\ invoice' = [invoice EXCEPT !.total = req[r].total + Fee,
                                !.balance = req[r].total + Fee]
  /\ Done(r)
  /\ UNCHANGED <<transactions, intents, jobs, interrupts>>

UpdateTotals(r) ==
  /\ At(r, "totals")
  /\ invoice' = [invoice EXCEPT !.total = req[r].total + Fee,
                                !.balance = req[r].total + Fee - req[r].paid]
  /\ Done(r)
  /\ UNCHANGED <<transactions, intents, jobs, interrupts>>

\* updateExchange, in one transaction: the fees of the old method go, the fee
\* of the new one comes.  The invoice's status is left as it is.
Reschedule(remove, add) ==
  LET gone  == IF remove THEN invoice.fees ELSE 0
      come  == IF add THEN 1 ELSE 0
      total == invoice.total + (come - gone) * Fee
  IN /\ MayStart
     /\ gone + come > 0
     /\ invoice.fees - gone + come <= MaxFees /\ total >= Base - MaxDrift
     /\ invoice' = [invoice EXCEPT !.fees = @ - gone + come, !.total = total,
                                   !.balance = total - invoice.paid]
     /\ UNCHANGED <<transactions, intents, jobs, req, interrupts>>

-----------------------------------------------------------------------------
(* Mauzo, and its webhooks *)

Settle(t) ==
  /\ intents[t] = "open"
  /\ \E outcome \in {"succeeded", "failed"} :
       intents' = [intents EXCEPT ![t] = outcome]
  /\ UNCHANGED <<invoice, transactions, jobs, req, interrupts>>

\* The webhook's schema admits SUCCEEDED as the only status of an intent, so a
\* failed payment is never reported.  A job of success is enqueued for the event
\* payment.succeeded; a late event of another kind counts as a failure.  Reports
\* may be repeated, and arrive late.
Report(t, success) ==
  /\ intents[t] = "succeeded"
  /\ success \/ OtherEvents
  /\ Len(jobs) < MaxJobs
  /\ jobs' = Append(jobs, [t |-> t, success |-> success, tries |-> 0,
                           paid |-> 0, total |-> 0, step |-> "waiting"])
  /\ UNCHANGED <<invoice, transactions, intents, req, interrupts>>

-----------------------------------------------------------------------------
(* handlePaymentCallback *)

Become(j, step, tries, paid, total) ==
  jobs' = [jobs EXCEPT ![j] = [t |-> @.t, success |-> @.success, tries |-> tries,
                               paid |-> paid, total |-> total, step |-> step]]

\* The handler is left, and what it read forgotten.
Leave(j, step, tries) == Become(j, step, tries, 0, 0)

Handled(t) == ~transactions[t].known \/ transactions[t].status = "COMPLETED"

Read(j, step) ==
  /\ jobs[j].step = "waiting"
  /\ Cardinality(ActiveJobs) < Workers
  /\ MayStart
  /\ IF step = "complete"
     THEN Become(j, step, jobs[j].tries, invoice.paid, invoice.total)
     ELSE Leave(j, step, jobs[j].tries)
  /\ UNCHANGED <<invoice, transactions, intents, req, interrupts>>

\* Mutant: a transaction that is already completed is processed again.
MutStartJob(j) ==
  Read(j, IF ~transactions[jobs[j].t].known THEN "acknowledge"
          ELSE IF jobs[j].success THEN "complete" ELSE "fail")

\* A callback of an unknown intent, and one of a completed transaction, is
\* dropped.
StartJob(j) ==
  Read(j, IF Handled(jobs[j].t) THEN "acknowledge"
          ELSE IF jobs[j].success THEN "complete" ELSE "fail")

MarkFailed(j) ==
  /\ jobs[j].step = "fail"
  /\ transactions' = [transactions EXCEPT ![jobs[j].t].status = "FAILED"]
  /\ Leave(j, "acknowledge", jobs[j].tries)
  /\ UNCHANGED <<invoice, intents, req, interrupts>>

\* One transaction, computed from the invoice as the handler read it.
Complete(j) ==
  LET paid == jobs[j].paid + transactions[jobs[j].t].amount
      due  == jobs[j].total - paid
  IN /\ jobs[j].step = "complete"
     /\ transactions' = [transactions EXCEPT ![jobs[j].t].status = "COMPLETED"]
     /\ invoice' = [invoice EXCEPT
          !.paid = paid,
          !.balance = IF due < 0 THEN 0 ELSE due,
          !.status = IF due <= 0 THEN "PAID" ELSE "PARTIALLY_PAID"]
     /\ Leave(j, "acknowledge", jobs[j].tries)
     /\ UNCHANGED <<intents, req, interrupts>>

Acknowledge(j) ==
  /\ jobs[j].step = "acknowledge"
  /\ Leave(j, "done", 0)
  /\ UNCHANGED <<invoice, transactions, intents, req, interrupts>>

\* Mutant: a job that raises is given up.
MutInterrupt(j) ==
  /\ jobs[j].step \in Active
  /\ interrupts < MaxInterrupts
  /\ interrupts' = interrupts + 1
  /\ Leave(j, "failed", 0)
  /\ UNCHANGED <<invoice, transactions, intents, req>>

\* A statement raises, or the transaction commits and the worker does not
\* learn of it: the job is tried again after a while.
Interrupt(j) ==
  /\ jobs[j].step \in Active
  /\ interrupts < MaxInterrupts
  /\ interrupts' = interrupts + 1
  /\ Leave(j, IF jobs[j].tries + 1 < Attempts THEN "waiting" ELSE "failed",
           jobs[j].tries + 1)
  /\ UNCHANGED <<invoice, transactions, intents, req>>

Work(j) ==
  /\ j \in DOMAIN jobs
  /\ StartJob(j) \/ MarkFailed(j) \/ Complete(j) \/ Acknowledge(j)

Next ==
  \/ \E r \in Req :
       \/ StartPayment(r) \/ CreateTransaction(r) \/ CallMauzo(r)
       \/ SaveIntent(r) \/ LoseIntent(r) \/ FailTransaction(r)
       \/ StartAddFee(r) \/ CreateItem(r) \/ UpdateTotals(r) \/ Die(r)
  \/ \E remove, add \in BOOLEAN : Reschedule(remove, add)
  \/ \E t \in DOMAIN intents :
       Settle(t) \/ \E success \in BOOLEAN : Report(t, success)
  \/ \E j \in DOMAIN jobs : Work(j) \/ Interrupt(j)

\* The queue's worker takes up what is waiting and finishes what it has taken
\* up.  Nothing else need ever happen.
Spec == Init /\ [][Next]_vars /\ \A j \in 1..MaxJobs : WF_vars(Work(j))

-----------------------------------------------------------------------------
(* What holds however requests and jobs overlap *)

\* A transaction is completed only if its intent is stored and Mauzo has
\* collected the money: no acceptance, no early, late or repeated report and no
\* failure of the request completes it.
CompletedWasReceived ==
  \A t \in DOMAIN transactions :
    transactions[t].status = "COMPLETED" =>
      transactions[t].known /\ intents[t] = "succeeded"

SumOf(s) ==
  LET sum[n \in 0 .. Len(s)] == IF n = 0 THEN 0 ELSE sum[n - 1] + s[n]
  IN sum[Len(s)]

ReceivedOf(transaction) ==
  IF transaction.status = "COMPLETED" THEN transaction.amount ELSE 0

Amounts == [t \in DOMAIN transactions |-> ReceivedOf(transactions[t])]

Received == SumOf(Amounts)

\* As long as only success is reported, no repetition or overlap of the reports
\* and no job that is tried again counts a payment twice.
NeverOvercounted == invoice.paid <= Received

\* A report of success that finds its transaction completes it in the end,
\* however it overlaps with its repetitions and with other payments, and as
\* long as its job raises less often than it is tried.
SuccessCounts ==
  \A j \in 1..MaxJobs :
    (/\ j \in DOMAIN jobs
     /\ jobs[j].success /\ jobs[j].step = "waiting"
     /\ transactions[jobs[j].t].known)
    ~> (j \in DOMAIN jobs /\ transactions[jobs[j].t].status = "COMPLETED")

-----------------------------------------------------------------------------
(* What holds when handlers do not overlap *)

\* What the invoice counts as paid is what its completed transactions amount
\* to, after every crash, retry and repeated, late or contradicting report.
PaidIsReceived == invoice.paid = Received

\* balanceDue is the "mirror of (totalAmount - amountPaid)" whenever no more
\* was paid than the total, whatever fees came and went in between.
BalanceMirrors ==
  invoice.paid <= invoice.total =>
    invoice.balance = invoice.total - invoice.paid
=============================================================================
