------------------------- MODULE InvoicePaymentProofs -------------------------
(***************************************************************************)
(* What InvoicePayment keeps for EVERY number of requests, payments, jobs,  *)
(* repeated reports and faults.  The invariant that carries the proofs says *)
(* that a payment on its way to Mauzo is its request's alone, and that what *)
(* a job believes of its transaction stays true; two more are for handlers  *)
(* that do not overlap, and for jobs that do but report success only.       *)
(***************************************************************************)
EXTENDS InvoicePayment, RowLemmas, TLAPS

\* The request of a payment whose transaction exists.
Paying(q) == q.step \in {"call", "save", "fail"}

SlotOK(q) ==
  /\ Paying(q) => q.t \in DOMAIN transactions
  /\ q.step = "call" => intents[q.t] = "none"

OnePayer ==
  \A r, p \in Req :
    Paying(req[r]) /\ Paying(req[p]) /\ req[r].t = req[p].t => r = p

\* Success is reported of collected money only, and only of that is a
\* transaction completed.
JobOK(job) ==
  /\ job.t \in DOMAIN transactions
  /\ job.success => intents[job.t] = "succeeded"
  /\ job.step = "complete" => job.success /\ transactions[job.t].known

IInv ==
  /\ TypeOK
  /\ DOMAIN intents = DOMAIN transactions
  /\ \A r \in Req : SlotOK(req[r])
  /\ OnePayer
  /\ \A j \in DOMAIN jobs : JobOK(jobs[j])
  /\ CompletedWasReceived

-----------------------------------------------------------------------------
(* Parts of a state, and what a step of another part leaves right *)

LEMMA Tables ==
  ASSUME TypeOK
  PROVE  /\ Len(transactions) \in Nat
         /\ DOMAIN transactions = 1..Len(transactions)
         /\ \A t \in DOMAIN transactions : transactions[t] \in Transaction
         /\ Len(intents) \in Nat /\ DOMAIN intents = 1..Len(intents)
         /\ \A t \in DOMAIN intents : intents[t] \in Intent
         /\ Len(jobs) \in Nat /\ DOMAIN jobs = 1..Len(jobs)
         /\ \A j \in DOMAIN jobs : jobs[j] \in Job
BY DEF TypeOK

LEMMA IdleSlot == Idle \in Request /\ SlotOK(Idle) /\ ~Paying(Idle)
BY DEF Idle, Request, SlotOK, Paying

\* Transactions stay, stay known, and stay paid for.
Kept ==
  \A t \in DOMAIN transactions :
    /\ t \in DOMAIN transactions'
    /\ transactions[t].known => transactions'[t].known
    /\ intents[t] = "succeeded" => intents'[t] = "succeeded"

LEMMA SameTables ==
  ASSUME UNCHANGED <<transactions, intents>> PROVE Kept
BY DEF Kept

LEMMA JobsStay ==
  ASSUME IInv, Kept, jobs' = jobs
  PROVE  jobs' \in Seq(Job) /\ \A j \in DOMAIN jobs' : JobOK(jobs[j])'
BY DEF IInv, TypeOK, JobOK, Kept

\* Slot r moves on to s, the others are left as they are.
LEMMA SlotStep ==
  ASSUME IInv, Kept, NEW r \in Req, NEW s \in Request,
         req' = [req EXCEPT ![r] = s], SlotOK(s)',
         \A p \in Req \ {r} : Paying(req[p]) =>
           /\ intents'[req[p].t] = intents[req[p].t]
           /\ Paying(s) => s.t # req[p].t
  PROVE  /\ req' \in [Req -> Request]
         /\ \A p \in Req : SlotOK(req[p])'
         /\ OnePayer'
<1>1. req \in [Req -> Request] BY DEF IInv, TypeOK
<1>2. req' \in [Req -> Request] BY <1>1
<1>3. req'[r] = s /\ \A p \in Req \ {r} : req'[p] = req[p] BY <1>1
<1>4. ASSUME NEW p \in Req PROVE SlotOK(req[p])'
  <2>1. CASE p = r BY <1>3, <2>1 DEF SlotOK, Paying
  <2>2. CASE p # r
    <3>1. req'[p] = req[p] /\ SlotOK(req[p]) BY <1>3, <2>2 DEF IInv
    <3> QED BY <2>2, <3>1 DEF SlotOK, Paying, Kept
  <2> QED BY <2>1, <2>2
<1>5. ASSUME NEW p \in Req, NEW q \in Req, Paying(req'[p]), Paying(req'[q]),
             req'[p].t = req'[q].t
      PROVE  p = q
  <2>1. CASE p # r /\ q # r BY <1>3, <1>5, <2>1 DEF IInv, OnePayer
  <2>2. CASE p = r /\ q # r BY <1>3, <1>5, <2>2
  <2>3. CASE p # r /\ q = r BY <1>3, <1>5, <2>3
  <2>4. CASE p = r /\ q = r BY <2>4
  <2> QED BY <2>1, <2>2, <2>3, <2>4
<1> QED BY <1>2, <1>4, <1>5 DEF OnePayer, Paying

\* No slot moves.
LEMMA SlotsStay ==
  ASSUME IInv, Kept, req' = req,
         \A p \in Req : req[p].step = "call" =>
           intents'[req[p].t] = intents[req[p].t]
  PROVE  /\ req' \in [Req -> Request]
         /\ \A p \in Req : SlotOK(req[p])'
         /\ OnePayer'
BY DEF IInv, TypeOK, SlotOK, Paying, OnePayer, Kept

\* The other payments' transactions are not the one of slot r.
LEMMA OtherPayers ==
  ASSUME IInv, NEW r \in Req, NEW p \in Req \ {r},
         Paying(req[r]), Paying(req[p])
  PROVE  req[p].t # req[r].t /\ req[p].t \in DOMAIN transactions
BY DEF IInv, OnePayer, SlotOK, Paying

\* Job j moves on to another step.
LEMMA JobStep ==
  ASSUME IInv, Kept, NEW j \in DOMAIN jobs, NEW step, NEW tries \in Nat,
         NEW paid \in Int, NEW total \in Int,
         step \in Active \cup {"waiting", "done", "failed"},
         Become(j, step, tries, paid, total),
         step = "complete" =>
           jobs[j].success /\ transactions[jobs[j].t].known
  PROVE  jobs' \in Seq(Job) /\ \A i \in DOMAIN jobs' : JobOK(jobs[i])'
<1> DEFINE row == [t |-> jobs[j].t, success |-> jobs[j].success,
                   tries |-> tries, paid |-> paid, total |-> total,
                   step |-> step]
<1>1. jobs[j] \in Job /\ JobOK(jobs[j]) BY Tables DEF IInv
<1>2. row \in Job BY <1>1 DEF Job
<1>3. jobs' = [jobs EXCEPT ![j] = row] BY DEF Become
<1>4. jobs \in Seq(Job) BY DEF IInv, TypeOK
<1>5. /\ jobs' \in Seq(Job) /\ DOMAIN jobs' = DOMAIN jobs
      /\ \A i \in DOMAIN jobs : jobs'[i] = IF i = j THEN row ELSE jobs[i]
  <2> HIDE DEF row
  <2> QED BY <1>2, <1>3, <1>4, UpdateInSeq
<1>6. ASSUME NEW i \in DOMAIN jobs PROVE JobOK(jobs[i])'
  <2>1. CASE i = j BY <1>1, <1>5, <2>1 DEF JobOK, Kept
  <2>2. CASE i # j
    <3>1. jobs'[i] = jobs[i] /\ JobOK(jobs[i]) BY <1>5, <2>2 DEF IInv
    <3> QED BY <3>1 DEF JobOK, Kept
  <2> QED BY <2>1, <2>2
<1> QED BY <1>5, <1>6

\* A transaction gets another status.
LEMMA Marked ==
  ASSUME IInv, NEW t \in DOMAIN transactions,
         NEW status \in {"PENDING", "PROCESSING", "COMPLETED", "FAILED"},
         transactions' = [transactions EXCEPT ![t].status = status],
         intents' = intents,
         status = "COMPLETED" =>
           transactions[t].known /\ intents[t] = "succeeded"
  PROVE  /\ transactions' \in Seq(Transaction)
         /\ DOMAIN transactions' = DOMAIN transactions
         /\ Kept /\ CompletedWasReceived'
<1> DEFINE row == [transactions[t] EXCEPT !.status = status]
<1>1. row \in Transaction /\ row.known = transactions[t].known
      /\ row.status = status
  BY Tables DEF IInv, Transaction
<1>2. transactions \in Seq(Transaction) BY DEF IInv, TypeOK
<1>3. /\ transactions' \in Seq(Transaction)
      /\ DOMAIN transactions' = DOMAIN transactions
      /\ \A i \in DOMAIN transactions :
           transactions'[i] = IF i = t THEN row ELSE transactions[i]
  <2> HIDE DEF row
  <2>1. transactions' = [transactions EXCEPT ![t] = row] BY DEF row
  <2> QED BY <1>1, <1>2, <2>1, UpdateInSeq
<1>4. \A i \in DOMAIN transactions : transactions'[i].known = transactions[i].known
  BY <1>1, <1>3
<1>5. Kept BY <1>3, <1>4 DEF Kept
<1>6. CompletedWasReceived' BY <1>1, <1>3, <1>4 DEF IInv, CompletedWasReceived
<1> QED BY <1>3, <1>5, <1>6
-----------------------------------------------------------------------------
(* The steps *)

LEMMA InitIInv == Init => IInv
<1> SUFFICES ASSUME Init PROVE IInv OBVIOUS
<1>1. \A r \in Req : req[r] = Idle BY DEF Init
<1>2. TypeOK
  BY InvoiceAssumption, IdleSlot
     DEF Init, TypeOK, Invoice, InvoiceAssumption
<1>3. transactions = <<>> /\ intents = <<>> /\ jobs = <<>> BY DEF Init
<1> QED BY <1>1, <1>2, <1>3, IdleSlot DEF IInv, OnePayer, CompletedWasReceived

\* Requests that write nothing but their slot, and their invoice.
LEMMA RequestStep ==
  ASSUME IInv, NEW r \in Req,
         \/ StartPayment(r) \/ LoseIntent(r) \/ Die(r)
         \/ StartAddFee(r) \/ CreateItem(r) \/ UpdateTotals(r)
  PROVE  IInv'
<1>1. /\ UNCHANGED <<transactions, intents, jobs, interrupts>>
      /\ Kept
  BY SameTables DEF StartPayment, LoseIntent, Die, StartAddFee, CreateItem,
                    UpdateTotals
<1>2. req[r] \in Request /\ SlotOK(req[r]) /\ invoice \in Invoice
  BY DEF IInv, TypeOK
<1>3. PICK s \in Request :
        /\ req' = [req EXCEPT ![r] = s]
        /\ Paying(s) => s.t = req[r].t /\ Paying(req[r]) /\ s.step # "call"
  <2>1. CASE StartPayment(r)
    <3>1. PICK a \in 1..invoice.balance :
            req' = [req EXCEPT ![r] =
                      [Idle EXCEPT !.step = "create", !.amount = a]]
      BY <2>1 DEF StartPayment
    <3>2. a \in Nat BY <1>2 DEF Invoice
    <3> DEFINE s == [Idle EXCEPT !.step = "create", !.amount = a]
    <3>3. s \in Request /\ ~Paying(s) BY <3>2, IdleSlot DEF Request, Paying
    <3> QED BY <3>1, <3>3
  <2>2. CASE LoseIntent(r)
    <3> DEFINE s == [req[r] EXCEPT !.step = "fail"]
    <3>1. s \in Request /\ s.t = req[r].t /\ s.step # "call"
      BY <1>2 DEF Request
    <3>2. Paying(req[r]) /\ req' = [req EXCEPT ![r] = s]
      BY <2>2 DEF LoseIntent, At, Goto, Paying
    <3> QED BY <3>1, <3>2
  <2>3. CASE Die(r) \/ UpdateTotals(r)
    BY <2>3, IdleSlot DEF Die, UpdateTotals, Done
  <2>4. CASE StartAddFee(r)
    <3> DEFINE s == [Idle EXCEPT !.step = "item", !.paid = invoice.paid,
                                 !.total = invoice.total]
    <3>1. s \in Request /\ ~Paying(s)
      BY <1>2, IdleSlot DEF Request, Paying, Invoice
    <3>2. req' = [req EXCEPT ![r] = s] BY <2>4 DEF StartAddFee
    <3> QED BY <3>1, <3>2
  <2>5. CASE CreateItem(r)
    <3> DEFINE s == [req[r] EXCEPT !.step = "totals"]
    <3>1. s \in Request /\ ~Paying(s) BY <1>2 DEF Request, Paying
    <3>2. req' = [req EXCEPT ![r] = s] BY <2>5 DEF CreateItem, Goto
    <3> QED BY <3>1, <3>2
  <2> QED BY <2>1, <2>2, <2>3, <2>4, <2>5
<1>4. SlotOK(s)' BY <1>1, <1>2, <1>3 DEF SlotOK, Paying
<1>5. \A p \in Req \ {r} : Paying(req[p]) => (Paying(s) => s.t # req[p].t)
  BY <1>3, OtherPayers
<1>6. /\ req' \in [Req -> Request]
      /\ \A p \in Req : SlotOK(req[p])'
      /\ OnePayer'
  BY <1>1, <1>3, <1>4, <1>5, SlotStep
<1>7. invoice' \in Invoice
  <2>1. CASE StartPayment(r) \/ LoseIntent(r) \/ Die(r) \/ StartAddFee(r)
    BY <1>2, <2>1 DEF StartPayment, LoseIntent, Die, StartAddFee
  <2>2. CASE CreateItem(r) BY <1>2, <2>2 DEF CreateItem, Invoice
  <2>3. CASE UpdateTotals(r)
    <3>1. PICK total, balance \in Int :
            invoice' = [invoice EXCEPT !.total = total, !.balance = balance]
      <4>1. /\ req[r].total + Fee \in Int
            /\ req[r].total + Fee - req[r].paid \in Int
        BY <1>2, InvoiceAssumption DEF Request, InvoiceAssumption
      <4>2. invoice' = [invoice EXCEPT
                          !.total = req[r].total + Fee,
                          !.balance = req[r].total + Fee - req[r].paid]
        BY <2>3 DEF UpdateTotals
      <4> QED BY <4>1, <4>2
    <3> QED BY <1>2, <3>1 DEF Invoice
  <2> QED BY <2>1, <2>2, <2>3
<1>8. jobs' \in Seq(Job) /\ \A j \in DOMAIN jobs' : JobOK(jobs[j])'
  BY <1>1, JobsStay
<1> QED BY <1>1, <1>6, <1>7, <1>8 DEF IInv, TypeOK, CompletedWasReceived

LEMMA CreateTransactionStep ==
  ASSUME IInv, NEW r \in Req, CreateTransaction(r) PROVE IInv'
<1> DEFINE row == [amount |-> req[r].amount, known |-> FALSE,
                   status |-> "PENDING"]
<1>1. PICK t : t = Len(transactions) + 1 OBVIOUS
<1>2. req[r] \in Request /\ Len(transactions) = Len(intents) /\ t \in Nat
  BY <1>1, Tables, SameLength DEF IInv, TypeOK
<1>3. row \in Transaction /\ "none" \in Intent BY <1>2 DEF Request, Transaction, Intent
<1>4. PICK s \in Request : s = [Idle EXCEPT !.step = "call", !.t = t]
  BY <1>2, IdleSlot DEF Request
<1>5. /\ transactions' = Append(transactions, row)
      /\ intents' = Append(intents, "none")
      /\ req' = [req EXCEPT ![r] = s]
      /\ UNCHANGED <<invoice, jobs, interrupts>>
  BY <1>1, <1>4 DEF CreateTransaction
<1>6. transactions \in Seq(Transaction) /\ intents \in Seq(Intent)
  BY DEF IInv, TypeOK
<1>7. /\ transactions' \in Seq(Transaction)
      /\ DOMAIN transactions' = DOMAIN transactions \cup {t}
      /\ \A i \in DOMAIN transactions : transactions'[i] = transactions[i]
      /\ transactions'[t] = row
      /\ t \notin DOMAIN transactions
  <2> HIDE DEF row
  <2> QED BY <1>1, <1>3, <1>5, <1>6, AppendRows
<1>8. /\ intents' \in Seq(Intent)
      /\ DOMAIN intents' = DOMAIN intents \cup {t}
      /\ \A i \in DOMAIN intents : intents'[i] = intents[i]
      /\ intents'[t] = "none"
  BY <1>1, <1>2, <1>3, <1>5, <1>6, AppendRows
<1>9. DOMAIN intents = DOMAIN transactions BY DEF IInv
<1>10. Kept BY <1>7, <1>8, <1>9 DEF Kept
<1>11. SlotOK(s)' BY <1>4, <1>7, <1>8, IdleSlot DEF SlotOK, Paying, Request
<1>12. \A p \in Req \ {r} : Paying(req[p]) =>
         req[p].t \in DOMAIN transactions
  BY DEF IInv, SlotOK
<1>13. /\ req' \in [Req -> Request]
       /\ \A p \in Req : SlotOK(req[p])'
       /\ OnePayer'
  <2>1. \A p \in Req \ {r} : Paying(req[p]) =>
          /\ intents'[req[p].t] = intents[req[p].t]
          /\ Paying(s) => s.t # req[p].t
    BY <1>4, <1>7, <1>8, <1>9, <1>12, IdleSlot DEF Request
  <2> QED BY <1>5, <1>10, <1>11, <2>1, SlotStep
<1>14. jobs' \in Seq(Job) /\ \A j \in DOMAIN jobs' : JobOK(jobs[j])'
  BY <1>5, <1>10, JobsStay
<1>15. CompletedWasReceived'
  BY <1>7, <1>8, <1>9 DEF IInv, CompletedWasReceived
<1> QED BY <1>5, <1>7, <1>8, <1>9, <1>13, <1>14, <1>15 DEF IInv, TypeOK

LEMMA CallMauzoStep ==
  ASSUME IInv, NEW r \in Req, CallMauzo(r) PROVE IInv'
<1>1. /\ At(r, "call")
      /\ UNCHANGED <<invoice, transactions, jobs, interrupts>>
  BY DEF CallMauzo
<1>2. /\ req[r] \in Request /\ req[r].t \in DOMAIN transactions
      /\ intents[req[r].t] = "none" /\ Paying(req[r])
      /\ intents \in Seq(Intent) /\ DOMAIN intents = DOMAIN transactions
  BY <1>1 DEF IInv, TypeOK, SlotOK, Paying, At
<1>3. PICK s \in Request :
        /\ req' = [req EXCEPT ![r] = s]
        /\ s.t = req[r].t /\ s.step \in {"save", "fail"}
  <2> DEFINE s(step) == [req[r] EXCEPT !.step = step]
  <2>1. \A step \in {"save", "fail"} :
          s(step) \in Request /\ s(step).t = req[r].t /\ s(step).step = step
    BY <1>2 DEF Request
  <2>2. req' = [req EXCEPT ![r] = s("save")]
        \/ req' = [req EXCEPT ![r] = s("fail")]
    BY DEF CallMauzo, Goto
  <2> HIDE DEF s
  <2> QED BY <2>1, <2>2
<1>4. /\ intents' \in Seq(Intent) /\ DOMAIN intents' = DOMAIN intents
      /\ \A t \in DOMAIN intents : t # req[r].t => intents'[t] = intents[t]
  <2>1. CASE intents' = intents BY <1>2, <2>1
  <2>2. CASE intents' = [intents EXCEPT ![req[r].t] = "open"]
    <3>1. "open" \in Intent BY DEF Intent
    <3> QED BY <1>2, <2>2, <3>1, UpdateInSeq
  <2> QED BY <2>1, <2>2 DEF CallMauzo
<1>5. Kept BY <1>1, <1>2, <1>4 DEF Kept
<1>6. SlotOK(s)' BY <1>1, <1>2, <1>3 DEF SlotOK
<1>7. \A p \in Req \ {r} : Paying(req[p]) =>
        /\ intents'[req[p].t] = intents[req[p].t]
        /\ s.t # req[p].t
  BY <1>2, <1>3, <1>4, OtherPayers
<1>8. /\ req' \in [Req -> Request]
      /\ \A p \in Req : SlotOK(req[p])'
      /\ OnePayer'
  BY <1>3, <1>5, <1>6, <1>7, SlotStep
<1>9. jobs' \in Seq(Job) /\ \A j \in DOMAIN jobs' : JobOK(jobs[j])'
  BY <1>1, <1>5, JobsStay
<1>10. CompletedWasReceived' BY <1>1, <1>2, <1>5 DEF IInv, CompletedWasReceived, Kept
<1> QED BY <1>1, <1>2, <1>4, <1>8, <1>9, <1>10 DEF IInv, TypeOK

LEMMA SaveIntentStep ==
  ASSUME IInv, NEW r \in Req, SaveIntent(r) PROVE IInv'
<1> DEFINE row == [amount |-> transactions[req[r].t].amount, known |-> TRUE,
                   status |-> "PROCESSING"]
<1>1. /\ At(r, "save") /\ req' = [req EXCEPT ![r] = Idle]
      /\ transactions' = [transactions EXCEPT ![req[r].t] = row]
      /\ UNCHANGED <<invoice, intents, jobs, interrupts>>
  BY DEF SaveIntent, Done
<1>2. /\ req[r].t \in DOMAIN transactions
      /\ transactions[req[r].t] \in Transaction
      /\ transactions \in Seq(Transaction)
  BY <1>1, Tables DEF IInv, TypeOK, SlotOK, Paying, At
<1>3. row \in Transaction BY <1>2 DEF Transaction
<1>4. /\ transactions' \in Seq(Transaction)
      /\ DOMAIN transactions' = DOMAIN transactions
      /\ \A t \in DOMAIN transactions :
           transactions'[t] = IF t = req[r].t THEN row ELSE transactions[t]
  <2> HIDE DEF row
  <2> QED BY <1>1, <1>2, <1>3, UpdateInSeq
<1>5. Kept BY <1>1, <1>4 DEF Kept
<1>6. SlotOK(Idle)' BY DEF SlotOK, Paying, Idle
<1>7. /\ req' \in [Req -> Request]
      /\ \A p \in Req : SlotOK(req[p])'
      /\ OnePayer'
  BY <1>1, <1>5, <1>6, IdleSlot, SlotStep
<1>8. jobs' \in Seq(Job) /\ \A j \in DOMAIN jobs' : JobOK(jobs[j])'
  BY <1>1, <1>5, JobsStay
<1>9. CompletedWasReceived' BY <1>1, <1>4 DEF IInv, CompletedWasReceived
<1> QED BY <1>1, <1>4, <1>7, <1>8, <1>9 DEF IInv, TypeOK

LEMMA FailTransactionStep ==
  ASSUME IInv, NEW r \in Req, FailTransaction(r) PROVE IInv'
<1>1. /\ At(r, "fail") /\ req' = [req EXCEPT ![r] = Idle]
      /\ transactions' = [transactions EXCEPT ![req[r].t].status = "FAILED"]
      /\ UNCHANGED <<invoice, intents, jobs, interrupts>>
  BY DEF FailTransaction, Done
<1>2. req[r].t \in DOMAIN transactions
  BY <1>1 DEF IInv, SlotOK, Paying, At
<1>3. /\ transactions' \in Seq(Transaction)
      /\ DOMAIN transactions' = DOMAIN transactions
      /\ Kept /\ CompletedWasReceived'
  BY <1>1, <1>2, Marked
<1>4. SlotOK(Idle)' BY DEF SlotOK, Paying, Idle
<1>5. /\ req' \in [Req -> Request]
      /\ \A p \in Req : SlotOK(req[p])'
      /\ OnePayer'
  BY <1>1, <1>3, <1>4, IdleSlot, SlotStep
<1>6. jobs' \in Seq(Job) /\ \A j \in DOMAIN jobs' : JobOK(jobs[j])'
  BY <1>1, <1>3, JobsStay
<1> QED BY <1>1, <1>3, <1>5, <1>6 DEF IInv, TypeOK

\* Steps that move no slot and leave the transactions.
LEMMA RescheduleStep ==
  ASSUME IInv, NEW remove \in BOOLEAN, NEW add \in BOOLEAN,
         Reschedule(remove, add)
  PROVE  IInv'
<1>1. UNCHANGED <<transactions, intents, jobs, req, interrupts>> /\ Kept
  BY SameTables DEF Reschedule
<1>2. invoice \in Invoice BY DEF IInv, TypeOK
<1>3. PICK gone \in 0..invoice.fees, come \in {0, 1}, total \in Int :
        invoice' = [invoice EXCEPT !.fees = @ - gone + come, !.total = total,
                                   !.balance = total - invoice.paid]
  <2> DEFINE gone == IF remove THEN invoice.fees ELSE 0
             come == IF add THEN 1 ELSE 0
             total == invoice.total + (come - gone) * Fee
  <2>1. gone \in 0..invoice.fees /\ come \in {0, 1} BY <1>2 DEF Invoice
  <2>2. total \in Int
    <3>1. come - gone \in Int /\ Fee \in Int /\ invoice.total \in Int
      BY <1>2, <2>1, InvoiceAssumption DEF Invoice, InvoiceAssumption
    <3> QED BY <3>1
  <2>3. invoice' = [invoice EXCEPT !.fees = @ - gone + come, !.total = total,
                                   !.balance = total - invoice.paid]
    BY DEF Reschedule
  <2> HIDE DEF gone, come, total
  <2> QED BY <2>1, <2>2, <2>3
<1>4. invoice' \in Invoice
  <2>1. invoice.fees - gone + come \in Nat /\ total - invoice.paid \in Int
    BY <1>2, <1>3 DEF Invoice
  <2> QED BY <1>2, <1>3, <2>1 DEF Invoice
<1>5. /\ req' \in [Req -> Request]
      /\ \A p \in Req : SlotOK(req[p])'
      /\ OnePayer'
  BY <1>1, SlotsStay
<1>6. jobs' \in Seq(Job) /\ \A j \in DOMAIN jobs' : JobOK(jobs[j])'
  BY <1>1, JobsStay
<1> QED BY <1>1, <1>4, <1>5, <1>6 DEF IInv, TypeOK, CompletedWasReceived

LEMMA SettleStep ==
  ASSUME IInv, NEW t \in DOMAIN intents, Settle(t) PROVE IInv'
<1>1. /\ intents[t] = "open"
      /\ UNCHANGED <<invoice, transactions, jobs, req, interrupts>>
  BY DEF Settle
<1>2. PICK outcome \in {"succeeded", "failed"} :
        intents' = [intents EXCEPT ![t] = outcome]
  BY DEF Settle
<1>3. /\ intents' \in Seq(Intent) /\ DOMAIN intents' = DOMAIN intents
      /\ \A i \in DOMAIN intents :
           intents'[i] = IF i = t THEN outcome ELSE intents[i]
  <2>1. outcome \in Intent /\ intents \in Seq(Intent)
    BY DEF IInv, TypeOK, Intent
  <2> QED BY <1>2, <2>1, UpdateInSeq
<1>4. DOMAIN intents = DOMAIN transactions BY DEF IInv
<1>5. Kept BY <1>1, <1>3, <1>4 DEF Kept
<1>6. \A p \in Req : req[p].step = "call" =>
        intents'[req[p].t] = intents[req[p].t]
  BY <1>1, <1>3, <1>4 DEF IInv, SlotOK, Paying
<1>7. /\ req' \in [Req -> Request]
      /\ \A p \in Req : SlotOK(req[p])'
      /\ OnePayer'
  BY <1>1, <1>5, <1>6, SlotsStay
<1>8. jobs' \in Seq(Job) /\ \A j \in DOMAIN jobs' : JobOK(jobs[j])'
  BY <1>1, <1>5, JobsStay
<1>9. CompletedWasReceived' BY <1>1, <1>3, <1>4 DEF IInv, CompletedWasReceived
<1> QED BY <1>1, <1>3, <1>4, <1>7, <1>8, <1>9 DEF IInv, TypeOK

LEMMA ReportStep ==
  ASSUME IInv, NEW t \in DOMAIN intents, NEW success \in BOOLEAN,
         Report(t, success)
  PROVE  IInv'
<1> DEFINE row == [t |-> t, success |-> success, tries |-> 0, paid |-> 0,
                   total |-> 0, step |-> "waiting"]
<1>1. /\ jobs' = Append(jobs, row)
      /\ success => intents[t] = "succeeded"
      /\ UNCHANGED <<invoice, transactions, intents, req, interrupts>>
  BY DEF Report
<1>2. t \in DOMAIN transactions /\ t \in Nat
  BY Tables DEF IInv
<1>3. row \in Job /\ JobOK(row) BY <1>1, <1>2 DEF Job, JobOK
<1>4. jobs \in Seq(Job) /\ \A j \in DOMAIN jobs : JobOK(jobs[j])
  BY DEF IInv, TypeOK
<1>5. /\ jobs' \in Seq(Job) /\ DOMAIN jobs' = DOMAIN jobs \cup {Len(jobs) + 1}
      /\ \A j \in DOMAIN jobs : jobs'[j] = jobs[j]
      /\ jobs'[Len(jobs) + 1] = row
  <2> HIDE DEF row
  <2> QED BY <1>1, <1>3, <1>4, AppendRows
<1>6. \A j \in DOMAIN jobs' : JobOK(jobs'[j])
  <2> HIDE DEF row
  <2> QED BY <1>3, <1>4, <1>5
<1>7. \A j \in DOMAIN jobs' : JobOK(jobs[j])' BY <1>1, <1>6 DEF JobOK
<1>8. /\ req' \in [Req -> Request]
      /\ \A p \in Req : SlotOK(req[p])'
      /\ OnePayer'
  BY <1>1, SlotsStay, SameTables
<1> QED BY <1>1, <1>5, <1>7, <1>8 DEF IInv, TypeOK, CompletedWasReceived

\* Steps of a job that leave the invoice and the transactions.
LEMMA QuietJobStep ==
  ASSUME IInv, NEW j \in DOMAIN jobs,
         StartJob(j) \/ Acknowledge(j) \/ Interrupt(j)
  PROVE  IInv'
<1>1. UNCHANGED <<invoice, transactions, intents, req>> /\ Kept
  BY SameTables DEF StartJob, Read, Acknowledge, Interrupt
<1>2. jobs[j] \in Job /\ jobs[j].tries \in Nat /\ invoice \in Invoice
  BY Tables DEF IInv, TypeOK, Job
<1>3. interrupts' \in Nat
  BY DEF IInv, TypeOK, StartJob, Read, Acknowledge, Interrupt
<1>4. jobs' \in Seq(Job) /\ \A i \in DOMAIN jobs' : JobOK(jobs[i])'
  <2>1. CASE StartJob(j)
    <3> DEFINE step == IF Handled(jobs[j].t) THEN "acknowledge"
                       ELSE IF jobs[j].success THEN "complete" ELSE "fail"
    <3>1. /\ step \in Active
          /\ step = "complete" =>
               jobs[j].success /\ transactions[jobs[j].t].known
      BY DEF Active, Handled
    <3>2. PICK paid, total \in Int :
            Become(j, step, jobs[j].tries, paid, total)
      <4>1. invoice.paid \in Int /\ invoice.total \in Int
        BY <1>2 DEF Invoice
      <4>2. \/ Become(j, step, jobs[j].tries, invoice.paid, invoice.total)
            \/ Become(j, step, jobs[j].tries, 0, 0)
        BY <2>1 DEF StartJob, Read, Leave
      <4> QED BY <4>1, <4>2
    <3> HIDE DEF step
    <3> QED BY <1>1, <1>2, <3>1, <3>2, JobStep
  <2>2. CASE Acknowledge(j)
    <3>1. Become(j, "done", 0, 0, 0) BY <2>2 DEF Acknowledge, Leave
    <3>2. "done" \in Active \cup {"waiting", "done", "failed"}
          /\ "done" # "complete" /\ 0 \in Nat /\ 0 \in Int
      OBVIOUS
    <3> QED BY <1>1, <3>1, <3>2, JobStep, Zenon
  <2>3. CASE Interrupt(j)
    <3> DEFINE step == IF jobs[j].tries + 1 < Attempts
                       THEN "waiting" ELSE "failed"
    <3>1. /\ step \in Active \cup {"waiting", "done", "failed"}
          /\ step # "complete" /\ 0 \in Int
      OBVIOUS
    <3>2. Become(j, step, jobs[j].tries + 1, 0, 0)
      BY <2>3 DEF Interrupt, Leave
    <3> HIDE DEF step
    <3>3. jobs[j].tries + 1 \in Nat BY <1>2
    <3> QED BY <1>1, <3>1, <3>2, <3>3, JobStep
  <2> QED BY <2>1, <2>2, <2>3
<1>5. /\ req' \in [Req -> Request]
      /\ \A p \in Req : SlotOK(req[p])'
      /\ OnePayer'
  BY <1>1, SlotsStay
<1> QED BY <1>1, <1>3, <1>4, <1>5 DEF IInv, TypeOK, CompletedWasReceived

\* Steps of a job that write its transaction.
LEMMA WritingJobStep ==
  ASSUME IInv, NEW j \in DOMAIN jobs, MarkFailed(j) \/ Complete(j)
  PROVE  IInv'
<1>1. /\ jobs[j] \in Job /\ JobOK(jobs[j]) /\ jobs[j].tries \in Nat
      /\ invoice \in Invoice
  BY Tables DEF IInv, TypeOK, Job
<1>2. /\ UNCHANGED <<intents, req, interrupts>>
      /\ Become(j, "acknowledge", jobs[j].tries, 0, 0)
  BY DEF MarkFailed, Complete, Leave
<1>3. PICK status \in {"FAILED", "COMPLETED"} :
        /\ transactions' = [transactions EXCEPT ![jobs[j].t].status = status]
        /\ status = "COMPLETED" => jobs[j].step = "complete"
  BY DEF MarkFailed, Complete
<1>4. /\ transactions' \in Seq(Transaction)
      /\ DOMAIN transactions' = DOMAIN transactions
      /\ Kept /\ CompletedWasReceived'
  BY <1>1, <1>2, <1>3, Marked DEF JobOK
<1>5. jobs' \in Seq(Job) /\ \A i \in DOMAIN jobs' : JobOK(jobs[i])'
  BY <1>1, <1>2, <1>4, JobStep DEF Active
<1>6. /\ req' \in [Req -> Request]
      /\ \A p \in Req : SlotOK(req[p])'
      /\ OnePayer'
  BY <1>2, <1>4, SlotsStay
<1>7. invoice' \in Invoice
  <2>1. CASE MarkFailed(j) BY <1>1, <2>1 DEF MarkFailed
  <2>2. CASE Complete(j)
    <3> DEFINE paid == jobs[j].paid + transactions[jobs[j].t].amount
               due == jobs[j].total - paid
               balance == IF due < 0 THEN 0 ELSE due
               status0 == IF due <= 0 THEN "PAID" ELSE "PARTIALLY_PAID"
    <3>1. transactions[jobs[j].t] \in Transaction
      BY <1>1, Tables DEF IInv, JobOK
    <3>2. paid \in Int /\ due \in Int
      BY <1>1, <3>1 DEF Job, Transaction
    <3>3. balance \in Int /\ status0 \in {"PAID", "PARTIALLY_PAID"}
      <4> HIDE DEF due
      <4> QED BY <3>2
    <3>4. invoice' = [invoice EXCEPT !.paid = paid, !.balance = balance,
                                     !.status = status0]
      BY <2>2 DEF Complete
    <3> HIDE DEF paid, due, balance, status0
    <3> QED BY <1>1, <3>2, <3>3, <3>4 DEF Invoice
  <2> QED BY <2>1, <2>2
<1> QED BY <1>2, <1>4, <1>5, <1>6, <1>7 DEF IInv, TypeOK

LEMMA Step == IInv /\ [Next]_vars => IInv'
<1> SUFFICES ASSUME IInv, [Next]_vars PROVE IInv' OBVIOUS
<1>1. CASE UNCHANGED vars
  <2>1. UNCHANGED <<invoice, transactions, intents, jobs, req, interrupts>>
    BY <1>1 DEF vars
  <2>2. /\ req' \in [Req -> Request]
        /\ \A p \in Req : SlotOK(req[p])'
        /\ OnePayer'
    BY <2>1, SlotsStay, SameTables
  <2>3. jobs' \in Seq(Job) /\ \A j \in DOMAIN jobs' : JobOK(jobs[j])'
    BY <2>1, JobsStay, SameTables
  <2> QED BY <2>1, <2>2, <2>3 DEF IInv, TypeOK, CompletedWasReceived
<1>2. ASSUME NEW r \in Req,
             \/ StartPayment(r) \/ CreateTransaction(r) \/ CallMauzo(r)
             \/ SaveIntent(r) \/ LoseIntent(r) \/ FailTransaction(r)
             \/ StartAddFee(r) \/ CreateItem(r) \/ UpdateTotals(r) \/ Die(r)
      PROVE  IInv'
  BY <1>2, RequestStep, CreateTransactionStep, CallMauzoStep, SaveIntentStep,
     FailTransactionStep
<1>3. ASSUME NEW remove \in BOOLEAN, NEW add \in BOOLEAN,
             Reschedule(remove, add)
      PROVE  IInv'
  BY <1>3, RescheduleStep
<1>4. ASSUME NEW t \in DOMAIN intents,
             Settle(t) \/ \E success \in BOOLEAN : Report(t, success)
      PROVE  IInv'
  BY <1>4, SettleStep, ReportStep
<1>5. ASSUME NEW j \in DOMAIN jobs, Work(j) \/ Interrupt(j) PROVE IInv'
  BY <1>5, QuietJobStep, WritingJobStep DEF Work
<1> QED BY <1>1, <1>2, <1>3, <1>4, <1>5 DEF Next

LEMMA Invariant == Spec => []IInv
BY InitIInv, Step, PTL DEF Spec

-----------------------------------------------------------------------------
(* The theorems *)

\* Invoice, transactions, intents, jobs and requests keep their types.
THEOREM TypeCorrect == Spec => []TypeOK
<1>1. IInv => TypeOK BY DEF IInv
<1> QED BY <1>1, Invariant, PTL

\* handlePaymentCallback against every payment, fee and other job: a completed
\* transaction is known to Mauzo, which has collected its money.
THEOREM OnlyReceivedIsCompleted == Spec => []CompletedWasReceived
<1>1. IInv => CompletedWasReceived BY DEF IInv
<1> QED BY <1>1, Invariant, PTL

-----------------------------------------------------------------------------
(* Handlers that do not overlap.  One handler at most is in flight, so what it *)
(* has read is still so.                                                      *)

Alone ==
  /\ \A r, p \in Req : req[r] # Idle /\ req[p] # Idle => r = p
  /\ \A i, j \in ActiveJobs : i = j
  /\ ActiveJobs # {} => \A r \in Req : req[r] = Idle

Fresh ==
  /\ \A r \in Req : req[r].step \in {"item", "totals"} =>
       req[r].paid = invoice.paid /\ req[r].total = invoice.total
  /\ \A j \in DOMAIN jobs : jobs[j].step = "complete" =>
       jobs[j].paid = invoice.paid /\ jobs[j].total = invoice.total

SerialInv == Alone /\ Fresh /\ BalanceMirrors

OnlyRequest(r) == ActiveJobs = {} /\ \A p \in Req \ {r} : req[p] = Idle
OnlyJob(j) == ActiveJobs \subseteq {j} /\ \A r \in Req : req[r] = Idle

LEMMA StartsAlone ==
  ASSUME Serial, MayStart
  PROVE  /\ \A r \in Req : OnlyRequest(r)
         /\ \A j \in DOMAIN jobs : OnlyJob(j)
BY DEF MayStart, OnlyRequest, OnlyJob

LEMMA StaysAlone ==
  ASSUME Alone
  PROVE  /\ \A r \in Req : req[r] # Idle => OnlyRequest(r)
         /\ \A j \in ActiveJobs : OnlyJob(j)
BY DEF Alone, OnlyRequest, OnlyJob

\* Slot r moves while nothing else is in flight.
LEMMA AloneSlot ==
  ASSUME IInv, NEW r \in Req, OnlyRequest(r), NEW s,
         req' = [req EXCEPT ![r] = s], jobs' = jobs
  PROVE  /\ Alone' /\ ActiveJobs' = {}
         /\ req'[r] = s /\ \A p \in Req \ {r} : req'[p] = Idle
<1>1. req \in [Req -> Request] BY DEF IInv, TypeOK
<1>2. ActiveJobs' = {} BY DEF OnlyRequest, ActiveJobs
<1>3. req'[r] = s /\ \A p \in Req \ {r} : req'[p] = Idle
  BY <1>1 DEF OnlyRequest
<1> QED BY <1>2, <1>3 DEF Alone, Idle

\* Job j moves while nothing else is in flight.
LEMMA AloneJob ==
  ASSUME IInv, NEW j \in DOMAIN jobs, OnlyJob(j), NEW step, NEW tries,
         NEW paid, NEW total, Become(j, step, tries, paid, total), req' = req
  PROVE  /\ Alone' /\ \A r \in Req : req'[r] = Idle
         /\ DOMAIN jobs' = DOMAIN jobs
         /\ jobs'[j].step = step /\ jobs'[j].paid = paid
         /\ jobs'[j].total = total
         /\ \A i \in DOMAIN jobs \ {j} : jobs'[i].step \notin Active
<1>1. /\ DOMAIN jobs' = DOMAIN jobs
      /\ jobs'[j].step = step /\ jobs'[j].paid = paid /\ jobs'[j].total = total
      /\ \A i \in DOMAIN jobs \ {j} : jobs'[i] = jobs[i]
  BY DEF Become
<1>2. \A i \in DOMAIN jobs \ {j} : jobs'[i].step \notin Active
  BY <1>1 DEF OnlyJob, ActiveJobs
<1>3. ActiveJobs' \subseteq {j} BY <1>1, <1>2 DEF ActiveJobs
<1>4. \A r \in Req : req'[r] = Idle BY DEF OnlyJob
<1> QED BY <1>1, <1>2, <1>3, <1>4 DEF Alone

\* No handler is in flight, or only one that has read nothing of the invoice.
LEMMA FreshSlots ==
  ASSUME ActiveJobs = {}, \A r \in Req : req[r].step \notin {"item", "totals"}
  PROVE  Fresh
BY DEF Fresh, ActiveJobs, Active

\* Steps of a request that leave the invoice and end with nothing read of it.
LEMMA SerialPayment ==
  ASSUME Serial, IInv, SerialInv, NEW r \in Req,
         \/ StartPayment(r) \/ CreateTransaction(r) \/ CallMauzo(r)
         \/ SaveIntent(r) \/ LoseIntent(r) \/ FailTransaction(r) \/ Die(r)
  PROVE  SerialInv'
<1>1. jobs' = jobs /\ invoice' = invoice
  BY DEF StartPayment, CreateTransaction, CallMauzo, SaveIntent, LoseIntent,
         FailTransaction, Die
<1>2. OnlyRequest(r)
  <2>1. CASE StartPayment(r) BY <2>1, StartsAlone DEF StartPayment
  <2>2. CASE ~StartPayment(r)
    <3>1. req[r] # Idle
      BY <2>2 DEF CreateTransaction, CallMauzo, SaveIntent, LoseIntent,
                  FailTransaction, Die, At, Idle
    <3> QED BY <3>1, StaysAlone DEF SerialInv
  <2> QED BY <2>1, <2>2
<1>3. PICK s : /\ req' = [req EXCEPT ![r] = s]
               /\ s.step \notin {"item", "totals"}
  <2>1. req[r] \in Request BY DEF IInv, TypeOK
  <2>2. CASE StartPayment(r)
    <3>1. PICK a : req' = [req EXCEPT ![r] =
                             [Idle EXCEPT !.step = "create", !.amount = a]]
      BY <2>2 DEF StartPayment
    <3>2. [Idle EXCEPT !.step = "create", !.amount = a].step = "create"
      BY DEF Idle
    <3> QED BY <3>1, <3>2
  <2>3. CASE CreateTransaction(r)
    <3> DEFINE s == [Idle EXCEPT !.step = "call",
                                 !.t = Len(transactions) + 1]
    <3>1. s.step = "call" BY DEF Idle
    <3>2. req' = [req EXCEPT ![r] = s] BY <2>3 DEF CreateTransaction
    <3> QED BY <3>1, <3>2
  <2>4. CASE CallMauzo(r) \/ LoseIntent(r)
    <3> DEFINE s(step) == [req[r] EXCEPT !.step = step]
    <3>1. \A step : s(step).step = step BY <2>1 DEF Request
    <3>2. req' = [req EXCEPT ![r] = s("save")]
          \/ req' = [req EXCEPT ![r] = s("fail")]
      BY <2>4 DEF CallMauzo, LoseIntent, Goto
    <3> HIDE DEF s
    <3> QED BY <3>1, <3>2
  <2>5. CASE SaveIntent(r) \/ FailTransaction(r) \/ Die(r)
    BY <2>5 DEF SaveIntent, FailTransaction, Die, Done, Idle
  <2> QED BY <2>2, <2>3, <2>4, <2>5
<1>4. /\ Alone' /\ ActiveJobs' = {}
      /\ \A p \in Req : req'[p].step \notin {"item", "totals"}
  <2>1. /\ Alone' /\ ActiveJobs' = {}
        /\ req'[r] = s /\ \A p \in Req \ {r} : req'[p] = Idle
    BY <1>1, <1>2, <1>3, AloneSlot
  <2> QED BY <1>3, <2>1 DEF Idle
<1>5. Fresh' BY <1>4 DEF Fresh, ActiveJobs, Active
<1> QED BY <1>1, <1>4, <1>5 DEF SerialInv, BalanceMirrors

LEMMA SerialFee ==
  ASSUME Serial, IInv, SerialInv, NEW r \in Req,
         StartAddFee(r) \/ CreateItem(r) \/ UpdateTotals(r)
  PROVE  SerialInv'
<1>1. jobs' = jobs
  BY DEF StartAddFee, CreateItem, UpdateTotals
<1>2. OnlyRequest(r)
  <2>1. CASE StartAddFee(r) BY <2>1, StartsAlone DEF StartAddFee
  <2>2. CASE CreateItem(r) \/ UpdateTotals(r)
    <3>1. req[r] # Idle BY <2>2 DEF CreateItem, UpdateTotals, At, Idle
    <3> QED BY <3>1, StaysAlone DEF SerialInv
  <2> QED BY <2>1, <2>2
<1>3. req[r] \in Request /\ invoice \in Invoice BY DEF IInv, TypeOK
<1>4. CASE StartAddFee(r) \/ CreateItem(r)
  <2>1. \E s : /\ req' = [req EXCEPT ![r] = s]
               /\ s.paid = invoice.paid /\ s.total = invoice.total
    <3>1. CASE StartAddFee(r)
      <4> DEFINE s == [Idle EXCEPT !.step = "item", !.paid = invoice.paid,
                                   !.total = invoice.total]
      <4>1. s.paid = invoice.paid /\ s.total = invoice.total
        BY IdleSlot DEF Request
      <4>2. req' = [req EXCEPT ![r] = s] BY <3>1 DEF StartAddFee
      <4> QED BY <4>1, <4>2
    <3>2. CASE CreateItem(r)
      <4> DEFINE s == [req[r] EXCEPT !.step = "totals"]
      <4>1. s.paid = req[r].paid /\ s.total = req[r].total
        BY <1>3 DEF Request
      <4>2. req' = [req EXCEPT ![r] = s] BY <3>2 DEF CreateItem, Goto
      <4>3. req[r].paid = invoice.paid /\ req[r].total = invoice.total
        BY <3>2 DEF CreateItem, At, SerialInv, Fresh
      <4> QED BY <4>1, <4>2, <4>3
    <3> QED BY <1>4, <3>1, <3>2
  <2>2. /\ invoice'.paid = invoice.paid /\ invoice'.total = invoice.total
        /\ invoice'.balance = invoice.balance
    BY <1>3, <1>4 DEF StartAddFee, CreateItem, Invoice
  <2>3. /\ Alone' /\ ActiveJobs' = {}
        /\ req'[r].paid = invoice.paid /\ req'[r].total = invoice.total
        /\ \A p \in Req \ {r} : req'[p] = Idle
    BY <1>1, <1>2, <2>1, AloneSlot
  <2>4. Fresh' BY <2>2, <2>3 DEF Fresh, ActiveJobs, Active, Idle
  <2> QED BY <2>2, <2>3, <2>4 DEF SerialInv, BalanceMirrors
<1>5. CASE UpdateTotals(r)
  <2>1. req' = [req EXCEPT ![r] = Idle] BY <1>5 DEF UpdateTotals, Done
  <2>2. Alone' /\ ActiveJobs' = {} /\ \A p \in Req : req'[p] = Idle
    BY <1>1, <1>2, <2>1, AloneSlot
  <2>3. Fresh' BY <2>2 DEF Fresh, ActiveJobs, Active, Idle
  <2>4. req[r].paid = invoice.paid
    BY <1>5 DEF UpdateTotals, At, SerialInv, Fresh
  <2>5. /\ invoice'.total = req[r].total + Fee
        /\ invoice'.balance = req[r].total + Fee - req[r].paid
        /\ invoice'.paid = invoice.paid
    BY <1>3, <1>5 DEF UpdateTotals, Invoice
  <2>6. invoice'.balance = invoice'.total - invoice'.paid
    <3>1. req[r].total \in Int /\ Fee \in Int /\ invoice.paid \in Int
      BY <1>3, InvoiceAssumption DEF Request, Invoice, InvoiceAssumption
    <3> QED BY <2>4, <2>5, <3>1
  <2>7. BalanceMirrors' BY <2>6 DEF BalanceMirrors
  <2> QED BY <2>2, <2>3, <2>7 DEF SerialInv
<1> QED BY <1>4, <1>5

LEMMA SerialReschedule ==
  ASSUME Serial, IInv, SerialInv, NEW remove \in BOOLEAN, NEW add \in BOOLEAN,
         Reschedule(remove, add)
  PROVE  SerialInv'
<1>1. /\ MayStart /\ UNCHANGED <<jobs, req>> BY DEF Reschedule
<1>2. ActiveJobs' = {} /\ \A r \in Req : req'[r] = Idle
  BY <1>1 DEF MayStart, ActiveJobs
<1>3. Alone' /\ Fresh' BY <1>2 DEF Alone, Fresh, ActiveJobs, Active, Idle
<1>4. PICK fees, total : invoice' = [invoice EXCEPT
        !.fees = fees, !.total = total, !.balance = total - invoice.paid]
  BY DEF Reschedule
<1>5. invoice'.balance = invoice'.total - invoice'.paid
  <2>1. invoice \in Invoice BY DEF IInv, TypeOK
  <2> QED BY <1>4, <2>1 DEF Invoice
<1> QED BY <1>3, <1>5 DEF SerialInv, BalanceMirrors

LEMMA SerialMauzo ==
  ASSUME Serial, IInv, SerialInv, NEW t \in DOMAIN intents,
         Settle(t) \/ \E success \in BOOLEAN : Report(t, success)
  PROVE  SerialInv'
<1>1. UNCHANGED <<invoice, req>> BY DEF Settle, Report
<1> DEFINE Grown ==
      /\ DOMAIN jobs \subseteq DOMAIN jobs'
      /\ \A j \in DOMAIN jobs : jobs'[j] = jobs[j]
      /\ \A j \in DOMAIN jobs' \ DOMAIN jobs : jobs'[j].step = "waiting"
<1>2. Grown
  <2>1. CASE Settle(t) BY <2>1 DEF Settle
  <2>2. ASSUME NEW success \in BOOLEAN, Report(t, success) PROVE Grown
    <3> DEFINE row == [t |-> t, success |-> success, tries |-> 0, paid |-> 0,
                       total |-> 0, step |-> "waiting"]
    <3>2. jobs' = Append(jobs, row) /\ row.step = "waiting"
      BY <2>2 DEF Report
    <3> HIDE DEF row
    <3>3. jobs \in Seq(Job) BY DEF IInv, TypeOK
    <3>4. /\ DOMAIN jobs' = DOMAIN jobs \cup {Len(jobs) + 1}
          /\ \A j \in DOMAIN jobs : jobs'[j] = jobs[j]
          /\ jobs'[Len(jobs) + 1] = row
      BY <3>2, <3>3
    <3> QED BY <3>2, <3>4
  <2> QED BY <2>1, <2>2
<1>3. ActiveJobs' = ActiveJobs BY <1>2 DEF ActiveJobs, Active
<1>4. Alone' BY <1>1, <1>3 DEF SerialInv, Alone
<1>5. Fresh' BY <1>1, <1>2 DEF SerialInv, Fresh
<1> QED BY <1>1, <1>4, <1>5 DEF SerialInv, BalanceMirrors

LEMMA SerialJob ==
  ASSUME Serial, IInv, SerialInv, NEW j \in DOMAIN jobs,
         Work(j) \/ Interrupt(j)
  PROVE  SerialInv'
<1>1. req' = req /\ invoice \in Invoice
  BY DEF Work, StartJob, Read, MarkFailed, Complete, Acknowledge, Interrupt,
         IInv, TypeOK
<1>2. OnlyJob(j)
  <2>1. CASE StartJob(j) BY <2>1, StartsAlone DEF StartJob, Read
  <2>2. CASE ~StartJob(j)
    <3>1. j \in ActiveJobs
      BY <2>2 DEF Work, MarkFailed, Complete, Acknowledge, Interrupt,
                  ActiveJobs, Active
    <3> QED BY <3>1, StaysAlone DEF SerialInv
  <2> QED BY <2>1, <2>2
<1>3. PICK step, tries, paid, total :
        /\ Become(j, step, tries, paid, total)
        /\ step = "complete" =>
             invoice' = invoice /\ paid = invoice.paid /\ total = invoice.total
  <2>1. CASE StartJob(j)
    <3> DEFINE step == IF Handled(jobs[j].t) THEN "acknowledge"
                       ELSE IF jobs[j].success THEN "complete" ELSE "fail"
    <3>1. Read(j, step) BY <2>1 DEF StartJob
    <3> HIDE DEF step
    <3> QED BY <3>1 DEF Read, Leave
  <2>2. CASE ~StartJob(j)
    <3>1. \E tries : \/ Become(j, "acknowledge", tries, 0, 0)
                     \/ Become(j, "done", tries, 0, 0)
                     \/ Become(j, "waiting", tries, 0, 0)
                     \/ Become(j, "failed", tries, 0, 0)
      BY <2>2 DEF Work, MarkFailed, Complete, Acknowledge, Interrupt, Leave
    <3> QED BY <3>1
  <2> QED BY <2>1, <2>2
<1>4. /\ Alone' /\ \A r \in Req : req'[r] = Idle
      /\ DOMAIN jobs' = DOMAIN jobs
      /\ jobs'[j].step = step /\ jobs'[j].paid = paid /\ jobs'[j].total = total
      /\ \A i \in DOMAIN jobs \ {j} : jobs'[i].step \notin Active
  BY <1>1, <1>2, <1>3, AloneJob
<1>5. Fresh' BY <1>3, <1>4 DEF Fresh, Idle, Active
<1>6. BalanceMirrors'
  <2>1. CASE Complete(j)
    <3> DEFINE spent == jobs[j].paid + transactions[jobs[j].t].amount
               due == jobs[j].total - spent
               balance == IF due < 0 THEN 0 ELSE due
    <3>1. jobs[j].total = invoice.total
      BY <2>1 DEF Complete, SerialInv, Fresh
    <3>2. /\ invoice'.paid = spent /\ invoice'.total = invoice.total
          /\ invoice'.balance = balance
      BY <1>1, <2>1 DEF Complete, Invoice
    <3>3. spent \in Int /\ invoice.total \in Int
      <4>1. jobs[j] \in Job /\ transactions[jobs[j].t] \in Transaction
        BY Tables DEF IInv, JobOK
      <4> QED BY <1>1, <4>1 DEF Job, Transaction, Invoice
    <3>4. spent <= invoice.total => balance = invoice.total - spent
      <4> HIDE DEF spent
      <4> QED BY <3>1, <3>3
    <3> QED BY <3>2, <3>4 DEF BalanceMirrors
  <2>2. CASE ~Complete(j)
    <3>1. invoice' = invoice
      BY <2>2 DEF Work, StartJob, Read, MarkFailed, Acknowledge, Interrupt
    <3> QED BY <3>1 DEF SerialInv, BalanceMirrors
  <2> QED BY <2>1, <2>2
<1> QED BY <1>4, <1>5, <1>6 DEF SerialInv

LEMMA SerialStep ==
  ASSUME Serial PROVE IInv /\ SerialInv /\ [Next]_vars => SerialInv'
<1> SUFFICES ASSUME IInv, SerialInv, [Next]_vars PROVE SerialInv' OBVIOUS
<1>1. CASE UNCHANGED vars
  BY <1>1 DEF vars, SerialInv, Alone, Fresh, BalanceMirrors, ActiveJobs
<1>2. ASSUME NEW r \in Req,
             \/ StartPayment(r) \/ CreateTransaction(r) \/ CallMauzo(r)
             \/ SaveIntent(r) \/ LoseIntent(r) \/ FailTransaction(r)
             \/ StartAddFee(r) \/ CreateItem(r) \/ UpdateTotals(r) \/ Die(r)
      PROVE  SerialInv'
  BY <1>2, SerialPayment, SerialFee
<1>3. ASSUME NEW remove \in BOOLEAN, NEW add \in BOOLEAN,
             Reschedule(remove, add)
      PROVE  SerialInv'
  BY <1>3, SerialReschedule
<1>4. ASSUME NEW t \in DOMAIN intents,
             Settle(t) \/ \E success \in BOOLEAN : Report(t, success)
      PROVE  SerialInv'
  BY <1>4, SerialMauzo
<1>5. ASSUME NEW j \in DOMAIN jobs, Work(j) \/ Interrupt(j) PROVE SerialInv'
  BY <1>5, SerialJob
<1> QED BY <1>1, <1>2, <1>3, <1>4, <1>5 DEF Next

LEMMA SerialInit == Init => SerialInv
<1> SUFFICES ASSUME Init PROVE SerialInv OBVIOUS
<1>1. jobs = <<>> /\ \A r \in Req : req[r] = Idle BY DEF Init
<1>2. invoice.paid = 0 /\ invoice.balance = invoice.total /\ invoice.total \in Int
  BY InvoiceAssumption DEF Init, InvoiceAssumption
<1>3. Alone /\ Fresh BY <1>1 DEF Alone, Fresh, ActiveJobs, Idle
<1>4. BalanceMirrors BY <1>2 DEF BalanceMirrors
<1> QED BY <1>3, <1>4 DEF SerialInv

\* addItem, removeDeliveryFees and handlePaymentCallback, when no two of them
\* overlap: whatever dies, raises or is repeated, and for any fee and price,
\* the balance mirrors the total and what was paid.
THEOREM BalanceStaysRight ==
  ASSUME Serial PROVE Spec => []BalanceMirrors
<1>1. SerialInv => BalanceMirrors BY DEF SerialInv
<1> QED BY <1>1, Invariant, SerialInit, SerialStep, PTL DEF Spec

-----------------------------------------------------------------------------
(* Sums *)

\* A set of numbers that is not empty has a least one.
LEMMA LeastNumber ==
  ASSUME NEW S \in SUBSET Nat, S # {} PROVE \E m \in S : \A i \in S : m <= i
<1>1. \E x \in S : \A y \in S : <<y, x>> \notin OpToRel(<, Nat)
  BY NatLessThanWellFounded, WFMin
<1>2. PICK x \in S : \A y \in S : ~(y < x) BY <1>1 DEF OpToRel
<1>3. \A y \in S : y \in Nat /\ x \in Nat OBVIOUS
<1> QED BY <1>2, <1>3

\* f holds the sums of the first numbers of s, up to the k-th.
Sums(f, s, k) ==
  /\ f = [n \in 0 .. k |-> f[n]]
  /\ f[0] = 0
  /\ \A n \in 1 .. k : f[n] = f[n - 1] + s[n]

LEMMA SumsExist ==
  ASSUME NEW s, NEW N \in Nat
  PROVE  \E f : Sums(f, s, N)
<1> DEFINE Bad == {k \in Nat : ~\E f : Sums(f, s, k)}
<1> SUFFICES ASSUME Bad # {} PROVE FALSE OBVIOUS
<1>1. PICK k \in Bad : \A i \in Bad : k <= i
  <2>1. Bad \in SUBSET Nat OBVIOUS
  <2> HIDE DEF Bad
  <2> QED BY <2>1, LeastNumber
<1>2. CASE k = 0
  <2> DEFINE f == [n \in 0 .. 0 |-> 0]
  <2>1. Sums(f, s, 0) BY DEF Sums
  <2> QED BY <1>1, <1>2, <2>1
<1>3. CASE k # 0
  <2>1. k \in Nat /\ k - 1 \in Nat /\ ~(k <= k - 1) BY <1>3
  <2>2. PICK g : Sums(g, s, k - 1) BY <1>1, <2>1
  <2> DEFINE f == [n \in 0 .. k |-> IF n = k THEN g[k - 1] + s[k] ELSE g[n]]
  <2>3. \A n \in 0 .. k : f[n] = IF n = k THEN g[k - 1] + s[k] ELSE g[n] OBVIOUS
  <2>4. f = [n \in 0 .. k |-> f[n]] OBVIOUS
  <2> HIDE DEF f
  <2>5. f[0] = 0 BY <1>3, <2>1, <2>2, <2>3 DEF Sums
  <2>6. ASSUME NEW n \in 1 .. k PROVE f[n] = f[n - 1] + s[n]
    <3>1. n - 1 \in 0 .. k /\ n - 1 # k /\ n \in 0 .. k BY <2>1
    <3>2. f[n - 1] = g[n - 1] BY <2>3, <3>1
    <3>3. CASE n = k BY <2>3, <3>1, <3>2, <3>3
    <3>4. CASE n # k
      <4>1. n \in 1 .. k - 1 BY <2>1, <3>4
      <4> QED BY <2>2, <2>3, <3>1, <3>2, <3>4, <4>1 DEF Sums
    <3> QED BY <3>3, <3>4
  <2> QED BY <1>1, <2>4, <2>5, <2>6 DEF Sums
<1> QED BY <1>2, <1>3

\* SumOf goes through such a function.
LEMMA SumIsLast ==
  ASSUME NEW s \in Seq(Int)
  PROVE  \E f : Sums(f, s, Len(s)) /\ SumOf(s) = f[Len(s)]
<1> DEFINE N == Len(s)
           Is(f) == f = [n \in 0 .. N |-> IF n = 0 THEN 0 ELSE f[n - 1] + s[n]]
           f == CHOOSE f : Is(f)
<1>1. N \in Nat OBVIOUS
<1>2. PICK g : Sums(g, s, N) BY <1>1, SumsExist
<1>3. Is(g)
  <2>1. \A n \in 0 .. N : g[n] = IF n = 0 THEN 0 ELSE g[n - 1] + s[n]
    <3> TAKE n \in 0 .. N
    <3>1. n # 0 => n \in 1 .. N BY <1>1
    <3> QED BY <1>2, <3>1 DEF Sums
  <2> DEFINE h == [n \in 0 .. N |-> IF n = 0 THEN 0 ELSE g[n - 1] + s[n]]
  <2>2. h = [n \in 0 .. N |-> g[n]] BY <2>1
  <2> QED BY <1>2, <2>2 DEF Sums
<1>4. Is(f) BY <1>3
<1>5. SumOf(s) = f[N] BY DEF SumOf
<1> HIDE DEF f
<1>6. Sums(f, s, N)
  <2>0. 0 \in 0 .. N /\ \A n \in 1 .. N : n \in 0 .. N /\ n # 0 BY <1>1
  <2>1. \A n \in 0 .. N : f[n] = IF n = 0 THEN 0 ELSE f[n - 1] + s[n] BY <1>4
  <2>2. f = [n \in 0 .. N |-> f[n]] BY <1>4
  <2> HIDE DEF N
  <2> QED BY <2>0, <2>1, <2>2 DEF Sums
<1> QED BY <1>5, <1>6

\* The first k numbers of s and of u are the same but for the t-th, which differs by d.
DifferAt(s, u, k, t, d) ==
  \A n \in 1 .. k : s[n] \in Int /\ u[n] = s[n] + (IF n = t THEN d ELSE 0)

\* So are the sums from there on.
LEMMA SumsDiffer ==
  ASSUME NEW N \in Nat, NEW s, NEW u, NEW f, NEW g, Sums(f, s, N), Sums(g, u, N),
         NEW t \in 1 .. N + 1, NEW d \in Int, DifferAt(s, u, N, t, d)
  PROVE  \A n \in 0 .. N : f[n] \in Int /\ g[n] = f[n] + (IF t <= n THEN d ELSE 0)
<1> DEFINE Good(n) == f[n] \in Int /\ g[n] = f[n] + (IF t <= n THEN d ELSE 0)
           Bad == {n \in 0 .. N : ~Good(n)}
<1> SUFFICES ASSUME Bad # {} PROVE FALSE OBVIOUS
<1>1. PICK k \in Bad : \A i \in Bad : k <= i
  <2>1. Bad \in SUBSET Nat OBVIOUS
  <2> HIDE DEF Bad
  <2> QED BY <2>1, LeastNumber
<1>2. CASE k = 0 BY <1>1, <1>2 DEF Sums
<1>3. CASE k # 0
  <2>1. k \in 1 .. N /\ k - 1 \in 0 .. N /\ ~(k <= k - 1) BY <1>1, <1>3
  <2>2. Good(k - 1) BY <1>1, <2>1
  <2>3. f[k] = f[k - 1] + s[k] /\ g[k] = g[k - 1] + u[k] BY <2>1 DEF Sums
  <2>4. u[k] = s[k] + (IF k = t THEN d ELSE 0) /\ s[k] \in Int BY <2>1 DEF DifferAt
  <2>5. f[k] \in Int BY <2>2, <2>3, <2>4
  <2>6. CASE k = t BY <2>1, <2>2, <2>3, <2>4, <2>5, <2>6, <1>1
  <2>7. CASE k # t
    <3>1. (t <= k) <=> (t <= k - 1) BY <2>1, <2>7
    <3> QED BY <2>1, <2>2, <2>3, <2>4, <2>5, <2>7, <3>1, <1>1
  <2> QED BY <2>6, <2>7
<1> QED BY <1>2, <1>3

\* What becomes of a sum when one number changes, and when a zero is added at the end.
LEMMA SumWithOneChanged ==
  ASSUME NEW s \in Seq(Int), NEW u \in Seq(Int), Len(u) = Len(s), NEW t \in DOMAIN s,
         \A n \in DOMAIN s : n # t => u[n] = s[n]
  PROVE  SumOf(s) \in Int /\ SumOf(u) = SumOf(s) + (u[t] - s[t])
<1>1. PICK N \in Nat : N = Len(s) OBVIOUS
<1>2. t \in 1 .. N /\ DOMAIN s = 1 .. N /\ \A n \in 1 .. N : s[n] \in Int /\ u[n] \in Int BY <1>1
<1>3. PICK d : d = u[t] - s[t] OBVIOUS
<1>4. d \in Int /\ u[t] = s[t] + d BY <1>2, <1>3
<1>5. DifferAt(s, u, N, t, d)
  <2>1. ASSUME NEW n \in 1 .. N, n # t PROVE u[n] = s[n] BY <1>2, <2>1
  <2> QED BY <1>2, <1>4, <2>1 DEF DifferAt
<1>6. PICK f : Sums(f, s, N) /\ SumOf(s) = f[N] BY <1>1, SumIsLast
<1>7. PICK g : Sums(g, u, N) /\ SumOf(u) = g[N] BY <1>1, SumIsLast
<1>8. t \in 1 .. N + 1 /\ t <= N /\ N \in 0 .. N BY <1>2
<1>9. \A n \in 0 .. N : f[n] \in Int /\ g[n] = f[n] + (IF t <= n THEN d ELSE 0)
  BY <1>4, <1>5, <1>6, <1>7, <1>8, SumsDiffer
<1> QED BY <1>3, <1>6, <1>7, <1>8, <1>9

LEMMA SumWithOneMore ==
  ASSUME NEW s \in Seq(Int), NEW x \in Int
  PROVE  SumOf(s) \in Int /\ SumOf(Append(s, x)) = SumOf(s) + x
<1>1. PICK N \in Nat : N = Len(s) OBVIOUS
<1>2. PICK u : u = Append(s, x) OBVIOUS
<1>3. /\ u \in Seq(Int) /\ Len(u) = N + 1 /\ u[N + 1] = x
      /\ \A n \in 1 .. N : u[n] = s[n] /\ s[n] \in Int
  BY <1>1, <1>2
<1>4. PICK f : Sums(f, s, N) /\ SumOf(s) = f[N] BY <1>1, SumIsLast
<1>5. PICK g : Sums(g, u, N + 1) /\ SumOf(u) = g[N + 1] BY <1>3, SumIsLast
<1>6. N \in 0 .. N /\ N + 1 \in 1 .. N + 1 /\ (N + 1) - 1 = N /\ ~(N + 1 <= N) OBVIOUS
<1>7. PICK h : h = [n \in 0 .. N |-> g[n]] OBVIOUS
<1>8. Sums(h, u, N)
  <2>1. \A n \in 0 .. N : h[n] = g[n] BY <1>7
  <2>2. h = [n \in 0 .. N |-> h[n]] BY <1>7
  <2>3. 0 \in 0 .. N /\ \A n \in 1 .. N : n \in 0 .. N /\ n - 1 \in 0 .. N /\ n \in 1 .. N + 1
    OBVIOUS
  <2> QED BY <1>5, <2>1, <2>2, <2>3 DEF Sums
<1>9. DifferAt(s, u, N, N + 1, 0) BY <1>3 DEF DifferAt
<1>10. \A n \in 0 .. N : f[n] \in Int /\ h[n] = f[n] + (IF N + 1 <= n THEN 0 ELSE 0)
  BY <1>4, <1>6, <1>8, <1>9, SumsDiffer
<1>11. f[N] \in Int /\ g[N] = f[N] BY <1>6, <1>7, <1>10
<1>12. g[N + 1] = g[N] + x BY <1>3, <1>5, <1>6 DEF Sums
<1> QED BY <1>2, <1>4, <1>5, <1>11, <1>12

-----------------------------------------------------------------------------
(* What was received *)

\* One amount for each transaction, and none above what the transaction is about.
AmountsFit ==
  /\ Amounts \in Seq(Int) /\ DOMAIN Amounts = DOMAIN transactions
  /\ Len(Amounts) = Len(transactions)
  /\ \A t \in DOMAIN transactions : /\ Amounts[t] = ReceivedOf(transactions[t])
                                    /\ Amounts[t] \in 0 .. transactions[t].amount
                                    /\ transactions[t].amount \in Nat

LEMMA AmountsAreNumbers == IInv => AmountsFit
<1> SUFFICES ASSUME IInv PROVE AmountsFit
  OBVIOUS
<1>1. /\ Len(transactions) \in Nat /\ DOMAIN transactions = 1 .. Len(transactions)
      /\ \A t \in DOMAIN transactions : transactions[t].amount \in Nat
  BY Tables DEF IInv, Transaction
<1>2. \A t \in DOMAIN transactions : ReceivedOf(transactions[t]) \in 0 .. transactions[t].amount
  BY <1>1 DEF ReceivedOf
<1>3. Amounts = [t \in 1 .. Len(transactions) |-> ReceivedOf(transactions[t])]
  BY <1>1 DEF Amounts
<1>4. \A t \in 1 .. Len(transactions) : ReceivedOf(transactions[t]) \in Int
  BY <1>1, <1>2
<1>5. Amounts \in Seq(Int) /\ Len(Amounts) = Len(transactions)
  BY <1>1, <1>3, <1>4, IsASeq
<1>6. DOMAIN Amounts = DOMAIN transactions
      /\ \A t \in DOMAIN transactions : Amounts[t] = ReceivedOf(transactions[t])
  BY DEF Amounts
<1> QED BY <1>1, <1>2, <1>5, <1>6 DEF AmountsFit

LEMMA ReceivedIsNumber == ASSUME IInv PROVE Received \in Int
<1>1. Amounts \in Seq(Int)
  BY AmountsAreNumbers DEF AmountsFit
<1>2. SumOf(Append(Amounts, 0)) = SumOf(Amounts) + 0 /\ SumOf(Amounts) \in Int
  BY <1>1, SumWithOneMore
<1> QED BY <1>2 DEF Received

\* One transaction changes.
LEMMA ReceivedWithOneChanged ==
  ASSUME IInv, IInv', NEW t \in DOMAIN transactions, DOMAIN transactions' = DOMAIN transactions,
         \A u \in DOMAIN transactions : u # t => transactions'[u] = transactions[u]
  PROVE  Received' = Received + (ReceivedOf(transactions'[t]) - ReceivedOf(transactions[t]))
<1>1. PICK s \in Seq(Int) : s = Amounts
  BY AmountsAreNumbers DEF AmountsFit
<1>2. AmountsFit /\ AmountsFit'
  <2>1. (IInv => AmountsFit)'
    BY AmountsAreNumbers, PTL
  <2> QED BY <2>1, AmountsAreNumbers
<1>3. PICK v \in Seq(Int) : v = Amounts'
  BY <1>2 DEF AmountsFit
<1>4. /\ DOMAIN s = DOMAIN transactions /\ t \in DOMAIN s /\ Len(s) = Len(transactions)
      /\ Len(v) = Len(transactions') /\ DOMAIN v = DOMAIN transactions'
      /\ \A u \in DOMAIN transactions : /\ s[u] = ReceivedOf(transactions[u])
                                        /\ v[u] = ReceivedOf(transactions'[u])
  BY <1>1, <1>2, <1>3 DEF AmountsFit
<1>5. Len(v) = Len(s)
  <2>1. 1 .. Len(v) = 1 .. Len(s) /\ Len(v) \in Nat /\ Len(s) \in Nat
    BY <1>4, LenProperties
  <2> QED BY <2>1, SameLength
<1>6. \A n \in DOMAIN s : n # t => v[n] = s[n]
  BY <1>4
<1>7. SumOf(v) = SumOf(s) + (v[t] - s[t])
  BY <1>4, <1>5, <1>6, SumWithOneChanged
<1> QED BY <1>1, <1>3, <1>4, <1>7 DEF Received

LEMMA ReceivedStays ==
  ASSUME IInv, UNCHANGED transactions PROVE Received' = Received
  BY DEF Received, Amounts

\* A transaction that is not completed comes.
LEMMA ReceivedWithOneMore ==
  ASSUME IInv, IInv', NEW row, row.status # "COMPLETED", row \in Transaction,
         transactions' = Append(transactions, row)
  PROVE  Received' = Received
<1>1. PICK s \in Seq(Int) : s = Amounts
  BY AmountsAreNumbers DEF AmountsFit
<1>2. AmountsFit /\ AmountsFit'
  <2>1. (IInv => AmountsFit)'
    BY AmountsAreNumbers, PTL
  <2> QED BY <2>1, AmountsAreNumbers
<1>3. PICK v \in Seq(Int) : v = Amounts'
  BY <1>2 DEF AmountsFit
<1>4. transactions \in Seq(Transaction)
  BY DEF IInv, TypeOK
<1>5. /\ DOMAIN transactions' = DOMAIN transactions \cup {Len(transactions) + 1}
      /\ \A i \in DOMAIN transactions : transactions'[i] = transactions[i]
      /\ transactions'[Len(transactions) + 1] = row
  BY <1>4, AppendRows
<1>6. /\ DOMAIN s = DOMAIN transactions /\ Len(s) = Len(transactions)
      /\ \A i \in DOMAIN transactions : s[i] = ReceivedOf(transactions[i])
      /\ DOMAIN v = DOMAIN transactions'
      /\ \A i \in DOMAIN transactions' : v[i] = ReceivedOf(transactions'[i])
  BY <1>1, <1>2, <1>3 DEF AmountsFit
<1>7. ReceivedOf(row) = 0
  BY DEF ReceivedOf
<1>8. /\ DOMAIN v = DOMAIN s \cup {Len(s) + 1}
      /\ \A i \in DOMAIN s : v[i] = s[i]
      /\ v[Len(s) + 1] = 0
  BY <1>5, <1>6, <1>7
<1>9. v = Append(s, 0)
  BY <1>8, AppendedRow
<1>10. SumOf(v) = SumOf(s) + 0 /\ SumOf(s) \in Int
  BY <1>9, SumWithOneMore
<1> QED BY <1>1, <1>3, <1>10 DEF Received

-----------------------------------------------------------------------------
(* Money.  Invoice, transactions and reports agree about it.               *)

\* The transaction of a payment under way is not stored as known yet.
PayersUnknown == \A r \in Req : Paying(req[r]) => ~transactions[req[r].t].known

\* What a job has found not completed is still not.
ReadStands ==
  \A j \in DOMAIN jobs :
    jobs[j].step \in {"complete", "fail"} => transactions[jobs[j].t].status # "COMPLETED"

MoneyInv == PayersUnknown /\ ReadStands /\ PaidIsReceived

\* All reports are of success, and none of those is taken for a failure.
OnlySuccess == \A j \in DOMAIN jobs : jobs[j].success /\ jobs[j].step # "fail"

\* What a job has read as paid leaves out its own payment, even when another job has
\* completed that meanwhile.
NothingTwice ==
  \A j \in DOMAIN jobs : jobs[j].step = "complete" =>
    jobs[j].paid + ReceivedOf(transactions[jobs[j].t]) <= Received

OverlapInv == PayersUnknown /\ OnlySuccess /\ NothingTwice /\ NeverOvercounted

\* No transaction is completed, or ceases to be.
NoneCompleted ==
  \A t \in DOMAIN transactions :
    /\ t \in DOMAIN transactions'
    /\ ReceivedOf(transactions'[t]) = ReceivedOf(transactions[t])
    /\ transactions'[t].status = "COMPLETED" <=> transactions[t].status = "COMPLETED"

\* A transaction that is not completed becomes another that is not.
LEMMA StillNotReceived ==
  ASSUME IInv, IInv', NEW t \in DOMAIN transactions, DOMAIN transactions' = DOMAIN transactions,
         \A u \in DOMAIN transactions : u # t => transactions'[u] = transactions[u],
         transactions[t].status # "COMPLETED", transactions'[t].status # "COMPLETED"
  PROVE  Received' = Received /\ NoneCompleted
<1>1. ReceivedOf(transactions[t]) = 0 /\ ReceivedOf(transactions'[t]) = 0
  BY DEF ReceivedOf
<1>2. Received' = Received
  BY <1>1, ReceivedWithOneChanged, ReceivedIsNumber
<1> QED BY <1>1, <1>2 DEF NoneCompleted

\* Requests receive nothing.
LEMMA RequestReceivesNothing ==
  ASSUME IInv, IInv', PayersUnknown, NEW r \in Req,
         \/ StartPayment(r) \/ CreateTransaction(r) \/ CallMauzo(r)
         \/ SaveIntent(r) \/ LoseIntent(r) \/ FailTransaction(r)
         \/ StartAddFee(r) \/ CreateItem(r) \/ UpdateTotals(r) \/ Die(r)
  PROVE  /\ Received' = Received /\ NoneCompleted /\ PayersUnknown'
         /\ jobs' = jobs /\ invoice'.paid = invoice.paid
<1>0. invoice \in Invoice /\ req[r] \in Request /\ req \in [Req -> Request]
  BY DEF IInv, TypeOK
<1>1. jobs' = jobs /\ invoice'.paid = invoice.paid
  BY <1>0 DEF StartPayment, CreateTransaction, CallMauzo, SaveIntent, LoseIntent, FailTransaction,
              StartAddFee, CreateItem, UpdateTotals, Die, Invoice
<1>2. PICK s : req' = [req EXCEPT ![r] = s]
  BY DEF StartPayment, CreateTransaction, CallMauzo, SaveIntent, LoseIntent, FailTransaction,
         StartAddFee, CreateItem, UpdateTotals, Die, Goto, Done
<1>3. req'[r] = s /\ \A p \in Req \ {r} : req'[p] = req[p]
  BY <1>0, <1>2
<1>4. CASE CreateTransaction(r)
  <2>1. PICK row : row = [amount |-> req[r].amount, known |-> FALSE, status |-> "PENDING"]
    OBVIOUS
  <2>2. transactions' = Append(transactions, row)
    BY <1>4, <2>1 DEF CreateTransaction
  <2>3. row \in Transaction /\ row.status = "PENDING" /\ row.known = FALSE
    BY <1>0, <2>1 DEF Request, Transaction
  <2>4. transactions \in Seq(Transaction)
    BY DEF IInv, TypeOK
  <2>5. /\ \A i \in DOMAIN transactions : transactions'[i] = transactions[i]
        /\ DOMAIN transactions' = DOMAIN transactions \cup {Len(transactions) + 1}
        /\ transactions'[Len(transactions) + 1] = row
    BY <2>2, <2>3, <2>4, AppendRows
  <2>6. Received' = Received
    BY <2>2, <2>3, ReceivedWithOneMore
  <2>7. NoneCompleted
    BY <2>5 DEF NoneCompleted
  <2>8. s.t = Len(transactions) + 1
    <3>1. req'[r] = [Idle EXCEPT !.step = "call", !.t = Len(transactions) + 1]
      BY <1>0, <1>4 DEF CreateTransaction
    <3>2. [Idle EXCEPT !.step = "call", !.t = Len(transactions) + 1].t = Len(transactions) + 1
      BY DEF Idle
    <3> QED BY <1>3, <3>1, <3>2
  <2>9. \A p \in Req \ {r} : Paying(req[p]) => req[p].t \in DOMAIN transactions
    BY DEF IInv, SlotOK
  <2>10. PayersUnknown'
    <3> SUFFICES ASSUME NEW p \in Req, Paying(req'[p]) PROVE ~transactions'[req'[p].t].known
      BY DEF PayersUnknown, Paying
    <3>1. CASE p = r
      BY <1>3, <2>3, <2>5, <2>8, <3>1
    <3>2. CASE p # r
      BY <1>3, <2>5, <2>9, <3>2 DEF PayersUnknown
    <3> QED BY <3>1, <3>2
  <2> QED BY <1>1, <2>6, <2>7, <2>10
<1>5. CASE SaveIntent(r) \/ FailTransaction(r)
  <2>1. Paying(req[r]) /\ s = Idle
    <3>1. req'[r] = Idle
      BY <1>0, <1>5 DEF SaveIntent, FailTransaction, Done
    <3> QED BY <1>3, <1>5, <3>1 DEF SaveIntent, FailTransaction, At, Paying
  <2>2. PICK t \in DOMAIN transactions : t = req[r].t
    BY <2>1 DEF IInv, SlotOK
  <2>3. transactions[t] \in Transaction /\ transactions[t].status # "COMPLETED"
    BY <2>1, <2>2, Tables DEF IInv, PayersUnknown, CompletedWasReceived
  <2>4. PICK row : transactions' = [transactions EXCEPT ![t] = row] /\ row.status # "COMPLETED"
    <3>1. CASE SaveIntent(r)
      <4>1. PICK row : row = [amount |-> transactions[t].amount, known |-> TRUE,
                              status |-> "PROCESSING"]
        OBVIOUS
      <4>2. row.status = "PROCESSING"
        BY <4>1
      <4>3. transactions' = [transactions EXCEPT ![t] = row]
        BY <2>2, <3>1, <4>1 DEF SaveIntent
      <4> QED BY <4>2, <4>3
    <3>2. CASE FailTransaction(r)
      <4>1. PICK row : row = [transactions[t] EXCEPT !.status = "FAILED"]
        OBVIOUS
      <4>2. row.status = "FAILED"
        BY <2>3, <4>1 DEF Transaction
      <4>3. transactions' = [transactions EXCEPT ![t] = row]
        BY <2>2, <3>2, <4>1 DEF FailTransaction
      <4> QED BY <4>2, <4>3
    <3> QED BY <1>5, <3>1, <3>2
  <2>5. /\ DOMAIN transactions' = DOMAIN transactions
        /\ \A u \in DOMAIN transactions : u # t => transactions'[u] = transactions[u]
        /\ transactions'[t].status # "COMPLETED"
    BY <2>4
  <2>6. Received' = Received /\ NoneCompleted
    BY <2>3, <2>5, StillNotReceived
  <2>7. PayersUnknown'
    <3> SUFFICES ASSUME NEW p \in Req, Paying(req'[p]) PROVE ~transactions'[req'[p].t].known
      BY DEF PayersUnknown, Paying
    <3>1. p # r
      BY <1>3, <2>1, IdleSlot
    <3>2. req'[p] = req[p] /\ Paying(req[p])
      BY <1>3, <3>1
    <3>3. req[p].t # t /\ req[p].t \in DOMAIN transactions
      BY <2>1, <2>2, <3>1, <3>2, OtherPayers
    <3> QED BY <2>5, <3>2, <3>3 DEF PayersUnknown
  <2> QED BY <1>1, <2>6, <2>7
<1>6. CASE ~(CreateTransaction(r) \/ SaveIntent(r) \/ FailTransaction(r))
  <2>1. UNCHANGED transactions
    BY <1>6 DEF StartPayment, CallMauzo, LoseIntent, StartAddFee, CreateItem, UpdateTotals, Die
  <2>2. Paying(s) => Paying(req[r]) /\ s.t = req[r].t
    <3>1. CASE StartPayment(r)
      <4>1. PICK a : s = [Idle EXCEPT !.step = "create", !.amount = a]
        BY <1>0, <1>3, <3>1 DEF StartPayment
      <4>2. s.step = "create"
        BY <4>1 DEF Idle
      <4> QED BY <4>2 DEF Paying
    <3>2. CASE CallMauzo(r) \/ LoseIntent(r)
      <4>1. PICK step : s = [req[r] EXCEPT !.step = step]
        BY <1>0, <1>3, <3>2 DEF CallMauzo, LoseIntent, Goto
      <4>2. s.t = req[r].t
        BY <1>0, <4>1 DEF Request
      <4> QED BY <3>2, <4>2 DEF CallMauzo, LoseIntent, At, Paying
    <3>3. CASE StartAddFee(r)
      <4>1. s = [Idle EXCEPT !.step = "item", !.paid = invoice.paid, !.total = invoice.total]
        BY <1>0, <1>3, <3>3 DEF StartAddFee
      <4>2. s.step = "item"
        BY <4>1 DEF Idle
      <4> QED BY <4>2 DEF Paying
    <3>4. CASE CreateItem(r)
      <4>1. s = [req[r] EXCEPT !.step = "totals"]
        BY <1>0, <1>3, <3>4 DEF CreateItem, Goto
      <4>2. s.step = "totals"
        BY <1>0, <4>1 DEF Request
      <4> QED BY <4>2 DEF Paying
    <3>5. CASE UpdateTotals(r) \/ Die(r)
      BY <1>0, <1>3, <3>5, IdleSlot DEF UpdateTotals, Die, Done
    <3> QED BY <1>6, <3>1, <3>2, <3>3, <3>4, <3>5
  <2>3. PayersUnknown'
    BY <1>3, <2>1, <2>2 DEF PayersUnknown, Paying
  <2>4. Received' = Received /\ NoneCompleted
    BY <2>1, ReceivedStays DEF NoneCompleted
  <2> QED BY <1>1, <2>3, <2>4
<1> QED BY <1>4, <1>5, <1>6

\* What a job's step does to the table of jobs.
LEMMA JobRow ==
  ASSUME IInv, NEW j \in DOMAIN jobs, NEW step, NEW tries, NEW paid, NEW total,
         Become(j, step, tries, paid, total)
  PROVE  /\ DOMAIN jobs' = DOMAIN jobs
         /\ \A i \in DOMAIN jobs : i # j => jobs'[i] = jobs[i]
         /\ jobs'[j].t = jobs[j].t /\ jobs'[j].success = jobs[j].success
         /\ jobs'[j].step = step /\ jobs'[j].paid = paid
<1>1. PICK row : row = [t |-> jobs[j].t, success |-> jobs[j].success, tries |-> tries,
                        paid |-> paid, total |-> total, step |-> step]
  OBVIOUS
<1>2. row.t = jobs[j].t /\ row.success = jobs[j].success /\ row.step = step /\ row.paid = paid
  BY <1>1
<1>3. jobs' = [jobs EXCEPT ![j] = row]
  BY <1>1 DEF Become
<1> QED BY <1>2, <1>3

\* A job's step that takes up the report finds the transaction not completed, and has read the
\* invoice if it is going to complete it.
LEMMA StartedJob ==
  ASSUME IInv, NEW j \in DOMAIN jobs, StartJob(j)
  PROVE  /\ \E step, paid, total :
              /\ Become(j, step, jobs[j].tries, paid, total)
              /\ step \in {"complete", "fail"} => transactions[jobs[j].t].status # "COMPLETED"
              /\ step = "complete" => paid = invoice.paid
              /\ step = "fail" => ~jobs[j].success
         /\ UNCHANGED <<invoice, transactions, intents, req>>
<1>1. UNCHANGED <<invoice, transactions, intents, req>>
  BY DEF StartJob, Read
<1>2. CASE Handled(jobs[j].t)
  <2>1. Become(j, "acknowledge", jobs[j].tries, 0, 0)
    BY <1>2 DEF StartJob, Read, Leave
  <2> QED BY <1>1, <2>1
<1>3. CASE ~Handled(jobs[j].t)
  <2>1. transactions[jobs[j].t].status # "COMPLETED"
    BY <1>3 DEF Handled
  <2>2. CASE jobs[j].success
    <3>1. Become(j, "complete", jobs[j].tries, invoice.paid, invoice.total)
      BY <1>3, <2>2 DEF StartJob, Read
    <3> QED BY <1>1, <2>1, <3>1
  <2>3. CASE ~jobs[j].success
    <3>1. Become(j, "fail", jobs[j].tries, 0, 0)
      BY <1>3, <2>3 DEF StartJob, Read, Leave
    <3> QED BY <1>1, <2>1, <2>3, <3>1
  <2> QED BY <2>2, <2>3
<1> QED BY <1>2, <1>3

\* A job's step that is over with the report.
LEMMA FinishedJob ==
  ASSUME IInv, NEW j \in DOMAIN jobs, Acknowledge(j) \/ Interrupt(j)
  PROVE  /\ \E step, tries : /\ Become(j, step, tries, 0, 0)
                             /\ step \in {"done", "waiting", "failed"}
         /\ UNCHANGED <<invoice, transactions, intents, req>>
<1>1. UNCHANGED <<invoice, transactions, intents, req>>
  BY DEF Acknowledge, Interrupt
<1>2. CASE Acknowledge(j)
  <2>1. Become(j, "done", 0, 0, 0)
    BY <1>2 DEF Acknowledge, Leave
  <2> QED BY <1>1, <2>1
<1>3. CASE Interrupt(j)
  <2>1. \/ Become(j, "waiting", jobs[j].tries + 1, 0, 0)
        \/ Become(j, "failed", jobs[j].tries + 1, 0, 0)
    BY <1>3 DEF Interrupt, Leave
  <2> QED BY <1>1, <2>1
<1> QED BY <1>2, <1>3

\* A completion adds the payment to what the job has read.
LEMMA CompletionReceives ==
  ASSUME IInv, IInv', NEW j \in DOMAIN jobs, Complete(j), NEW t, t = jobs[j].t,
         NEW amount, amount = transactions[t].amount
  PROVE  /\ t \in DOMAIN transactions /\ amount \in Nat
         /\ Received' = Received + (amount - ReceivedOf(transactions[t]))
         /\ ReceivedOf(transactions'[t]) = amount
         /\ ReceivedOf(transactions[t]) \in {0, amount}
         /\ DOMAIN transactions' = DOMAIN transactions
         /\ \A u \in DOMAIN transactions : u # t => transactions'[u] = transactions[u]
         /\ \A u \in DOMAIN transactions : transactions'[u].known = transactions[u].known
         /\ invoice'.paid = jobs[j].paid + amount
<1>1. t \in DOMAIN transactions /\ transactions[t] \in Transaction /\ invoice \in Invoice
  BY Tables DEF IInv, TypeOK, JobOK
<1>2. PICK row : row = [transactions[t] EXCEPT !.status = "COMPLETED"]
  OBVIOUS
<1>3. /\ row.status = "COMPLETED" /\ row.amount = amount /\ row.known = transactions[t].known
      /\ amount \in Nat
  BY <1>1, <1>2 DEF Transaction
<1>4. transactions' = [transactions EXCEPT ![t] = row]
  BY <1>2 DEF Complete
<1>5. /\ DOMAIN transactions' = DOMAIN transactions
      /\ transactions'[t] = row
      /\ \A u \in DOMAIN transactions : u # t => transactions'[u] = transactions[u]
  BY <1>1, <1>4
<1>6. ReceivedOf(transactions'[t]) = amount /\ ReceivedOf(transactions[t]) \in {0, amount}
  BY <1>3, <1>5 DEF ReceivedOf
<1>7. Received' = Received + (amount - ReceivedOf(transactions[t]))
  BY <1>1, <1>5, <1>6, ReceivedWithOneChanged
<1>8. invoice'.paid = jobs[j].paid + amount
  BY <1>1 DEF Complete, Invoice
<1> QED BY <1>1, <1>3, <1>5, <1>6, <1>7, <1>8

LEMMA PayersStayUnknown ==
  ASSUME IInv, PayersUnknown, req' = req,
         \A t \in DOMAIN transactions : transactions'[t].known = transactions[t].known
  PROVE  PayersUnknown'
  BY DEF IInv, SlotOK, PayersUnknown, Paying

\* A report is a job more.
LEMMA ReportedJob ==
  ASSUME IInv, NEW t, NEW success, Report(t, success)
  PROVE  /\ DOMAIN jobs' = DOMAIN jobs \cup {Len(jobs) + 1} /\ Len(jobs) + 1 \notin DOMAIN jobs
         /\ \A j \in DOMAIN jobs : jobs'[j] = jobs[j]
         /\ jobs'[Len(jobs) + 1].step = "waiting" /\ jobs'[Len(jobs) + 1].success = success
         /\ UNCHANGED <<invoice, transactions, intents, req>>
         /\ success \/ OtherEvents
<1>1. PICK row : row = [t |-> t, success |-> success, tries |-> 0, paid |-> 0, total |-> 0,
                        step |-> "waiting"]
  OBVIOUS
<1>2. row.step = "waiting" /\ row.success = success
  BY <1>1
<1>3. jobs' = Append(jobs, row)
  BY <1>1 DEF Report
<1>4. jobs \in Seq(Job) /\ Len(jobs) \in Nat /\ DOMAIN jobs = 1 .. Len(jobs)
  BY DEF IInv, TypeOK
<1>5. /\ DOMAIN jobs' = DOMAIN jobs \cup {Len(jobs) + 1} /\ Len(jobs) + 1 \notin DOMAIN jobs
      /\ \A j \in DOMAIN jobs : jobs'[j] = jobs[j]
      /\ jobs'[Len(jobs) + 1] = row
  BY <1>3, <1>4
<1> QED BY <1>2, <1>5 DEF Report

-----------------------------------------------------------------------------
(* One handler at a time: what was read is still so, and a payment counts   *)
(* when its transaction is completed.                                       *)

LEMMA MoneyInit == Init => PayersUnknown /\ ReadStands /\ OnlySuccess /\ NothingTwice
                           /\ invoice.paid = 0 /\ Received = 0
<1> SUFFICES ASSUME Init
             PROVE  PayersUnknown /\ ReadStands /\ OnlySuccess /\ NothingTwice
                    /\ invoice.paid = 0 /\ Received = 0
  OBVIOUS
<1>1. jobs = <<>> /\ transactions = <<>> /\ invoice.paid = 0 /\ \A r \in Req : req[r] = Idle
  BY DEF Init
<1>2. PayersUnknown /\ ReadStands /\ OnlySuccess /\ NothingTwice
  BY <1>1, IdleSlot DEF PayersUnknown, ReadStands, OnlySuccess, NothingTwice
<1>3. Amounts = <<>>
  BY <1>1 DEF Amounts
<1>4. PICK f : Sums(f, <<>>, 0) /\ SumOf(<<>>) = f[0]
  <2>1. <<>> \in Seq(Int) /\ Len(<<>>) = 0
    OBVIOUS
  <2> QED BY <2>1, SumIsLast
<1>5. Received = 0
  BY <1>3, <1>4 DEF Received, Sums
<1> QED BY <1>1, <1>2, <1>5

LEMMA MoneyJob ==
  ASSUME Serial, IInv, IInv', SerialInv, MoneyInv, NEW j \in DOMAIN jobs,
         Work(j) \/ Interrupt(j)
  PROVE  MoneyInv'
<1>0. PayersUnknown /\ ReadStands /\ invoice.paid = Received
  BY DEF MoneyInv, PaidIsReceived
<1>1. CASE StartJob(j)
  <2>1. PICK step, paid, total :
          /\ Become(j, step, jobs[j].tries, paid, total)
          /\ step \in {"complete", "fail"} => transactions[jobs[j].t].status # "COMPLETED"
    BY <1>1, StartedJob
  <2>2. UNCHANGED <<invoice, transactions, intents, req>>
    BY <1>1, StartedJob
  <2>3. ReadStands'
    BY <1>0, <2>1, <2>2, JobRow DEF ReadStands
  <2> QED BY <1>0, <2>2, <2>3, ReceivedStays, PayersStayUnknown DEF MoneyInv, PaidIsReceived
<1>2. CASE Acknowledge(j) \/ Interrupt(j)
  <2>1. PICK step, tries : Become(j, step, tries, 0, 0) /\ step \in {"done", "waiting", "failed"}
    BY <1>2, FinishedJob
  <2>2. UNCHANGED <<invoice, transactions, intents, req>>
    BY <1>2, FinishedJob
  <2>3. ReadStands'
    BY <1>0, <2>1, <2>2, JobRow DEF ReadStands
  <2> QED BY <1>0, <2>2, <2>3, ReceivedStays, PayersStayUnknown DEF MoneyInv, PaidIsReceived
<1>3. CASE MarkFailed(j) \/ Complete(j)
  <2>1. j \in ActiveJobs /\ req' = req /\ Become(j, "acknowledge", jobs[j].tries, 0, 0)
    BY <1>3 DEF MarkFailed, Complete, ActiveJobs, Active, Leave
  <2>2. OnlyJob(j)
    BY <2>1, StaysAlone DEF SerialInv
  <2>3. \A i \in DOMAIN jobs' : jobs'[i].step \notin {"complete", "fail"}
    <3>1. \A i \in DOMAIN jobs : i # j => jobs[i].step \notin Active
      BY <2>2 DEF OnlyJob, ActiveJobs
    <3> QED BY <2>1, <3>1, JobRow DEF Active
  <2>4. ReadStands'
    BY <2>3 DEF ReadStands
  <2>5. PICK t \in DOMAIN transactions : t = jobs[j].t
    BY DEF IInv, JobOK
  <2>6. transactions[t].status # "COMPLETED" /\ transactions[t] \in Transaction
    BY <1>0, <1>3, <2>5, Tables DEF MarkFailed, Complete, ReadStands, IInv
  <2>7. CASE MarkFailed(j)
    <3>1. PICK row : row = [transactions[t] EXCEPT !.status = "FAILED"]
      OBVIOUS
    <3>2. row.status = "FAILED" /\ row.known = transactions[t].known
      BY <2>6, <3>1 DEF Transaction
    <3>3. transactions' = [transactions EXCEPT ![t] = row] /\ invoice' = invoice
      BY <2>5, <2>7, <3>1 DEF MarkFailed
    <3>4. /\ DOMAIN transactions' = DOMAIN transactions /\ transactions'[t] = row
          /\ \A u \in DOMAIN transactions : u # t => transactions'[u] = transactions[u]
      BY <3>3
    <3>5. Received' = Received
      BY <2>6, <3>2, <3>4, StillNotReceived
    <3>6. PayersUnknown'
      BY <1>0, <2>1, <3>2, <3>4, PayersStayUnknown
    <3> QED BY <1>0, <2>4, <3>3, <3>5, <3>6 DEF MoneyInv, PaidIsReceived
  <2>8. CASE Complete(j)
    <3>1. PICK amount : amount = transactions[t].amount
      OBVIOUS
    <3>2. /\ Received' = Received + (amount - ReceivedOf(transactions[t])) /\ amount \in Nat
          /\ \A u \in DOMAIN transactions : transactions'[u].known = transactions[u].known
          /\ invoice'.paid = jobs[j].paid + amount
      BY <2>5, <2>8, <3>1, CompletionReceives
    <3>3. ReceivedOf(transactions[t]) = 0
      BY <2>6 DEF ReceivedOf
    <3>4. jobs[j].paid = invoice.paid
      BY <2>8 DEF Complete, SerialInv, Fresh
    <3>5. PayersUnknown'
      BY <1>0, <2>1, <3>2, PayersStayUnknown
    <3>6. invoice'.paid = Received'
      BY <1>0, <3>2, <3>3, <3>4, ReceivedIsNumber
    <3> QED BY <2>4, <3>5, <3>6 DEF MoneyInv, PaidIsReceived
  <2> QED BY <1>3, <2>7, <2>8
<1> QED BY <1>1, <1>2, <1>3 DEF Work

LEMMA MoneyStep ==
  ASSUME Serial, IInv, IInv', SerialInv, MoneyInv, [Next]_vars PROVE MoneyInv'
<1>0. PayersUnknown /\ ReadStands /\ invoice.paid = Received
  BY DEF MoneyInv, PaidIsReceived
<1>1. \A j \in DOMAIN jobs : jobs[j].t \in DOMAIN transactions
  BY DEF IInv, JobOK
<1>2. ASSUME NEW r \in Req,
             \/ StartPayment(r) \/ CreateTransaction(r) \/ CallMauzo(r)
             \/ SaveIntent(r) \/ LoseIntent(r) \/ FailTransaction(r)
             \/ StartAddFee(r) \/ CreateItem(r) \/ UpdateTotals(r) \/ Die(r)
      PROVE  MoneyInv'
  <2>1. /\ Received' = Received /\ NoneCompleted /\ PayersUnknown'
        /\ jobs' = jobs /\ invoice'.paid = invoice.paid
    BY <1>0, <1>2, RequestReceivesNothing
  <2>2. ReadStands'
    BY <1>0, <1>1, <2>1 DEF ReadStands, NoneCompleted
  <2> QED BY <1>0, <2>1, <2>2 DEF MoneyInv, PaidIsReceived
<1>3. ASSUME UNCHANGED <<transactions, jobs, req>>, invoice'.paid = invoice.paid PROVE MoneyInv'
  BY <1>0, <1>3, ReceivedStays, PayersStayUnknown DEF MoneyInv, PaidIsReceived, ReadStands
<1>4. ASSUME NEW remove \in BOOLEAN, NEW add \in BOOLEAN, Reschedule(remove, add)
      PROVE  MoneyInv'
  <2>1. invoice \in Invoice
    BY DEF IInv, TypeOK
  <2>2. UNCHANGED <<transactions, jobs, req>> /\ invoice'.paid = invoice.paid
    BY <1>4, <2>1 DEF Reschedule, Invoice
  <2> QED BY <1>3, <2>2
<1>5. ASSUME NEW t \in DOMAIN intents, Settle(t) PROVE MoneyInv'
  BY <1>3, <1>5 DEF Settle
<1>6. ASSUME NEW t \in DOMAIN intents, NEW success \in BOOLEAN, Report(t, success)
      PROVE  MoneyInv'
  <2>1. UNCHANGED <<invoice, transactions, intents, req>>
    BY <1>6, ReportedJob
  <2>2. ReadStands'
    BY <1>0, <1>6, <2>1, ReportedJob DEF ReadStands
  <2> QED BY <1>0, <2>1, <2>2, ReceivedStays, PayersStayUnknown DEF MoneyInv, PaidIsReceived
<1>7. ASSUME NEW j \in DOMAIN jobs, Work(j) \/ Interrupt(j) PROVE MoneyInv'
  BY <1>7, MoneyJob
<1>8. CASE UNCHANGED vars
  BY <1>3, <1>8 DEF vars
<1> QED BY <1>2, <1>4, <1>5, <1>6, <1>7, <1>8 DEF Next

\* handlePaymentCallback, when no two handlers overlap: what the invoice counts as paid is
\* what its completed transactions amount to, whatever dies, raises, is repeated, comes late
\* or contradicts itself.
THEOREM PaidStaysReceived ==
  ASSUME Serial PROVE Spec => []PaidIsReceived
<1>1. Init => IInv /\ SerialInv /\ MoneyInv
  BY InitIInv, SerialInit, MoneyInit DEF MoneyInv, PaidIsReceived
<1>2. IInv /\ SerialInv /\ MoneyInv /\ [Next]_vars => (IInv /\ SerialInv /\ MoneyInv)'
  BY Step, SerialStep, MoneyStep
<1>3. MoneyInv => PaidIsReceived
  BY DEF MoneyInv
<1> QED BY <1>1, <1>2, <1>3, PTL DEF Spec

-----------------------------------------------------------------------------
(* Only success is reported: what a job has read may be out of date, but it *)
(* leaves out its own payment, so that no payment is counted twice.         *)

LEMMA OverlapJob ==
  ASSUME IInv, IInv', OverlapInv, NEW j \in DOMAIN jobs, Work(j) \/ Interrupt(j)
  PROVE  OverlapInv'
<1>0. /\ PayersUnknown /\ OnlySuccess /\ NothingTwice /\ invoice.paid <= Received
      /\ invoice.paid \in Int /\ Received \in Int /\ Received' \in Int
  <2>1. (IInv => Received \in Int)'
    BY ReceivedIsNumber, PTL
  <2> QED BY <2>1, ReceivedIsNumber DEF OverlapInv, NeverOvercounted, IInv, TypeOK, Invoice
<1>1. \A i \in DOMAIN jobs : jobs[i].t \in DOMAIN transactions /\ jobs[i].paid \in Int
  BY Tables DEF IInv, JobOK, Job
<1>2. CASE StartJob(j)
  <2>1. PICK step, paid, total :
          /\ Become(j, step, jobs[j].tries, paid, total)
          /\ step \in {"complete", "fail"} => transactions[jobs[j].t].status # "COMPLETED"
          /\ step = "complete" => paid = invoice.paid
          /\ step = "fail" => ~jobs[j].success
    BY <1>2, StartedJob
  <2>2. UNCHANGED <<invoice, transactions, intents, req>>
    BY <1>2, StartedJob
  <2>3. OnlySuccess'
    BY <1>0, <2>1, JobRow DEF OnlySuccess
  <2>4. Received' = Received
    BY <2>2, ReceivedStays
  <2>5. step = "complete" => paid + ReceivedOf(transactions[jobs[j].t]) <= Received
    BY <1>0, <2>1 DEF ReceivedOf
  <2>6. NothingTwice'
    BY <1>0, <2>1, <2>2, <2>4, <2>5, JobRow DEF NothingTwice
  <2> QED BY <1>0, <2>2, <2>3, <2>4, <2>6, PayersStayUnknown DEF OverlapInv, NeverOvercounted
<1>3. CASE Acknowledge(j) \/ Interrupt(j)
  <2>1. PICK step, tries : Become(j, step, tries, 0, 0) /\ step \in {"done", "waiting", "failed"}
    BY <1>3, FinishedJob
  <2>2. UNCHANGED <<invoice, transactions, intents, req>>
    BY <1>3, FinishedJob
  <2>3. OnlySuccess'
    BY <1>0, <2>1, JobRow DEF OnlySuccess
  <2>4. Received' = Received
    BY <2>2, ReceivedStays
  <2>5. NothingTwice'
    BY <1>0, <2>1, <2>2, <2>4, JobRow DEF NothingTwice
  <2> QED BY <1>0, <2>2, <2>3, <2>4, <2>5, PayersStayUnknown DEF OverlapInv, NeverOvercounted
<1>4. CASE MarkFailed(j)
  BY <1>0, <1>4 DEF MarkFailed, OnlySuccess
<1>5. CASE Complete(j)
  <2>1. PICK t, amount : t = jobs[j].t /\ amount = transactions[t].amount
    OBVIOUS
  <2>2. /\ t \in DOMAIN transactions /\ amount \in Nat
        /\ Received' = Received + (amount - ReceivedOf(transactions[t]))
        /\ ReceivedOf(transactions'[t]) = amount
        /\ ReceivedOf(transactions[t]) \in {0, amount}
        /\ \A u \in DOMAIN transactions : u # t => transactions'[u] = transactions[u]
        /\ \A u \in DOMAIN transactions : transactions'[u].known = transactions[u].known
        /\ invoice'.paid = jobs[j].paid + amount
    BY <1>5, <2>1, CompletionReceives
  <2>3. req' = req /\ Become(j, "acknowledge", jobs[j].tries, 0, 0) /\ jobs[j].step = "complete"
    BY <1>5 DEF Complete, Leave
  <2>4. OnlySuccess'
    BY <1>0, <2>3, JobRow DEF OnlySuccess
  <2>5. Received <= Received'
    BY <1>0, <2>2
  <2>6. invoice'.paid <= Received'
    <3>1. jobs[j].paid + ReceivedOf(transactions[t]) <= Received
      BY <1>0, <2>1, <2>3 DEF NothingTwice
    <3> QED BY <1>0, <1>1, <2>2, <3>1
  <2>7. NothingTwice'
    <3> SUFFICES ASSUME NEW i \in DOMAIN jobs', jobs'[i].step = "complete"
                 PROVE  jobs'[i].paid + ReceivedOf(transactions'[jobs'[i].t]) <= Received'
      BY DEF NothingTwice
    <3>1. i \in DOMAIN jobs /\ i # j /\ jobs'[i] = jobs[i]
      BY <2>3, JobRow
    <3>2. jobs[i].paid + ReceivedOf(transactions[jobs[i].t]) <= Received
      BY <1>0, <3>1 DEF NothingTwice
    <3>3. CASE jobs[i].t = t
      BY <1>0, <1>1, <2>2, <3>1, <3>2, <3>3
    <3>4. CASE jobs[i].t # t
      <4>1. transactions'[jobs[i].t] = transactions[jobs[i].t]
        BY <1>1, <2>2, <3>1, <3>4
      <4>2. ReceivedOf(transactions[jobs[i].t]) \in Int
        BY <1>1, <3>1, AmountsAreNumbers DEF AmountsFit
      <4> QED BY <1>0, <1>1, <2>5, <3>1, <3>2, <4>1, <4>2
    <3> QED BY <3>3, <3>4
  <2>8. PayersUnknown'
    BY <1>0, <2>2, <2>3, PayersStayUnknown
  <2> QED BY <2>4, <2>6, <2>7, <2>8 DEF OverlapInv, NeverOvercounted
<1> QED BY <1>2, <1>3, <1>4, <1>5 DEF Work

LEMMA OverlapStep ==
  ASSUME ~OtherEvents, IInv, IInv', OverlapInv, [Next]_vars PROVE OverlapInv'
<1>0. PayersUnknown /\ OnlySuccess /\ NothingTwice /\ invoice.paid <= Received
  BY DEF OverlapInv, NeverOvercounted
<1>1. \A j \in DOMAIN jobs : jobs[j].t \in DOMAIN transactions
  BY DEF IInv, JobOK
<1>2. ASSUME NEW r \in Req,
             \/ StartPayment(r) \/ CreateTransaction(r) \/ CallMauzo(r)
             \/ SaveIntent(r) \/ LoseIntent(r) \/ FailTransaction(r)
             \/ StartAddFee(r) \/ CreateItem(r) \/ UpdateTotals(r) \/ Die(r)
      PROVE  OverlapInv'
  <2>1. /\ Received' = Received /\ NoneCompleted /\ PayersUnknown'
        /\ jobs' = jobs /\ invoice'.paid = invoice.paid
    BY <1>0, <1>2, RequestReceivesNothing
  <2>2. NothingTwice'
    BY <1>0, <1>1, <2>1 DEF NothingTwice, NoneCompleted
  <2> QED BY <1>0, <2>1, <2>2 DEF OverlapInv, NeverOvercounted, OnlySuccess
<1>3. ASSUME UNCHANGED <<transactions, jobs, req>>, invoice'.paid = invoice.paid
      PROVE  OverlapInv'
  <2>1. Received' = Received /\ PayersUnknown'
    BY <1>0, <1>3, ReceivedStays, PayersStayUnknown
  <2> QED BY <1>0, <1>3, <2>1 DEF OverlapInv, NeverOvercounted, OnlySuccess, NothingTwice
<1>4. ASSUME NEW remove \in BOOLEAN, NEW add \in BOOLEAN, Reschedule(remove, add)
      PROVE  OverlapInv'
  <2>1. invoice \in Invoice
    BY DEF IInv, TypeOK
  <2>2. UNCHANGED <<transactions, jobs, req>> /\ invoice'.paid = invoice.paid
    BY <1>4, <2>1 DEF Reschedule, Invoice
  <2> QED BY <1>3, <2>2
<1>5. ASSUME NEW t \in DOMAIN intents, Settle(t) PROVE OverlapInv'
  BY <1>3, <1>5 DEF Settle
<1>6. ASSUME NEW t \in DOMAIN intents, NEW success \in BOOLEAN, Report(t, success)
      PROVE  OverlapInv'
  <2>1. UNCHANGED <<invoice, transactions, intents, req>> /\ success
    BY <1>6, ReportedJob
  <2>2. Received' = Received /\ PayersUnknown'
    BY <1>0, <2>1, ReceivedStays, PayersStayUnknown
  <2>3. OnlySuccess'
    BY <1>0, <1>6, <2>1, ReportedJob DEF OnlySuccess
  <2>4. NothingTwice'
    BY <1>0, <1>6, <2>1, <2>2, ReportedJob DEF NothingTwice
  <2> QED BY <1>0, <2>1, <2>2, <2>3, <2>4 DEF OverlapInv, NeverOvercounted
<1>7. ASSUME NEW j \in DOMAIN jobs, Work(j) \/ Interrupt(j) PROVE OverlapInv'
  BY <1>7, OverlapJob
<1>8. CASE UNCHANGED vars
  BY <1>3, <1>8 DEF vars
<1> QED BY <1>2, <1>4, <1>5, <1>6, <1>7, <1>8 DEF Next

\* handlePaymentCallback against any number of jobs side by side, fees, payments and faults, as
\* long as only success is reported: no repetition or overlap of the reports, and no job that
\* is tried again, makes the invoice count more than was received.
THEOREM OverlapNeverOvercounts ==
  ASSUME ~OtherEvents PROVE Spec => []NeverOvercounted
<1>1. Init => IInv /\ OverlapInv
  BY InitIInv, MoneyInit DEF OverlapInv, NeverOvercounted
<1>2. IInv /\ OverlapInv /\ [Next]_vars => (IInv /\ OverlapInv)'
  BY Step, OverlapStep
<1>3. OverlapInv => NeverOvercounted
  BY DEF OverlapInv
<1> QED BY <1>1, <1>2, <1>3, PTL DEF Spec
=============================================================================
