----------------------------- MODULE WalletProofs -----------------------------
(***************************************************************************)
(* What Wallet keeps for EVERY number of overlapping handlers, withdrawals, *)
(* repeated callbacks and faults.  The invariant that carries the proofs    *)
(* says who may still touch a withdrawal: before its conversation is stored *)
(* only the one handler that requested it, afterwards only callbacks, and   *)
(* these agree with what Daraja has done.  With it every transaction is an  *)
(* operation of Account.  What overlapping handlers lose is proved for as    *)
(* long as they have not overlapped, along SerialInv.                       *)
(***************************************************************************)
EXTENDS SerialWallet, RowLemmas, FiniteSetTheorems, TLAPS

\* The handler of a request still on its way to Daraja.
Pays(q) == q.step \in {"callDaraja", "saveConversation", "reverse"}

\* A request on its way is still INITIATED and unknown to callbacks; a callback
\* in flight is about a known conversation and says what Daraja has done.
SlotOK(q) ==
  /\ q.step = "debit" => q.amount \in Amount
  /\ q.step \notin {"idle", "debit"} => q.w \in DOMAIN withdrawals
  /\ Pays(q) => /\ withdrawals[q.w].status = "INITIATED"
                /\ ~withdrawals[q.w].known
  /\ q.step = "callDaraja" => payouts[q.w].state = "none"
  /\ q.step = "complete" => withdrawals[q.w].known /\ payouts[q.w].state = "paid"
  /\ q.step = "fail" => withdrawals[q.w].known /\ payouts[q.w].state = "failed"

OnePayer ==
  \A r, p \in Req :
    Pays(req[r]) /\ Pays(req[p]) /\ req[r].w = req[p].w => r = p

\* A failed withdrawal was never reported as paid to anyone who would listen,
\* and only an outcome is ever reported.
OutcomesOK ==
  \A w \in DOMAIN withdrawals :
    /\ withdrawals[w].status = "COMPLETED" =>
         withdrawals[w].known /\ payouts[w].state = "paid"
    /\ withdrawals[w].status = "FAILED" /\ withdrawals[w].known =>
         payouts[w].state = "failed"
    /\ payouts[w].underway > 0 => payouts[w].state \in {"paid", "failed"}

HandlersOK ==
  /\ TypeOK
  /\ DOMAIN payouts = DOMAIN withdrawals
  /\ \A r \in Req : SlotOK(req[r])
  /\ OnePayer
  /\ OutcomesOK

\* Every row is about an existing withdrawal (0: a reward); every withdrawal has
\* its one debit row, and every reversal row comes after it.
LedgerOK ==
  /\ \A i \in DOMAIN ledger : ledger[i].w \in DOMAIN withdrawals \cup {0}
  /\ \A w \in DOMAIN withdrawals : \E j \in DOMAIN ledger :
       /\ Rows(w, "WITHDRAWAL") = {j}
       /\ ledger[j].amount = withdrawals[w].amount
  /\ \A i \in DOMAIN ledger : ledger[i].reason = "WITHDRAWAL_REVERSAL" =>
       /\ ledger[i].w \in DOMAIN withdrawals
       /\ withdrawals[ledger[i].w].status = "FAILED"
       /\ ledger[i].amount = withdrawals[ledger[i].w].amount
       /\ \A j \in DOMAIN ledger :
            ledger[j].w = ledger[i].w /\ ledger[j].reason = "WITHDRAWAL" => j < i

IInv == HandlersOK /\ LedgerOK

-----------------------------------------------------------------------------
(* Slots *)

LEMMA Tables ==
  ASSUME TypeOK
  PROVE  /\ Len(withdrawals) \in Nat /\ DOMAIN withdrawals = 1..Len(withdrawals)
         /\ \A w \in DOMAIN withdrawals : withdrawals[w] \in Withdrawal
         /\ Len(payouts) \in Nat /\ DOMAIN payouts = 1..Len(payouts)
         /\ \A w \in DOMAIN payouts : payouts[w] \in Payout
         /\ Len(ledger) \in Nat /\ DOMAIN ledger = 1..Len(ledger)
         /\ \A i \in DOMAIN ledger : ledger[i] \in Entry
BY DEF TypeOK

LEMMA IdleSlot == Idle \in Request /\ SlotOK(Idle) /\ ~Pays(Idle)
BY DEF Idle, Request, Step, SlotOK, Pays

\* A step of slot r leaves the other slots right if it keeps what callbacks rely
\* on and touches no withdrawal another handler is still paying.
LEMMA SlotStep ==
  ASSUME HandlersOK, NEW r \in Req, NEW s \in Request,
         req' = [req EXCEPT ![r] = s],
         SlotOK(s)',
         \A w \in DOMAIN withdrawals :
           /\ w \in DOMAIN withdrawals'
           /\ withdrawals[w].known =>
                /\ withdrawals'[w].known
                /\ payouts[w].state \in {"paid", "failed"} =>
                     payouts'[w].state = payouts[w].state,
         \A p \in Req \ {r} : Pays(req[p]) =>
           /\ withdrawals'[req[p].w].status = withdrawals[req[p].w].status
           /\ withdrawals'[req[p].w].known = withdrawals[req[p].w].known
           /\ payouts'[req[p].w].state = payouts[req[p].w].state
           /\ Pays(s) => s.w # req[p].w
  PROVE  /\ req' \in [Req -> Request]
         /\ \A p \in Req : SlotOK(req[p])'
         /\ OnePayer'
<1>1. req \in [Req -> Request] BY DEF HandlersOK, TypeOK
<1>2. req' \in [Req -> Request] BY <1>1
<1>3. req'[r] = s /\ \A p \in Req \ {r} : req'[p] = req[p] BY <1>1
<1>4. ASSUME NEW p \in Req PROVE SlotOK(req[p])'
  <2>1. CASE p = r BY <1>3, <2>1 DEF SlotOK, Pays
  <2>2. CASE p # r
    <3>1. req'[p] = req[p] /\ SlotOK(req[p]) BY <1>3, <2>2 DEF HandlersOK
    <3> QED BY <2>2, <3>1 DEF SlotOK, Pays
  <2> QED BY <2>1, <2>2
<1>5. ASSUME NEW p \in Req, NEW q \in Req, Pays(req'[p]), Pays(req'[q]),
             req'[p].w = req'[q].w
      PROVE  p = q
  <2>1. CASE p # r /\ q # r BY <1>3, <1>5, <2>1 DEF HandlersOK, OnePayer
  <2>2. CASE p = r /\ q # r BY <1>3, <1>5, <2>2
  <2>3. CASE p # r /\ q = r BY <1>3, <1>5, <2>3
  <2>4. CASE p = r /\ q = r BY <2>4
  <2> QED BY <2>1, <2>2, <2>3, <2>4
<1> QED BY <1>2, <1>4, <1>5 DEF OnePayer, Pays

\* The withdrawal a handler pays is its own.
LEMMA OtherPayers ==
  ASSUME HandlersOK, NEW r \in Req, NEW p \in Req \ {r},
         Pays(req[r]), Pays(req[p])
  PROVE  req[p].w # req[r].w /\ req[p].w \in DOMAIN withdrawals
BY DEF HandlersOK, OnePayer, SlotOK, Pays

-----------------------------------------------------------------------------
(* Steps that write no row but payouts *)

\* The row a step enters is a row of the ledger.
LEMMA EntryTypes ==
  ASSUME HandlersOK, NEW type \in {"CREDIT", "DEBIT"},
         NEW reason \in {"FINDER_REWARD", "WITHDRAWAL", "WITHDRAWAL_REVERSAL"},
         NEW a \in Amount, NEW before \in Int, NEW after \in Int, NEW w \in Nat,
         Enter(type, reason, a, before, after, w)
  PROVE  ledger' \in Seq(Entry)
<1> DEFINE row == [type |-> type, reason |-> reason, amount |-> a,
                   before |-> before, after |-> after, w |-> w]
<1>1. ledger' = Append(ledger, row) BY DEF Enter
<1>2. row \in Entry BY DEF Entry
<1>3. ledger \in Seq(Entry) BY DEF HandlersOK, TypeOK
<1> QED BY <1>1, <1>2, <1>3, AppendRows

LEMMA RewardHandlers ==
  ASSUME WalletAssumption, HandlersOK, NEW r \in Req, NEW a \in Amount, Reward(r, a)
  PROVE  HandlersOK'
<1>1. balance \in Int BY DEF HandlersOK, TypeOK
<1>2. a \in Int BY DEF WalletAssumption
<1>3. balance + a \in Int BY <1>1, <1>2
<1>4. /\ balance' = balance + a
      /\ Enter("CREDIT", "FINDER_REWARD", a, balance, balance + a, 0)
      /\ UNCHANGED <<withdrawals, payouts, req>>
  BY DEF Reward, Credit
<1>5. ledger' \in Seq(Entry) BY <1>1, <1>3, <1>4, EntryTypes
<1> QED BY <1>3, <1>4, <1>5
        DEF HandlersOK, TypeOK, SlotOK, Pays, OnePayer, OutcomesOK

\* The steps of a handler that change its slot only.
LEMMA SlotOnly ==
  ASSUME HandlersOK, NEW r \in Req, NEW s \in Request, SlotOK(s),
         Pays(s) => Pays(req[r]) /\ s.w = req[r].w,
         req' = [req EXCEPT ![r] = s],
         UNCHANGED <<balance, ledger, withdrawals, payouts>>
  PROVE  HandlersOK'
<1>1. SlotOK(s)' BY DEF SlotOK, Pays
<1>2. \A p \in Req \ {r} : Pays(req[p]) /\ Pays(s) => s.w # req[p].w
  BY OtherPayers
<1>3. /\ req' \in [Req -> Request]
      /\ \A p \in Req : SlotOK(req[p])'
      /\ OnePayer'
  BY <1>1, <1>2, SlotStep
<1> QED BY <1>3 DEF HandlersOK, TypeOK, OutcomesOK

LEMMA SlotOnlyHandlers ==
  ASSUME WalletAssumption, HandlersOK, NEW r \in Req,
         StartWithdraw(r) \/ LoseConversation(r) \/ Die(r)
  PROVE  HandlersOK'
<1>1. req \in [Req -> Request] /\ balance \in Int BY DEF HandlersOK, TypeOK
<1>2. CASE StartWithdraw(r)
  <2>1. PICK a \in Amount :
          req' = [req EXCEPT ![r] = [step |-> "debit", w |-> 0, amount |-> a,
                                     seen |-> balance]]
    BY <1>2 DEF StartWithdraw
  <2> DEFINE s == [step |-> "debit", w |-> 0, amount |-> a, seen |-> balance]
  <2>2. s \in Request /\ SlotOK(s) /\ ~Pays(s)
    BY <1>1 DEF Request, Step, SlotOK, Pays
  <2> QED BY <1>2, <2>1, <2>2, SlotOnly DEF StartWithdraw
<1>3. CASE LoseConversation(r)
  <2> DEFINE s == [req[r] EXCEPT !.step = "reverse"]
  <2>1. req[r] \in Request /\ req[r].step = "saveConversation" /\ SlotOK(req[r])
    BY <1>1, <1>3 DEF LoseConversation, At, HandlersOK
  <2>2. s \in Request /\ s.step = "reverse" /\ s.w = req[r].w
    BY <2>1 DEF Request, Step
  <2>3. SlotOK(s) /\ Pays(req[r]) BY <2>1, <2>2 DEF SlotOK, Pays
  <2>4. req' = [req EXCEPT ![r] = s] BY <1>3 DEF LoseConversation, Goto
  <2> QED BY <1>3, <2>2, <2>3, <2>4, SlotOnly DEF LoseConversation
<1>4. CASE Die(r) BY <1>4, IdleSlot, SlotOnly DEF Die, Done
<1> QED BY <1>2, <1>3, <1>4

-----------------------------------------------------------------------------
(* Daraja and its answers *)

LEMMA PayoutRow ==
  ASSUME HandlersOK, NEW w \in DOMAIN payouts, NEW x \in Payout,
         payouts' = [payouts EXCEPT ![w] = x]
  PROVE  /\ payouts' \in Seq(Payout)
         /\ DOMAIN payouts' = DOMAIN payouts
         /\ \A v \in DOMAIN payouts : payouts'[v] = IF v = w THEN x ELSE payouts[v]
BY UpdateInSeq DEF HandlersOK, TypeOK

\* A payout changes its state only before the outcome is known to anyone.
LEMMA PayoutHandlers ==
  ASSUME HandlersOK, NEW w \in DOMAIN payouts, NEW x \in Payout,
         payouts' = [payouts EXCEPT ![w] = x],
         x.state = payouts[w].state \/ payouts[w].state = "accepted",
         x.underway > 0 => x.state \in {"paid", "failed"},
         UNCHANGED <<balance, ledger, withdrawals, req>>
  PROVE  HandlersOK'
<1>1. /\ payouts' \in Seq(Payout)
      /\ DOMAIN payouts' = DOMAIN payouts
      /\ \A v \in DOMAIN payouts : payouts'[v] = IF v = w THEN x ELSE payouts[v]
  BY PayoutRow
<1>2. ASSUME NEW p \in Req PROVE SlotOK(req[p])'
  <2>1. SlotOK(req[p]) BY DEF HandlersOK
  <2> QED BY <1>1, <2>1 DEF SlotOK, Pays, HandlersOK
<1>3. OutcomesOK' BY <1>1 DEF HandlersOK, OutcomesOK
<1>4. OnePayer' BY DEF HandlersOK, OnePayer, Pays
<1> QED BY <1>1, <1>2, <1>3, <1>4 DEF HandlersOK, TypeOK

LEMMA SettleHandlers ==
  ASSUME HandlersOK, NEW w \in DOMAIN payouts, Settle(w) \/ ReportAgain(w)
  PROVE  HandlersOK'
<1>1. payouts[w] \in Payout BY Tables DEF HandlersOK
<1>2. CASE Settle(w)
  <2>1. PICK outcome \in {"paid", "failed"} :
          payouts' = [payouts EXCEPT ![w] = [state |-> outcome, sent |-> 1,
                                             underway |-> 1]]
    BY <1>2 DEF Settle
  <2>2. [state |-> outcome, sent |-> 1, underway |-> 1] \in Payout BY DEF Payout
  <2>3. payouts[w].state = "accepted" BY <1>2 DEF Settle
  <2> QED BY <1>2, <2>1, <2>2, <2>3, PayoutHandlers DEF Settle
<1>3. CASE ReportAgain(w)
  <2> DEFINE x == [state |-> payouts[w].state, sent |-> payouts[w].sent + 1,
                   underway |-> payouts[w].underway + 1]
  <2>1. payouts' = [payouts EXCEPT ![w] = x] BY <1>3 DEF ReportAgain
  <2>2. x \in Payout /\ x.state \in {"paid", "failed"} /\ x.state = payouts[w].state
    BY <1>1, <1>3 DEF Payout, ReportAgain
  <2> QED BY <1>3, <2>1, <2>2, PayoutHandlers DEF ReportAgain
<1> QED BY <1>2, <1>3

\* The answer to a request, or the arrival of a callback: one payout and one slot.
LEMMA AnswerHandlers ==
  ASSUME HandlersOK, NEW r \in Req, NEW s \in Request,
         NEW w \in DOMAIN payouts, NEW x \in Payout,
         payouts' = [payouts EXCEPT ![w] = x],
         req' = [req EXCEPT ![r] = s],
         SlotOK(s)',
         Pays(s) => Pays(req[r]) /\ s.w = req[r].w,
         x.state = payouts[w].state \/ (Pays(req[r]) /\ w = req[r].w),
         x.underway > 0 => x.state \in {"paid", "failed"},
         UNCHANGED <<balance, ledger, withdrawals>>
  PROVE  HandlersOK'
<1>1. /\ payouts' \in Seq(Payout)
      /\ DOMAIN payouts' = DOMAIN payouts
      /\ \A v \in DOMAIN payouts : payouts'[v] = IF v = w THEN x ELSE payouts[v]
  BY PayoutRow
<1>2. DOMAIN payouts = DOMAIN withdrawals BY DEF HandlersOK
<1>3. ASSUME NEW v \in DOMAIN withdrawals, withdrawals[v].known
      PROVE  payouts'[v].state = payouts[v].state
  BY <1>1, <1>2, <1>3 DEF HandlersOK, SlotOK
<1>4. ASSUME NEW p \in Req \ {r}, Pays(req[p])
      PROVE  /\ payouts'[req[p].w].state = payouts[req[p].w].state
             /\ Pays(s) => s.w # req[p].w
  <2>1. Pays(req[r]) => req[p].w # req[r].w BY <1>4, OtherPayers
  <2>2. req[p].w \in DOMAIN payouts
    BY <1>2, <1>4 DEF HandlersOK, SlotOK, Pays
  <2> QED BY <1>1, <2>1, <2>2
<1>5. /\ req' \in [Req -> Request]
      /\ \A p \in Req : SlotOK(req[p])'
      /\ OnePayer'
  BY <1>3, <1>4, SlotStep
<1>6. OutcomesOK'
  <2>1. Pays(req[r]) => /\ withdrawals[req[r].w].status = "INITIATED"
                        /\ ~withdrawals[req[r].w].known
    BY DEF HandlersOK, SlotOK
  <2> QED BY <1>1, <1>2, <2>1 DEF HandlersOK, OutcomesOK
<1> QED BY <1>1, <1>2, <1>5, <1>6 DEF HandlersOK, TypeOK

LEMMA CallHandlers ==
  ASSUME HandlersOK, NEW r \in Req, CallDaraja(r)
  PROVE  HandlersOK'
<1> DEFINE w == req[r].w
           to(step) == [req[r] EXCEPT !.step = step]
           x == [payouts[w] EXCEPT !.state = "accepted"]
<1>1. req[r] \in Request /\ req[r].step = "callDaraja" /\ SlotOK(req[r])
  BY DEF CallDaraja, At, HandlersOK, TypeOK
<1>2. /\ Pays(req[r]) /\ w \in DOMAIN withdrawals /\ w \in DOMAIN payouts
      /\ withdrawals[w].status = "INITIATED" /\ ~withdrawals[w].known
  BY <1>1 DEF SlotOK, Pays, HandlersOK
<1>3. ASSUME NEW step \in {"saveConversation", "reverse"}
      PROVE  /\ to(step) \in Request /\ Pays(to(step)) /\ to(step).w = w
             /\ SlotOK(to(step))
  <2>1. to(step) \in Request /\ to(step).step = step /\ to(step).w = w
    BY <1>1, <1>3 DEF Request, Step
  <2> QED BY <1>2, <1>3, <2>1 DEF SlotOK, Pays
<1>4. PICK step \in {"saveConversation", "reverse"} :
        /\ req' = [req EXCEPT ![r] = to(step)]
        /\ payouts' = [payouts EXCEPT ![w] = x] \/ payouts' = payouts
        /\ UNCHANGED <<balance, ledger, withdrawals>>
  BY DEF CallDaraja, Goto
<1>5. x \in Payout /\ ~(x.underway > 0)
  <2>1. payouts[w] \in Payout /\ payouts[w].state = "none"
    BY <1>1, <1>2, Tables DEF HandlersOK, SlotOK
  <2>2. ~(payouts[w].underway > 0) BY <1>2, <2>1 DEF HandlersOK, OutcomesOK
  <2> QED BY <2>1, <2>2 DEF Payout
<1>6. CASE payouts' = payouts BY <1>2, <1>3, <1>4, <1>6, SlotOnly
<1>7. CASE payouts' = [payouts EXCEPT ![w] = x]
  <2>1. PICK s \in Request :
          s = to(step) /\ s.w = w /\ s.step \in {"saveConversation", "reverse"}
    BY <1>1, <1>3 DEF Request
  <2>2. SlotOK(s)' BY <1>2, <1>4, <1>7, <2>1, PayoutRow DEF SlotOK, Pays
  <2> QED BY <1>2, <1>3, <1>4, <1>5, <1>7, <2>1, <2>2, AnswerHandlers
<1> QED BY <1>4, <1>6, <1>7

LEMMA CallbackHandlers ==
  ASSUME HandlersOK, NEW r \in Req, NEW w \in DOMAIN payouts, StartCallback(r, w)
  PROVE  HandlersOK'
<1>1. payouts[w] \in Payout /\ w \in Nat /\ w \in DOMAIN withdrawals
  BY Tables DEF HandlersOK
<1>2. payouts[w].underway \in Nat /\ payouts[w].underway > 0
  BY <1>1 DEF StartCallback, Payout
<1>3. payouts[w].state \in {"paid", "failed"}
  BY <1>1, <1>2 DEF HandlersOK, OutcomesOK
<1>4. PICK x \in Payout :
        /\ payouts' = [payouts EXCEPT ![w] = x]
        /\ x.state = payouts[w].state
  <2> DEFINE y == [payouts[w] EXCEPT !.underway = payouts[w].underway - 1]
  <2>1. y \in Payout /\ y.state = payouts[w].state BY <1>1, <1>2 DEF Payout
  <2>2. payouts' = [payouts EXCEPT ![w] = y] BY DEF StartCallback
  <2> QED BY <2>1, <2>2
<1>5. x.state \in {"paid", "failed"} BY <1>3, <1>4
<1>6. UNCHANGED <<balance, ledger, withdrawals>> BY DEF StartCallback
<1>7. CASE req' = req BY <1>4, <1>5, <1>6, <1>7, PayoutHandlers
<1>8. CASE req' # req
  <2>1. PICK s \in Request :
          /\ s.step = IF payouts[w].state = "paid" THEN "complete" ELSE "fail"
          /\ s.w = w
          /\ withdrawals[w].known
          /\ req' = [req EXCEPT ![r] = s]
    <3> DEFINE t == [step |-> IF payouts[w].state = "paid" THEN "complete"
                              ELSE "fail", w |-> w, amount |-> 0, seen |-> 0]
    <3>1. withdrawals[w].known /\ req' = [req EXCEPT ![r] = t]
      BY <1>8 DEF StartCallback
    <3>2. t \in Request BY <1>1 DEF Request, Step
    <3> QED BY <3>1, <3>2
  <2>2. payouts'[w].state = payouts[w].state BY <1>4, PayoutRow
  <2>3. SlotOK(s)' /\ ~Pays(s)
    BY <1>1, <1>3, <1>6, <2>1, <2>2 DEF SlotOK, Pays
  <2> QED BY <1>4, <1>5, <1>6, <2>1, <2>3, AnswerHandlers
<1> QED BY <1>7, <1>8

-----------------------------------------------------------------------------
(* Steps that write withdrawals *)

\* The last statement of a handler: the withdrawal it is about moves on in a way
\* that leaves known conversations known, and no other payer is concerned.
LEMMA MoveHandlers ==
  ASSUME HandlersOK, NEW r \in Req, req[r].w \in DOMAIN withdrawals,
         \A p \in Req \ {r} : Pays(req[p]) => req[p].w # req[r].w,
         NEW x \in Withdrawal,
         withdrawals' = [withdrawals EXCEPT ![req[r].w] = x],
         withdrawals[req[r].w].known => x.known,
         x.status = "COMPLETED" => x.known /\ payouts[req[r].w].state = "paid",
         x.status = "FAILED" /\ x.known => payouts[req[r].w].state = "failed",
         Done(r),
         balance' \in Int, ledger' \in Seq(Entry),
         UNCHANGED payouts
  PROVE  /\ HandlersOK'
         /\ DOMAIN withdrawals' = DOMAIN withdrawals
         /\ \A v \in DOMAIN withdrawals :
              withdrawals'[v] = IF v = req[r].w THEN x ELSE withdrawals[v]
<1>1. /\ withdrawals' \in Seq(Withdrawal)
      /\ DOMAIN withdrawals' = DOMAIN withdrawals
      /\ \A v \in DOMAIN withdrawals :
           withdrawals'[v] = IF v = req[r].w THEN x ELSE withdrawals[v]
  BY UpdateInSeq DEF HandlersOK, TypeOK
<1>2. req' = [req EXCEPT ![r] = Idle] BY DEF Done
<1>3. SlotOK(Idle)' BY DEF SlotOK, Idle, Pays
<1>4. ASSUME NEW p \in Req \ {r}, Pays(req[p])
      PROVE  withdrawals'[req[p].w] = withdrawals[req[p].w]
  <2>1. req[p].w \in DOMAIN withdrawals BY <1>4 DEF HandlersOK, SlotOK, Pays
  <2> QED BY <1>1, <1>4, <2>1
<1>5. /\ req' \in [Req -> Request]
      /\ \A p \in Req : SlotOK(req[p])'
      /\ OnePayer'
  BY <1>1, <1>2, <1>3, <1>4, IdleSlot, SlotStep
<1>6. OutcomesOK' BY <1>1 DEF HandlersOK, OutcomesOK
<1> QED BY <1>1, <1>5, <1>6 DEF HandlersOK, TypeOK

\* What moves: nothing but one withdrawal, which a failure alone marks as failed.
LEMMA MoveSteps ==
  ASSUME HandlersOK, NEW r \in Req, SaveConversation(r) \/ CompletePayout(r)
  PROVE  /\ HandlersOK'
         /\ DOMAIN withdrawals' = DOMAIN withdrawals
         /\ \A v \in DOMAIN withdrawals :
              /\ withdrawals'[v].amount = withdrawals[v].amount
              /\ withdrawals[v].status = "FAILED" =>
                   withdrawals'[v].status = "FAILED"
         /\ UNCHANGED <<balance, ledger>>
<1> DEFINE w == req[r].w
<1>1. SlotOK(req[r]) /\ balance \in Int /\ ledger \in Seq(Entry)
  BY DEF HandlersOK, TypeOK
<1>2. CASE SaveConversation(r)
  <2> DEFINE x == [withdrawals[w] EXCEPT !.known = TRUE]
  <2>1. Pays(req[r]) BY <1>2 DEF SaveConversation, At, Pays
  <2>2. w \in DOMAIN withdrawals /\ withdrawals[w].status = "INITIATED"
    BY <1>1, <2>1 DEF SlotOK, Pays
  <2>3. withdrawals[w] \in Withdrawal BY <2>2, Tables DEF HandlersOK
  <2>4. /\ x \in Withdrawal /\ x.known
        /\ x.status = "INITIATED" /\ x.amount = withdrawals[w].amount
    BY <2>2, <2>3 DEF Withdrawal
  <2>5. \A p \in Req \ {r} : Pays(req[p]) => req[p].w # w BY <2>1, OtherPayers
  <2>6. /\ withdrawals' = [withdrawals EXCEPT ![w] = x] /\ Done(r)
        /\ UNCHANGED <<balance, ledger, payouts>>
    BY <1>2 DEF SaveConversation
  <2> HIDE DEF x
  <2>7. /\ HandlersOK'
        /\ DOMAIN withdrawals' = DOMAIN withdrawals
        /\ \A v \in DOMAIN withdrawals :
             withdrawals'[v] = IF v = w THEN x ELSE withdrawals[v]
    BY <1>1, <2>2, <2>4, <2>5, <2>6, MoveHandlers
  <2> QED BY <2>2, <2>4, <2>6, <2>7
<1>3. CASE CompletePayout(r)
  <2> DEFINE x == [withdrawals[w] EXCEPT !.status = "COMPLETED"]
  <2>1. /\ w \in DOMAIN withdrawals
        /\ withdrawals[w].known /\ payouts[w].state = "paid"
    BY <1>1, <1>3 DEF CompletePayout, At, SlotOK
  <2>2. withdrawals[w] \in Withdrawal BY <2>1, Tables DEF HandlersOK
  <2>3. /\ x \in Withdrawal /\ x.known
        /\ x.status = "COMPLETED" /\ x.amount = withdrawals[w].amount
    BY <2>1, <2>2 DEF Withdrawal
  <2>4. \A p \in Req \ {r} : Pays(req[p]) => req[p].w # w
    BY <2>1 DEF HandlersOK, SlotOK
  <2>5. /\ withdrawals' = [withdrawals EXCEPT ![w] = x] /\ Done(r)
        /\ UNCHANGED <<balance, ledger, payouts>>
    BY <1>3 DEF CompletePayout
  <2>6. withdrawals[w].status # "FAILED"
    BY <2>1 DEF HandlersOK, OutcomesOK
  <2> HIDE DEF x
  <2>7. /\ HandlersOK'
        /\ DOMAIN withdrawals' = DOMAIN withdrawals
        /\ \A v \in DOMAIN withdrawals :
             withdrawals'[v] = IF v = w THEN x ELSE withdrawals[v]
    BY <1>1, <2>1, <2>3, <2>4, <2>5, MoveHandlers
  <2> QED BY <2>3, <2>5, <2>6, <2>7
<1> QED BY <1>2, <1>3

LEMMA RestoreSteps ==
  ASSUME WalletAssumption, HandlersOK, NEW r \in Req, Reverse(r) \/ FailPayout(r)
  PROVE  /\ HandlersOK'
         /\ DOMAIN withdrawals' = DOMAIN withdrawals
         /\ req[r].w \in DOMAIN withdrawals
         /\ \A v \in DOMAIN withdrawals :
              /\ withdrawals'[v].amount = withdrawals[v].amount
              /\ withdrawals'[v].status = IF v = req[r].w THEN "FAILED"
                                          ELSE withdrawals[v].status
         /\ \E row \in Entry :
              /\ ledger' = Append(ledger, row)
              /\ row.w = req[r].w /\ row.reason = "WITHDRAWAL_REVERSAL"
              /\ row.amount = withdrawals[req[r].w].amount
              /\ balance' = balance + Signed(row)
<1> DEFINE w == req[r].w
           a == withdrawals[w].amount
           x == [withdrawals[w] EXCEPT !.status = "FAILED"]
           row == [type |-> "CREDIT", reason |-> "WITHDRAWAL_REVERSAL",
                   amount |-> a, before |-> balance, after |-> balance + a,
                   w |-> w]
<1>1. SlotOK(req[r]) /\ balance \in Int /\ ledger \in Seq(Entry)
  BY DEF HandlersOK, TypeOK
<1>2. /\ withdrawals' = [withdrawals EXCEPT ![w] = x] /\ Done(r)
      /\ balance' = balance + a
      /\ ledger' = Append(ledger, row)
      /\ UNCHANGED payouts
  BY DEF Reverse, FailPayout, Restore, Credit, Enter
<1>3. /\ w \in DOMAIN withdrawals
      /\ withdrawals[w].known => payouts[w].state = "failed"
      /\ \A p \in Req \ {r} : Pays(req[p]) => req[p].w # w
  <2>1. CASE Reverse(r)
    <3>1. Pays(req[r]) BY <2>1 DEF Reverse, At, Pays
    <3> QED BY <1>1, <3>1, OtherPayers DEF SlotOK, Pays
  <2>2. CASE FailPayout(r)
    <3>1. /\ w \in DOMAIN withdrawals
          /\ withdrawals[w].known /\ payouts[w].state = "failed"
      BY <1>1, <2>2 DEF FailPayout, At, SlotOK
    <3> QED BY <3>1 DEF HandlersOK, SlotOK
  <2> QED BY <2>1, <2>2
<1>4. withdrawals[w] \in Withdrawal /\ w \in Nat BY <1>3, Tables DEF HandlersOK
<1>5. /\ x \in Withdrawal /\ x.status = "FAILED" /\ x.amount = a
      /\ x.known = withdrawals[w].known /\ a \in Amount /\ a \in Int
  BY <1>4 DEF Withdrawal, WalletAssumption
<1>6. row \in Entry /\ Signed(row) = a BY <1>1, <1>4, <1>5 DEF Entry, Signed
<1>7. ledger' \in Seq(Entry) /\ balance' \in Int
  BY <1>1, <1>2, <1>5, <1>6, AppendRows
<1>8. /\ HandlersOK'
      /\ DOMAIN withdrawals' = DOMAIN withdrawals
      /\ \A v \in DOMAIN withdrawals :
           withdrawals'[v] = IF v = w THEN x ELSE withdrawals[v]
  <2> HIDE DEF x, row, a
  <2> QED BY <1>2, <1>3, <1>5, <1>7, MoveHandlers
<1>9. \A v \in DOMAIN withdrawals :
        /\ withdrawals'[v].amount = withdrawals[v].amount
        /\ withdrawals'[v].status = IF v = w THEN "FAILED"
                                    ELSE withdrawals[v].status
  <2> HIDE DEF x
  <2> QED BY <1>5, <1>8
<1>10. row.w = w /\ row.reason = "WITHDRAWAL_REVERSAL" /\ row.amount = a
  OBVIOUS
<1> HIDE DEF row
<1> QED BY <1>2, <1>3, <1>6, <1>8, <1>9, <1>10

LEMMA AmountIsInt ==
  ASSUME WalletAssumption, NEW a \in Amount PROVE a \in Int
BY DEF WalletAssumption

LEMMA DebitSteps ==
  ASSUME WalletAssumption, HandlersOK, NEW r \in Req, Debit(r)
  PROVE  /\ HandlersOK'
         /\ DOMAIN withdrawals' = DOMAIN withdrawals \cup {Len(withdrawals) + 1}
         /\ \A v \in DOMAIN withdrawals : withdrawals'[v] = withdrawals[v]
         /\ withdrawals'[Len(withdrawals) + 1].status = "INITIATED"
         /\ \E row \in Entry :
              /\ ledger' = Append(ledger, row)
              /\ row.w = Len(withdrawals) + 1 /\ row.reason = "WITHDRAWAL"
              /\ row.amount = withdrawals'[Len(withdrawals) + 1].amount
              /\ balance' = balance + Signed(row)
<1> DEFINE w == Len(withdrawals) + 1
           a == req[r].amount
           seen == req[r].seen
           x == [amount |-> a, status |-> "INITIATED", known |-> FALSE]
           y == [state |-> "none", sent |-> 0, underway |-> 0]
           row == [type |-> "DEBIT", reason |-> "WITHDRAWAL", amount |-> a,
                   before |-> seen,
                   after |-> IF seen < a THEN 0 ELSE seen - a, w |-> w]
<1>1. /\ SlotOK(req[r]) /\ req[r] \in Request /\ req[r].step = "debit"
      /\ balance \in Int /\ ledger \in Seq(Entry)
      /\ withdrawals \in Seq(Withdrawal) /\ payouts \in Seq(Payout)
  BY DEF HandlersOK, TypeOK, Debit, At
<1>2. /\ a \in Amount /\ a \in Int /\ seen \in Int
      /\ w \in Nat /\ Len(payouts) + 1 = w /\ w \notin DOMAIN withdrawals
  <2>1. /\ Len(withdrawals) \in Nat /\ DOMAIN withdrawals = 1..Len(withdrawals)
        /\ Len(payouts) \in Nat /\ DOMAIN payouts = 1..Len(payouts)
        /\ DOMAIN payouts = DOMAIN withdrawals
    BY Tables DEF HandlersOK
  <2>2. Len(payouts) = Len(withdrawals)
    <3>1. 1..Len(payouts) = 1..Len(withdrawals) BY <2>1
    <3> QED BY <2>1, <3>1, SameLength
  <2>3. a \in Amount /\ seen \in Int BY <1>1 DEF SlotOK, Request
  <2>4. a \in Int BY <2>3, AmountIsInt
  <2>5. w \in Nat /\ w \notin DOMAIN withdrawals BY <2>1
  <2>6. Len(payouts) + 1 = w BY <2>2
  <2> QED BY <2>3, <2>4, <2>5, <2>6
<1>3. /\ withdrawals' = Append(withdrawals, x)
      /\ payouts' = Append(payouts, y)
      /\ ledger' = Append(ledger, row)
      /\ balance' = balance - a
  BY DEF Debit, Enter
<1>4. x \in Withdrawal /\ y \in Payout BY <1>2 DEF Withdrawal, Payout
<1>5. row \in Entry /\ Signed(row) = -a BY <1>2 DEF Entry, Signed
<1>6. /\ withdrawals' \in Seq(Withdrawal)
      /\ DOMAIN withdrawals' = DOMAIN withdrawals \cup {w}
      /\ \A v \in DOMAIN withdrawals : withdrawals'[v] = withdrawals[v]
      /\ withdrawals'[w] = x
  BY <1>1, <1>3, <1>4, AppendRows
<1>7. /\ payouts' \in Seq(Payout)
      /\ DOMAIN payouts' = DOMAIN payouts \cup {w}
      /\ \A v \in DOMAIN payouts : payouts'[v] = payouts[v]
      /\ payouts'[w] = y
  BY <1>1, <1>2, <1>3, <1>4, AppendRows
<1>8. ledger' \in Seq(Entry) BY <1>1, <1>3, <1>5, AppendRows
<1>9. balance' \in Int /\ balance' = balance + Signed(row)
  <2>1. balance' = balance - a BY <1>3
  <2> HIDE DEF row, a
  <2> QED BY <1>1, <1>2, <1>5, <2>1
<1>10. PICK s \in Request :
         /\ req' = [req EXCEPT ![r] = s]
         /\ s.step = "callDaraja" /\ s.w = w
  <2> DEFINE t == [step |-> "callDaraja", w |-> w, amount |-> a, seen |-> seen]
  <2>1. t \in Request /\ t.step = "callDaraja" /\ t.w = w
    BY <1>1, <1>2 DEF Request, Step
  <2>2. req' = [req EXCEPT ![r] = t] BY DEF Debit
  <2> QED BY <2>1, <2>2
<1>11. SlotOK(s)' BY <1>6, <1>7, <1>10 DEF SlotOK, Pays
<1>12. ASSUME NEW p \in Req \ {r}, Pays(req[p])
       PROVE  req[p].w \in DOMAIN withdrawals /\ s.w # req[p].w
  BY <1>2, <1>10, <1>12 DEF HandlersOK, SlotOK, Pays
<1>13. DOMAIN payouts = DOMAIN withdrawals BY DEF HandlersOK
<1>14. /\ req' \in [Req -> Request]
       /\ \A p \in Req : SlotOK(req[p])'
       /\ OnePayer'
  <2> HIDE DEF w, x, y
  <2> QED BY <1>6, <1>7, <1>10, <1>11, <1>12, <1>13, SlotStep
<1>15. OutcomesOK'
  <2>1. x.status = "INITIATED" /\ y.underway = 0 OBVIOUS
  <2> HIDE DEF w, x, y
  <2> QED BY <1>6, <1>7, <1>13, <2>1 DEF HandlersOK, OutcomesOK
<1>16. HandlersOK'
  BY <1>6, <1>7, <1>8, <1>9, <1>13, <1>14, <1>15 DEF HandlersOK, TypeOK
<1>17. /\ x.status = "INITIATED" /\ x.amount = a
       /\ row.w = w /\ row.reason = "WITHDRAWAL" /\ row.amount = a
  OBVIOUS
<1> HIDE DEF row, x
<1> QED BY <1>3, <1>5, <1>6, <1>9, <1>16, <1>17

-----------------------------------------------------------------------------
(* The ledger *)

LEMMA RowsAppend ==
  ASSUME ledger \in Seq(Entry), NEW row \in Entry, ledger' = Append(ledger, row)
  PROVE  /\ Len(ledger) + 1 \notin DOMAIN ledger
         /\ DOMAIN ledger' = DOMAIN ledger \cup {Len(ledger) + 1}
         /\ \A i \in DOMAIN ledger : ledger'[i] = ledger[i] /\ i < Len(ledger) + 1
         /\ ledger'[Len(ledger) + 1] = row
         /\ \A w, reason :
              Rows(w, reason)' =
                Rows(w, reason) \cup
                  IF row.w = w /\ row.reason = reason THEN {Len(ledger) + 1} ELSE {}
<1> DEFINE n == Len(ledger) + 1
<1>1. /\ n \notin DOMAIN ledger
      /\ DOMAIN ledger' = DOMAIN ledger \cup {n}
      /\ \A i \in DOMAIN ledger : ledger'[i] = ledger[i]
      /\ ledger'[n] = row
  BY AppendRows
<1>2. \A i \in DOMAIN ledger : i < n OBVIOUS
<1>3. ASSUME NEW w, NEW reason
      PROVE  Rows(w, reason)' =
               Rows(w, reason) \cup
                 IF row.w = w /\ row.reason = reason THEN {n} ELSE {}
  <2> HIDE DEF n
  <2> QED BY <1>1 DEF Rows
<1> QED BY <1>1, <1>2, <1>3

\* Steps that write no row of the ledger.
LEMMA LedgerKept ==
  ASSUME LedgerOK, ledger' = ledger, DOMAIN withdrawals' = DOMAIN withdrawals,
         \A v \in DOMAIN withdrawals :
           /\ withdrawals'[v].amount = withdrawals[v].amount
           /\ withdrawals[v].status = "FAILED" => withdrawals'[v].status = "FAILED"
  PROVE  LedgerOK'
BY DEF LedgerOK, Rows

\* A credit: a reward belongs to no withdrawal, a reversal to a failed one.
LEMMA LedgerCredit ==
  ASSUME HandlersOK, LedgerOK, NEW row \in Entry, ledger' = Append(ledger, row),
         row.reason # "WITHDRAWAL",
         row.w \in DOMAIN withdrawals \cup {0},
         row.reason = "WITHDRAWAL_REVERSAL" =>
           /\ row.w \in DOMAIN withdrawals
           /\ withdrawals'[row.w].status = "FAILED"
           /\ row.amount = withdrawals[row.w].amount,
         DOMAIN withdrawals' = DOMAIN withdrawals,
         \A v \in DOMAIN withdrawals :
           /\ withdrawals'[v].amount = withdrawals[v].amount
           /\ withdrawals[v].status = "FAILED" => withdrawals'[v].status = "FAILED"
  PROVE  LedgerOK'
<1> DEFINE n == Len(ledger) + 1
<1>1. ledger \in Seq(Entry) BY DEF HandlersOK, TypeOK
<1>2. /\ DOMAIN ledger' = DOMAIN ledger \cup {n}
      /\ \A i \in DOMAIN ledger : ledger'[i] = ledger[i] /\ i < n
      /\ ledger'[n] = row
  BY <1>1, RowsAppend
<1>3. \A w : Rows(w, "WITHDRAWAL")' = Rows(w, "WITHDRAWAL")
  BY <1>2 DEF Rows
<1> HIDE DEF n
<1>4. \A i \in DOMAIN ledger' : ledger'[i].w \in DOMAIN withdrawals' \cup {0}
  BY <1>2 DEF LedgerOK
<1>5. ASSUME NEW w \in DOMAIN withdrawals'
      PROVE  \E j \in DOMAIN ledger' : /\ Rows(w, "WITHDRAWAL")' = {j}
                                       /\ ledger'[j].amount = withdrawals'[w].amount
  <2>1. PICK j \in DOMAIN ledger : /\ Rows(w, "WITHDRAWAL") = {j}
                                   /\ ledger[j].amount = withdrawals[w].amount
    BY DEF LedgerOK
  <2> QED BY <1>2, <1>3, <2>1
<1>6. ASSUME NEW i \in DOMAIN ledger', ledger'[i].reason = "WITHDRAWAL_REVERSAL"
      PROVE  /\ ledger'[i].w \in DOMAIN withdrawals'
             /\ withdrawals'[ledger'[i].w].status = "FAILED"
             /\ ledger'[i].amount = withdrawals'[ledger'[i].w].amount
             /\ \A j \in DOMAIN ledger' :
                  /\ ledger'[j].w = ledger'[i].w
                  /\ ledger'[j].reason = "WITHDRAWAL"
                  => j < i
  <2>1. CASE i \in DOMAIN ledger
    <3>1. ledger'[i] = ledger[i] BY <1>2, <2>1
    <3> QED BY <1>6, <2>1, <3>1 DEF LedgerOK
  <2>2. CASE i = n BY <1>2, <1>6, <2>2
  <2> QED BY <1>2, <2>1, <2>2
<1> QED BY <1>2, <1>4, <1>5, <1>6 DEF LedgerOK

\* The debit of a new withdrawal is its only one.
LEMMA LedgerDebit ==
  ASSUME HandlersOK, LedgerOK, NEW row \in Entry, ledger' = Append(ledger, row),
         NEW w \in Nat \ {0}, w \notin DOMAIN withdrawals,
         row.reason = "WITHDRAWAL", row.w = w,
         DOMAIN withdrawals' = DOMAIN withdrawals \cup {w},
         \A v \in DOMAIN withdrawals : withdrawals'[v] = withdrawals[v],
         row.amount = withdrawals'[w].amount
  PROVE  LedgerOK'
<1> DEFINE n == Len(ledger) + 1
<1>1. ledger \in Seq(Entry) BY DEF HandlersOK, TypeOK
<1>2. /\ DOMAIN ledger' = DOMAIN ledger \cup {n}
      /\ \A i \in DOMAIN ledger : ledger'[i] = ledger[i]
      /\ ledger'[n] = row
      /\ \A v : Rows(v, "WITHDRAWAL")' =
                  Rows(v, "WITHDRAWAL") \cup IF v = w THEN {n} ELSE {}
  BY <1>1, RowsAppend
<1>3. Rows(w, "WITHDRAWAL") = {} BY DEF Rows, LedgerOK
<1> HIDE DEF n
<1>4. \A i \in DOMAIN ledger' : ledger'[i].w \in DOMAIN withdrawals' \cup {0}
  BY <1>2 DEF LedgerOK
<1>5. ASSUME NEW v \in DOMAIN withdrawals'
      PROVE  \E j \in DOMAIN ledger' : /\ Rows(v, "WITHDRAWAL")' = {j}
                                       /\ ledger'[j].amount = withdrawals'[v].amount
  <2>1. CASE v = w
    <3>1. Rows(v, "WITHDRAWAL")' = {n} BY <1>2, <1>3, <2>1
    <3> QED BY <1>2, <2>1, <3>1
  <2>2. CASE v # w
    <3>1. PICK j \in DOMAIN ledger : /\ Rows(v, "WITHDRAWAL") = {j}
                                     /\ ledger[j].amount = withdrawals[v].amount
      BY <2>2 DEF LedgerOK
    <3>2. Rows(v, "WITHDRAWAL")' = {j} BY <1>2, <2>2, <3>1
    <3> QED BY <1>2, <2>2, <3>1, <3>2
  <2> QED BY <2>1, <2>2
<1>6. ASSUME NEW i \in DOMAIN ledger', ledger'[i].reason = "WITHDRAWAL_REVERSAL"
      PROVE  /\ ledger'[i].w \in DOMAIN withdrawals'
             /\ withdrawals'[ledger'[i].w].status = "FAILED"
             /\ ledger'[i].amount = withdrawals'[ledger'[i].w].amount
             /\ \A j \in DOMAIN ledger' :
                  /\ ledger'[j].w = ledger'[i].w
                  /\ ledger'[j].reason = "WITHDRAWAL"
                  => j < i
  <2>1. i \in DOMAIN ledger /\ ledger'[i] = ledger[i] BY <1>2, <1>6
  <2>2. ledger[i].w \in DOMAIN withdrawals /\ ledger[i].w # w
    BY <1>6, <2>1 DEF LedgerOK
  <2> QED BY <1>2, <1>6, <2>1, <2>2 DEF LedgerOK
<1> QED BY <1>4, <1>5, <1>6 DEF LedgerOK

-----------------------------------------------------------------------------
(* Every step *)

\* What EveryChangeLedgered says of one step.
Ledgered ==
  \/ balance' = balance /\ ledger' = ledger
  \/ /\ Len(ledger') = Len(ledger) + 1
     /\ \A i \in DOMAIN ledger : ledger'[i] = ledger[i]
     /\ balance' = balance + Signed(ledger'[Len(ledger')])

LEMMA RowIsLedgered ==
  ASSUME HandlersOK, NEW row \in Entry, ledger' = Append(ledger, row),
         balance' = balance + Signed(row)
  PROVE  Ledgered
<1>1. ledger \in Seq(Entry) BY DEF HandlersOK, TypeOK
<1>2. /\ Len(ledger') = Len(ledger) + 1
      /\ ledger'[Len(ledger) + 1] = row
      /\ \A i \in DOMAIN ledger : ledger'[i] = ledger[i]
  BY <1>1, AppendProperties
<1> QED BY <1>2 DEF Ledgered

LEMMA RewardSteps ==
  ASSUME WalletAssumption, HandlersOK, NEW r \in Req, NEW a \in Amount, Reward(r, a)
  PROVE  /\ UNCHANGED withdrawals
         /\ \E row \in Entry :
              /\ ledger' = Append(ledger, row)
              /\ row.w = 0 /\ row.reason = "FINDER_REWARD"
              /\ balance' = balance + Signed(row)
<1> DEFINE row == [type |-> "CREDIT", reason |-> "FINDER_REWARD", amount |-> a,
                   before |-> balance, after |-> balance + a, w |-> 0]
<1>1. balance \in Int /\ a \in Int BY AmountIsInt DEF HandlersOK, TypeOK
<1>2. row \in Entry /\ Signed(row) = a BY <1>1 DEF Entry, Signed
<1>3. UNCHANGED withdrawals /\ balance' = balance + a /\ ledger' = Append(ledger, row)
  BY DEF Reward, Credit, Enter
<1>4. row.w = 0 /\ row.reason = "FINDER_REWARD" OBVIOUS
<1> HIDE DEF row
<1> QED BY <1>2, <1>3, <1>4

\* Each action keeps the invariant and writes what it does to the balance.
LEMMA EveryStep ==
  ASSUME WalletAssumption, IInv, [Next]_vars
  PROVE  IInv' /\ Ledgered
<1> USE DEF IInv
<1>1. ASSUME NEW r \in Req, NEW a \in Amount, Reward(r, a) PROVE IInv' /\ Ledgered
  <2>1. HandlersOK' BY <1>1, RewardHandlers
  <2>2. PICK row \in Entry :
          /\ ledger' = Append(ledger, row)
          /\ row.w = 0 /\ row.reason = "FINDER_REWARD"
          /\ balance' = balance + Signed(row)
    BY <1>1, RewardSteps
  <2>3. UNCHANGED withdrawals BY <1>1 DEF Reward
  <2>4. LedgerOK' BY <2>2, <2>3, LedgerCredit
  <2>5. Ledgered BY <2>2, RowIsLedgered
  <2> QED BY <2>1, <2>4, <2>5
<1>2. ASSUME NEW r \in Req, StartWithdraw(r) \/ LoseConversation(r) \/ Die(r)
      PROVE  IInv' /\ Ledgered
  <2>1. HandlersOK' BY <1>2, SlotOnlyHandlers
  <2>2. UNCHANGED <<balance, ledger, withdrawals>>
    BY <1>2 DEF StartWithdraw, LoseConversation, Die
  <2>3. LedgerOK' BY <2>2, LedgerKept
  <2> QED BY <2>1, <2>2, <2>3 DEF Ledgered
<1>3. ASSUME NEW r \in Req, CallDaraja(r) PROVE IInv' /\ Ledgered
  <2>1. HandlersOK' BY <1>3, CallHandlers
  <2>2. UNCHANGED <<balance, ledger, withdrawals>> BY <1>3 DEF CallDaraja
  <2>3. LedgerOK' BY <2>2, LedgerKept
  <2> QED BY <2>1, <2>2, <2>3 DEF Ledgered
<1>4. ASSUME NEW r \in Req, SaveConversation(r) \/ CompletePayout(r)
      PROVE  IInv' /\ Ledgered
  <2>1. /\ HandlersOK' /\ UNCHANGED <<balance, ledger>>
        /\ DOMAIN withdrawals' = DOMAIN withdrawals
        /\ \A v \in DOMAIN withdrawals :
             /\ withdrawals'[v].amount = withdrawals[v].amount
             /\ withdrawals[v].status = "FAILED" =>
                  withdrawals'[v].status = "FAILED"
    BY <1>4, MoveSteps
  <2>2. LedgerOK' BY <2>1, LedgerKept
  <2> QED BY <2>1, <2>2 DEF Ledgered
<1>5. ASSUME NEW r \in Req, Reverse(r) \/ FailPayout(r) PROVE IInv' /\ Ledgered
  <2>1. /\ HandlersOK'
        /\ DOMAIN withdrawals' = DOMAIN withdrawals
        /\ req[r].w \in DOMAIN withdrawals
        /\ \A v \in DOMAIN withdrawals :
             /\ withdrawals'[v].amount = withdrawals[v].amount
             /\ withdrawals'[v].status = IF v = req[r].w THEN "FAILED"
                                         ELSE withdrawals[v].status
    BY <1>5, RestoreSteps
  <2>2. PICK row \in Entry :
          /\ ledger' = Append(ledger, row)
          /\ row.w = req[r].w /\ row.reason = "WITHDRAWAL_REVERSAL"
          /\ row.amount = withdrawals[req[r].w].amount
          /\ balance' = balance + Signed(row)
    BY <1>5, RestoreSteps
  <2>3. LedgerOK' BY <2>1, <2>2, LedgerCredit
  <2>4. Ledgered BY <2>2, RowIsLedgered
  <2> QED BY <2>1, <2>3, <2>4
<1>6. ASSUME NEW r \in Req, Debit(r) PROVE IInv' /\ Ledgered
  <2> DEFINE w == Len(withdrawals) + 1
  <2>1. /\ HandlersOK'
        /\ DOMAIN withdrawals' = DOMAIN withdrawals \cup {w}
        /\ \A v \in DOMAIN withdrawals : withdrawals'[v] = withdrawals[v]
    BY <1>6, DebitSteps
  <2>2. PICK row \in Entry :
          /\ ledger' = Append(ledger, row)
          /\ row.w = w /\ row.reason = "WITHDRAWAL"
          /\ row.amount = withdrawals'[w].amount
          /\ balance' = balance + Signed(row)
    BY <1>6, DebitSteps
  <2>3. w \in Nat \ {0} /\ w \notin DOMAIN withdrawals
    <3>1. Len(withdrawals) \in Nat /\ DOMAIN withdrawals = 1..Len(withdrawals)
      BY Tables DEF HandlersOK
    <3> QED BY <3>1
  <2>4. LedgerOK'
    <3> HIDE DEF w
    <3> QED BY <2>1, <2>2, <2>3, LedgerDebit
  <2>5. Ledgered BY <2>2, RowIsLedgered
  <2> QED BY <2>1, <2>4, <2>5
<1>7. ASSUME NEW r \in Req, NEW w \in DOMAIN payouts, StartCallback(r, w)
      PROVE  IInv' /\ Ledgered
  <2>1. HandlersOK' BY <1>7, CallbackHandlers
  <2>2. UNCHANGED <<balance, ledger, withdrawals>> BY <1>7 DEF StartCallback
  <2>3. LedgerOK' BY <2>2, LedgerKept
  <2> QED BY <2>1, <2>2, <2>3 DEF Ledgered
<1>8. ASSUME NEW w \in DOMAIN payouts, Settle(w) \/ ReportAgain(w)
      PROVE  IInv' /\ Ledgered
  <2>1. HandlersOK' BY <1>8, SettleHandlers
  <2>2. UNCHANGED <<balance, ledger, withdrawals>> BY <1>8 DEF Settle, ReportAgain
  <2>3. LedgerOK' BY <2>2, LedgerKept
  <2> QED BY <2>1, <2>2, <2>3 DEF Ledgered
<1>9. CASE UNCHANGED vars
  <2>1. /\ HandlersOK' /\ UNCHANGED <<balance, ledger, withdrawals>>
    BY <1>9 DEF vars, HandlersOK, TypeOK, SlotOK, Pays, OnePayer, OutcomesOK
  <2>2. LedgerOK' BY <2>1, LedgerKept
  <2> QED BY <2>1, <2>2 DEF Ledgered
<1>10. CASE Next
  BY <1>1, <1>2, <1>3, <1>4, <1>5, <1>6, <1>7, <1>8, <1>10 DEF Next
<1> QED BY <1>9, <1>10

-----------------------------------------------------------------------------
(* The theorems *)

LEMMA InitHolds == ASSUME WalletAssumption, Init PROVE IInv
<1>1. TypeOK BY IdleSlot DEF Init, TypeOK
<1>2. \A r \in Req : req[r] = Idle BY DEF Init
<1>3. DOMAIN withdrawals = {} /\ DOMAIN payouts = {} /\ DOMAIN ledger = {}
  BY DEF Init
<1>4. HandlersOK BY <1>1, <1>2, <1>3, IdleSlot DEF HandlersOK, OnePayer, OutcomesOK
<1>5. LedgerOK BY <1>3 DEF LedgerOK
<1> QED BY <1>4, <1>5 DEF IInv

LEMMA Invariant == Spec => []IInv
<1>1. Init => IInv BY WalletAssumption, InitHolds
<1>2. IInv /\ [Next]_vars => IInv' BY WalletAssumption, EveryStep
<1> QED BY <1>1, <1>2, PTL DEF Spec

\* Wallets, ledgers, withdrawals, payouts and handlers keep their types.
THEOREM TypeCorrect == Spec => []TypeOK
<1>1. IInv => TypeOK BY DEF IInv, HandlersOK
<1> QED BY <1>1, Invariant, PTL

\* handleWithdrawalCallback against every other handler: however answers are
\* lost, and however callbacks are repeated and overlap, a withdrawal counts as
\* completed only if Daraja paid it, and its debit was not given back.
THEOREM CompletedWasPaid == Spec => []CompletedIsPaid
<1>1. IInv => CompletedIsPaid
  <2> SUFFICES ASSUME IInv, NEW w \in DOMAIN withdrawals,
                      withdrawals[w].status = "COMPLETED"
               PROVE  /\ payouts[w].state = "paid"
                      /\ Rows(w, "WITHDRAWAL_REVERSAL") = {}
    BY DEF CompletedIsPaid
  <2>1. payouts[w].state = "paid" BY DEF IInv, HandlersOK, OutcomesOK
  <2>2. \A i \in DOMAIN ledger :
          ledger[i].reason = "WITHDRAWAL_REVERSAL" => ledger[i].w # w
    BY DEF IInv, LedgerOK
  <2> QED BY <2>1, <2>2 DEF Rows
<1> QED BY <1>1, Invariant, PTL

\* Both reversal paths: every reversal row belongs to a withdrawal marked as
\* failed and follows, and equals, its one debit.
THEOREM OnlyTakenIsRestored == Spec => []RestoresWhatItTook
<1>1. IInv => RestoresWhatItTook
  <2> SUFFICES ASSUME IInv, NEW w \in DOMAIN withdrawals,
                      NEW i \in Rows(w, "WITHDRAWAL_REVERSAL")
               PROVE  /\ withdrawals[w].status = "FAILED"
                      /\ \E j \in Rows(w, "WITHDRAWAL") :
                           /\ j < i
                           /\ ledger[j].amount = ledger[i].amount
                           /\ Rows(w, "WITHDRAWAL") = {j}
    BY DEF RestoresWhatItTook
  <2>1. /\ i \in DOMAIN ledger /\ ledger[i].w = w
        /\ ledger[i].reason = "WITHDRAWAL_REVERSAL"
    BY DEF Rows
  <2>2. PICK j \in DOMAIN ledger :
          /\ Rows(w, "WITHDRAWAL") = {j}
          /\ ledger[j].amount = withdrawals[w].amount
    BY DEF IInv, LedgerOK
  <2>3. ledger[j].w = w /\ ledger[j].reason = "WITHDRAWAL" BY <2>2 DEF Rows
  <2>4. /\ withdrawals[w].status = "FAILED"
        /\ ledger[i].amount = withdrawals[w].amount
        /\ j < i
    BY <2>1, <2>2, <2>3 DEF IInv, LedgerOK
  <2> QED BY <2>2, <2>4
<1> QED BY <1>1, Invariant, PTL

\* Both ends of a payout, whatever is lost, repeated or overlaps.
THEOREM PayoutsAreSettled == Spec => []PayoutsSettle
<1>1. CompletedIsPaid /\ RestoresWhatItTook => PayoutsSettle BY DEF PayoutsSettle
<1> QED BY <1>1, CompletedWasPaid, OnlyTakenIsRestored, PTL

\* Credits, debits and reversals: no step moves the balance without the row that
\* says by how much, and no step touches a row that is written.
THEOREM ChangesAreLedgered == Spec => EveryChangeLedgered
<1>1. IInv /\ [Next]_vars => Ledgered BY WalletAssumption, EveryStep
<1>2. Ledgered <=> (\/ balance' = balance /\ ledger' = ledger
                    \/ /\ Len(ledger') = Len(ledger) + 1
                       /\ \A i \in DOMAIN ledger : ledger'[i] = ledger[i]
                       /\ balance' = balance + Signed(ledger'[Len(ledger')]))
  BY DEF Ledgered
<1> QED BY <1>1, <1>2, Invariant, PTL DEF Spec, EveryChangeLedgered

-----------------------------------------------------------------------------
(* The account *)

\* Amount and status of each withdrawal, which is all the account knows of it.
Shown == [w \in DOMAIN withdrawals |->
            [amount |-> withdrawals[w].amount, status |-> withdrawals[w].status]]

ShownRow == [amount: Amount, status: {"INITIATED", "COMPLETED", "FAILED"}]

LEMMA ShownRows ==
  ASSUME TypeOK
  PROVE  Shown \in Seq(ShownRow) /\ Len(Shown) = Len(withdrawals)
<1>1. /\ Len(withdrawals) \in Nat /\ DOMAIN withdrawals = 1..Len(withdrawals)
      /\ \A w \in DOMAIN withdrawals : withdrawals[w] \in Withdrawal
  BY Tables
<1> DEFINE row(w) == [amount |-> withdrawals[w].amount, status |-> withdrawals[w].status]
<1>2. \A w \in 1..Len(withdrawals) : row(w) \in ShownRow
  BY <1>1 DEF Withdrawal, ShownRow
<1>3. [w \in 1..Len(withdrawals) |-> row(w)] \in Seq(ShownRow)
  <2> HIDE DEF row
  <2> QED BY <1>1, <1>2, IsASeq
<1>4. Shown \in Seq(ShownRow) BY <1>1, <1>3 DEF Shown
<1>5. DOMAIN Shown = 1..Len(withdrawals) BY <1>1 DEF Shown
<1>6. DOMAIN Shown = 1..Len(Shown) /\ Len(Shown) \in Nat BY <1>4, LenProperties
<1>7. Len(Shown) = Len(withdrawals) BY <1>1, <1>5, <1>6, SameLength
<1> QED BY <1>4, <1>7

\* A withdrawal that changes its status, or nothing that is shown.
LEMMA ShownUpdate ==
  ASSUME NEW w \in DOMAIN withdrawals, NEW status,
         DOMAIN withdrawals' = DOMAIN withdrawals,
         \A v \in DOMAIN withdrawals :
           /\ withdrawals'[v].amount = withdrawals[v].amount
           /\ withdrawals'[v].status = IF v = w THEN status ELSE withdrawals[v].status
  PROVE  Shown' = [Shown EXCEPT ![w].status = status]
BY DEF Shown

LEMMA ShownSame ==
  ASSUME DOMAIN withdrawals' = DOMAIN withdrawals,
         \A v \in DOMAIN withdrawals :
           /\ withdrawals'[v].amount = withdrawals[v].amount
           /\ withdrawals'[v].status = withdrawals[v].status
  PROVE  Shown' = Shown
BY DEF Shown

LEMMA AccountStep ==
  ASSUME WalletAssumption, IInv, IInv', [Next]_vars
  PROVE  [TheAccount!Next]_(TheAccount!vars)
<1> USE DEF IInv
<1>same. ASSUME balance' = balance, Shown' = Shown PROVE UNCHANGED TheAccount!vars
  BY <1>same DEF TheAccount!vars, Shown
<1>1. ASSUME NEW r \in Req, NEW a \in Amount, Reward(r, a) PROVE TheAccount!Next
  <2>1. balance' = balance + a /\ withdrawals' = withdrawals
    BY <1>1 DEF Reward, Credit
  <2>2. TheAccount!Deposit(a) BY <2>1 DEF TheAccount!Deposit
  <2> QED BY <2>2 DEF TheAccount!Next
<1>2. CASE UNCHANGED <<balance, withdrawals>>
  BY <1>same, <1>2 DEF Shown
<1>3. ASSUME NEW r \in Req, SaveConversation(r) PROVE UNCHANGED TheAccount!vars
  <2>1. /\ balance' = balance
        /\ withdrawals' = [withdrawals EXCEPT ![req[r].w].known = TRUE]
    BY <1>3 DEF SaveConversation
  <2>2. \A v \in DOMAIN withdrawals : withdrawals[v] \in Withdrawal
    BY Tables DEF HandlersOK
  <2>3. /\ DOMAIN withdrawals' = DOMAIN withdrawals
        /\ \A v \in DOMAIN withdrawals :
             /\ withdrawals'[v].amount = withdrawals[v].amount
             /\ withdrawals'[v].status = withdrawals[v].status
    BY <2>1, <2>2 DEF Withdrawal
  <2>4. Shown' = Shown BY <2>3, ShownSame
  <2> QED BY <1>same, <2>1, <2>4
<1>4. ASSUME NEW r \in Req, CompletePayout(r)
      PROVE  TheAccount!Next \/ UNCHANGED TheAccount!vars
  <2>0. PICK w \in DOMAIN withdrawals : w = req[r].w
    BY <1>4 DEF CompletePayout, At, HandlersOK, SlotOK
  <2>1. /\ balance' = balance
        /\ withdrawals' = [withdrawals EXCEPT ![w] =
                             [withdrawals[w] EXCEPT !.status = "COMPLETED"]]
    BY <1>4, <2>0 DEF CompletePayout
  <2>2. /\ w \in DOMAIN withdrawals
        /\ withdrawals[w].known /\ payouts[w].state = "paid"
    BY <1>4, <2>0 DEF CompletePayout, At, HandlersOK, SlotOK
  <2>3. /\ withdrawals[w].status # "FAILED"
        /\ \A v \in DOMAIN withdrawals : withdrawals[v] \in Withdrawal
    BY <2>2, Tables DEF HandlersOK, OutcomesOK
  <2>4. /\ DOMAIN withdrawals' = DOMAIN withdrawals
        /\ \A v \in DOMAIN withdrawals :
             /\ withdrawals'[v].amount = withdrawals[v].amount
             /\ withdrawals'[v].status = IF v = w THEN "COMPLETED" ELSE withdrawals[v].status
    BY <2>1, <2>2, <2>3 DEF Withdrawal
  <2>5. CASE withdrawals[w].status = "COMPLETED"
    <3>1. Shown' = Shown BY <2>4, <2>5, ShownSame
    <3> QED BY <1>same, <2>1, <3>1
  <2>6. CASE withdrawals[w].status = "INITIATED"
    <3>1. Shown' = [Shown EXCEPT ![w].status = "COMPLETED"] BY <2>2, <2>4, ShownUpdate
    <3>2. w \in DOMAIN Shown /\ Shown[w].status = "INITIATED" BY <2>2, <2>6 DEF Shown
    <3>3. TheAccount!Pay(w) BY <2>1, <3>1, <3>2 DEF TheAccount!Pay, Shown
    <3>4. \E v \in DOMAIN Shown : TheAccount!Pay(v) \/ TheAccount!GiveBack(v)
      BY <3>2, <3>3
    <3> QED BY <3>4 DEF TheAccount!Next, Shown
  <2> QED BY <2>2, <2>3, <2>5, <2>6 DEF Withdrawal
<1>5. ASSUME NEW r \in Req, Reverse(r) \/ FailPayout(r) PROVE TheAccount!Next
  <2>0. PICK w \in DOMAIN withdrawals : w = req[r].w BY <1>5, RestoreSteps
  <2>1. /\ w \in DOMAIN withdrawals
        /\ DOMAIN withdrawals' = DOMAIN withdrawals
        /\ \A v \in DOMAIN withdrawals :
             /\ withdrawals'[v].amount = withdrawals[v].amount
             /\ withdrawals'[v].status = IF v = w THEN "FAILED" ELSE withdrawals[v].status
    BY <1>5, <2>0, RestoreSteps
  <2>2. balance' = balance + withdrawals[w].amount
    BY <1>5, <2>0 DEF Reverse, FailPayout, Restore, Credit
  <2>3. withdrawals[w].status # "COMPLETED"
    BY <1>5, <2>0 DEF Reverse, FailPayout, At, HandlersOK, SlotOK, Pays, OutcomesOK
  <2>4. Shown' = [Shown EXCEPT ![w].status = "FAILED"] BY <2>1, ShownUpdate
  <2>5. /\ w \in DOMAIN Shown /\ Shown[w].status # "COMPLETED"
        /\ Shown[w].amount = withdrawals[w].amount
    BY <2>1, <2>3 DEF Shown
  <2>6. TheAccount!GiveBack(w) BY <2>2, <2>4, <2>5 DEF TheAccount!GiveBack, Shown
  <2>7. \E v \in DOMAIN Shown : TheAccount!Pay(v) \/ TheAccount!GiveBack(v)
    BY <2>5, <2>6
  <2> QED BY <2>7 DEF TheAccount!Next, Shown
<1>6. ASSUME NEW r \in Req, Debit(r) PROVE TheAccount!Next
  <2> DEFINE n == Len(withdrawals) + 1
  <2>1. PICK a \in Amount : a = req[r].amount
    BY <1>6 DEF Debit, At, HandlersOK, SlotOK
  <2>2. balance' = balance - a BY <1>6, <2>1 DEF Debit
  <2>3. /\ DOMAIN withdrawals' = DOMAIN withdrawals \cup {n}
        /\ \A v \in DOMAIN withdrawals : withdrawals'[v] = withdrawals[v]
        /\ withdrawals'[n].status = "INITIATED" /\ withdrawals'[n].amount = a
    <3> DEFINE x == [amount |-> a, status |-> "INITIATED", known |-> FALSE]
    <3>1. withdrawals' = Append(withdrawals, x) BY <1>6, <2>1 DEF Debit
    <3>2. x \in Withdrawal BY <2>1 DEF Withdrawal
    <3>3. withdrawals \in Seq(Withdrawal) BY DEF HandlersOK, TypeOK
    <3> QED BY <3>1, <3>2, <3>3, AppendRows
  <2>4. Shown \in Seq(ShownRow) /\ Shown' \in Seq(ShownRow) /\ Len(Shown) = Len(withdrawals)
    <3>1. TypeOK /\ TypeOK' BY DEF HandlersOK
    <3>2. Shown \in Seq(ShownRow) /\ Len(Shown) = Len(withdrawals) BY <3>1, ShownRows
    <3>3. TypeOK => Shown \in Seq(ShownRow) BY ShownRows
    <3>4. (TypeOK => Shown \in Seq(ShownRow))' BY ShownRows, PTL
    <3> QED BY <3>1, <3>2, <3>4
  <2>5. Len(Shown) \in Nat BY <2>4, LenProperties
  <2> HIDE DEF n
  <2>6. /\ DOMAIN Shown' = DOMAIN Shown \cup {n}
        /\ \A v \in DOMAIN Shown : Shown'[v] = Shown[v]
        /\ Shown'[n] = [amount |-> a, status |-> "INITIATED"]
    BY <2>3 DEF Shown
  <2>7. Shown' = Append(Shown, [amount |-> a, status |-> "INITIATED"])
    BY <2>4, <2>5, <2>6, AppendedRow DEF n
  <2>8. TheAccount!Request(a) BY <2>2, <2>7 DEF TheAccount!Request, Shown
  <2>9. \E b \in Amount : TheAccount!Deposit(b) \/ TheAccount!Request(b)
    BY <2>8
  <2> QED BY <2>9 DEF TheAccount!Next
<1>7. CASE UNCHANGED vars BY <1>2, <1>7 DEF vars
<1>8. ASSUME NEW r \in Req, \/ StartWithdraw(r) \/ CallDaraja(r) \/ LoseConversation(r)
                            \/ Die(r) \/ \E w \in DOMAIN payouts : StartCallback(r, w)
      PROVE  UNCHANGED <<balance, withdrawals>>
  BY <1>8 DEF StartWithdraw, CallDaraja, LoseConversation, Die, StartCallback
<1>9. ASSUME NEW w \in DOMAIN payouts, Settle(w) \/ ReportAgain(w)
      PROVE  UNCHANGED <<balance, withdrawals>>
  BY <1>9 DEF Settle, ReportAgain
<1> QED BY <1>1, <1>2, <1>3, <1>4, <1>5, <1>6, <1>7, <1>8, <1>9 DEF Next

\* Under every fault and overlap the wallet with its handlers, ledger and payment service
\* implements the account: every transaction is one operation of it or changes nothing.
THEOREM ImplementsAccount == Spec => IsAccount
<1>1. Init => TheAccount!Init
  <2> SUFFICES ASSUME Init PROVE TheAccount!Init OBVIOUS
  <2>1. TypeOK /\ Len(withdrawals) = 0 BY WalletAssumption, InitHolds DEF Init, IInv, HandlersOK
  <2>2. Shown \in Seq(ShownRow) /\ Len(Shown) = 0 BY <2>1, ShownRows
  <2>3. Shown = <<>> BY <2>2, EmptySeq
  <2> QED BY <2>3 DEF Init, TheAccount!Init, Shown
<1>2. IInv /\ IInv' /\ [Next]_vars => [TheAccount!Next]_(TheAccount!vars)
  BY AccountStep, WalletAssumption
<1> QED BY <1>1, <1>2, Invariant, PTL DEF Spec, IsAccount, TheAccount!Spec

-----------------------------------------------------------------------------
(* While handlers have not overlapped *)

\* A payout is reported only when it has an outcome, and then at least once.
Counts ==
  \A w \in DOMAIN payouts :
    /\ payouts[w].underway <= payouts[w].sent
    /\ payouts[w].sent > 0 <=> payouts[w].state \in {"paid", "failed"}

SoleBusy == \A r, p \in Req : req[r] # Idle /\ req[p] # Idle => r = p

\* The balance a withdrawal was checked against is still the balance.
DebitSound ==
  \A r \in Req : At(r, "debit") => req[r].seen = balance /\ req[r].amount <= balance

\* What is reported once arrives at a withdrawal that is still open, and nobody
\* else will hear of it.
ReportsOnce ==
  /\ \A w \in DOMAIN withdrawals :
       withdrawals[w].known /\ payouts[w].sent <= 1 /\ payouts[w].underway > 0 =>
         withdrawals[w].status = "INITIATED"
  /\ \A r \in Req :
       req[r].step \in {"complete", "fail"} /\ payouts[req[r].w].sent <= 1 =>
         /\ withdrawals[req[r].w].status = "INITIATED"
         /\ payouts[req[r].w].underway = 0

RestoredOnce ==
  \A w \in DOMAIN withdrawals :
    withdrawals[w].status = "FAILED" /\ payouts[w].sent <= 1 =>
      \E i \in DOMAIN ledger : Rows(w, "WITHDRAWAL_REVERSAL") = {i}

Serial ==
  /\ SoleBusy
  /\ DebitSound
  /\ ReportsOnce
  /\ NeverOverdrawn
  /\ LedgerChains
  /\ RestoredOnce

SerialInv == IInv /\ Counts /\ overlapped \in BOOLEAN /\ (~overlapped => Serial)


\* What ~overlapped' says of a step.
Alone ==
  \A r \in Req : req[r] # Idle /\ req'[r] = req[r] => req' = req /\ balance' = balance

\* A step that moves one slot finds the other slots idle.
LEMMA SoleMover ==
  ASSUME TypeOK, Alone, NEW r \in Req, NEW s, req' = [req EXCEPT ![r] = s], req' # req
  PROVE  /\ req'[r] = s
         /\ \A p \in Req \ {r} : req[p] = Idle /\ req'[p] = Idle
         /\ SoleBusy'
<1>1. req \in [Req -> Request] BY DEF TypeOK
<1>2. req'[r] = s /\ \A p \in Req \ {r} : req'[p] = req[p] BY <1>1
<1>3. \A p \in Req \ {r} : req[p] = Idle BY <1>2 DEF Alone
<1> QED BY <1>2, <1>3 DEF SoleBusy, Idle

LEMMA CountsRow ==
  ASSUME HandlersOK, Counts, NEW w \in DOMAIN payouts, NEW x \in Payout,
         payouts' = [payouts EXCEPT ![w] = x],
         x.underway <= x.sent,
         x.sent > 0 <=> x.state \in {"paid", "failed"}
  PROVE  Counts'
BY PayoutRow DEF Counts

LEMMA CountsStep ==
  ASSUME WalletAssumption, IInv, Counts, [Next]_vars
  PROVE  Counts'
<1> USE DEF IInv
<1>1. \A w \in DOMAIN payouts : payouts[w] \in Payout BY Tables DEF HandlersOK
<1>2. CASE UNCHANGED payouts BY <1>2 DEF Counts
<1>3. ASSUME NEW r \in Req, Debit(r) PROVE Counts'
  <2> DEFINE y == [state |-> "none", sent |-> 0, underway |-> 0]
  <2>1. payouts' = Append(payouts, y) BY <1>3 DEF Debit
  <2>2. y \in Payout /\ y.underway <= y.sent /\ ~(y.sent > 0) /\ y.state = "none"
    BY DEF Payout
  <2>3. payouts \in Seq(Payout) BY DEF HandlersOK, TypeOK
  <2> HIDE DEF y
  <2>4. /\ DOMAIN payouts' = DOMAIN payouts \cup {Len(payouts) + 1}
        /\ \A v \in DOMAIN payouts : payouts'[v] = payouts[v]
        /\ payouts'[Len(payouts) + 1] = y
    BY <2>1, <2>2, <2>3, AppendRows
  <2> QED BY <2>2, <2>4 DEF Counts
<1>4. ASSUME NEW r \in Req, CallDaraja(r) PROVE Counts'
  <2> DEFINE w == req[r].w
             x == [payouts[w] EXCEPT !.state = "accepted"]
  <2>1. payouts' = [payouts EXCEPT ![w] = x] \/ payouts' = payouts
    BY <1>4 DEF CallDaraja
  <2>2. w \in DOMAIN payouts /\ payouts[w].state = "none"
    BY <1>4 DEF CallDaraja, At, HandlersOK, SlotOK
  <2>3. /\ x \in Payout /\ x.state = "accepted"
        /\ x.sent = payouts[w].sent /\ x.underway = payouts[w].underway
    BY <1>1, <2>2 DEF Payout
  <2>4. x.underway <= x.sent /\ ~(x.sent > 0) BY <2>2, <2>3 DEF Counts
  <2> HIDE DEF x
  <2> QED BY <1>2, <2>1, <2>2, <2>3, <2>4, CountsRow
<1>5. ASSUME NEW w \in DOMAIN payouts, Settle(w) PROVE Counts'
  <2>1. PICK outcome \in {"paid", "failed"} :
          payouts' = [payouts EXCEPT ![w] = [state |-> outcome, sent |-> 1,
                                             underway |-> 1]]
    BY <1>5 DEF Settle
  <2> DEFINE x == [state |-> outcome, sent |-> 1, underway |-> 1]
  <2>2. /\ x \in Payout /\ x.underway <= x.sent
        /\ x.sent > 0 /\ x.state \in {"paid", "failed"}
    BY DEF Payout
  <2>3. payouts' = [payouts EXCEPT ![w] = x] BY <2>1
  <2> HIDE DEF x
  <2> QED BY <2>2, <2>3, CountsRow
<1>6. ASSUME NEW w \in DOMAIN payouts, ReportAgain(w) PROVE Counts'
  <2> DEFINE x == [state |-> payouts[w].state, sent |-> payouts[w].sent + 1,
                   underway |-> payouts[w].underway + 1]
  <2>1. payouts' = [payouts EXCEPT ![w] = x] BY <1>6 DEF ReportAgain
  <2>2. x \in Payout /\ x.underway <= x.sent
    BY <1>1 DEF Payout, Counts
  <2>3. x.sent > 0 /\ x.state \in {"paid", "failed"}
    BY <1>1, <1>6 DEF Payout, ReportAgain
  <2> HIDE DEF x
  <2> QED BY <2>1, <2>2, <2>3, CountsRow
<1>7. ASSUME NEW r \in Req, NEW w \in DOMAIN payouts, StartCallback(r, w)
      PROVE  Counts'
  <2> DEFINE x == [payouts[w] EXCEPT !.underway = payouts[w].underway - 1]
  <2>1. payouts' = [payouts EXCEPT ![w] = x] /\ payouts[w].underway > 0
    BY <1>7 DEF StartCallback
  <2>2. /\ x \in Payout /\ x.underway = payouts[w].underway - 1
        /\ x.sent = payouts[w].sent /\ x.state = payouts[w].state
    BY <1>1, <2>1 DEF Payout
  <2>3. x.underway <= x.sent /\ (x.sent > 0 <=> x.state \in {"paid", "failed"})
    BY <1>1, <2>2 DEF Payout, Counts
  <2> HIDE DEF x
  <2> QED BY <2>1, <2>2, <2>3, CountsRow
<1>8. ASSUME NEW r \in Req, \/ \E a \in Amount : Reward(r, a)
                            \/ StartWithdraw(r) \/ SaveConversation(r)
                            \/ LoseConversation(r) \/ Reverse(r)
                            \/ CompletePayout(r) \/ FailPayout(r) \/ Die(r)
      PROVE  UNCHANGED payouts
  BY <1>8 DEF Reward, StartWithdraw, SaveConversation, LoseConversation, Reverse,
              Restore, CompletePayout, FailPayout, Die
<1>9. CASE UNCHANGED vars BY <1>2, <1>9 DEF vars
<1> QED BY <1>2, <1>3, <1>4, <1>5, <1>6, <1>7, <1>8, <1>9 DEF Next

\* Steps that leave the money alone and mark nothing as failed.
LEMMA QuietSerial ==
  ASSUME IInv, Serial, Alone, NEW r \in Req, NEW s,
         req' = [req EXCEPT ![r] = s],
         s.step = "debit" => s.seen = balance /\ s.amount <= balance,
         ReportsOnce',
         UNCHANGED <<balance, ledger>>,
         DOMAIN withdrawals' = DOMAIN withdrawals,
         \A v \in DOMAIN withdrawals :
           /\ withdrawals'[v].status = "FAILED" => withdrawals[v].status = "FAILED"
           /\ payouts'[v].sent <= 1 => payouts[v].sent <= 1
  PROVE  Serial'
<1>1. TypeOK BY DEF IInv, HandlersOK
<1>2. SoleBusy'
  <2>1. CASE req' = req BY <2>1 DEF Serial, SoleBusy, Idle
  <2>2. CASE req' # req BY <1>1, <2>2, SoleMover
  <2> QED BY <2>1, <2>2
<1>3. DebitSound'
  <2>1. \A p \in Req : req'[p] = IF p = r THEN s ELSE req[p] BY <1>1 DEF TypeOK
  <2> QED BY <2>1 DEF Serial, DebitSound, At
<1>4. RestoredOnce'
  <2>1. \A w : Rows(w, "WITHDRAWAL_REVERSAL")' = Rows(w, "WITHDRAWAL_REVERSAL")
    BY DEF Rows
  <2> QED BY <2>1 DEF Serial, RestoredOnce
<1> QED BY <1>2, <1>3, <1>4 DEF Serial, NeverOverdrawn, LedgerChains, Signed

\* The slots that hear of a payout are the callbacks'.
LEMMA QuietReports ==
  ASSUME IInv, Serial, NEW r \in Req, NEW s, req' = [req EXCEPT ![r] = s],
         s.step \notin {"complete", "fail"},
         UNCHANGED withdrawals,
         \A v \in DOMAIN withdrawals : /\ payouts'[v].sent = payouts[v].sent
                                       /\ payouts'[v].underway = payouts[v].underway
  PROVE  ReportsOnce'
<1>1. \A p \in Req : req'[p] = IF p = r THEN s ELSE req[p]
  BY DEF IInv, HandlersOK, TypeOK
<1>2. \A p \in Req : req[p].step \in {"complete", "fail"} =>
                       req[p].w \in DOMAIN withdrawals
  BY DEF IInv, HandlersOK, SlotOK
<1> QED BY <1>1, <1>2 DEF Serial, ReportsOnce


LEMMA SlotSerial ==
  ASSUME WalletAssumption, IInv, Serial, Alone, NEW r \in Req,
         \/ StartWithdraw(r) \/ LoseConversation(r) \/ Die(r) \/ CallDaraja(r)
  PROVE  Serial'
<1>0. req \in [Req -> Request] /\ req[r] \in Request /\ TypeOK
  BY DEF IInv, HandlersOK, TypeOK
<1>1. UNCHANGED <<balance, ledger, withdrawals>>
  BY DEF StartWithdraw, LoseConversation, Die, CallDaraja
<1>2. \A v \in DOMAIN withdrawals : /\ payouts'[v].sent = payouts[v].sent
                                    /\ payouts'[v].underway = payouts[v].underway
  <2>1. CASE UNCHANGED payouts BY <2>1
  <2>2. CASE CallDaraja(r) /\ payouts' # payouts
    <3>1. payouts' = [payouts EXCEPT ![req[r].w] =
                        [payouts[req[r].w] EXCEPT !.state = "accepted"]]
      BY <2>2 DEF CallDaraja
    <3>2. \A v \in DOMAIN payouts : payouts[v] \in Payout BY <1>0, Tables
    <3>3. DOMAIN payouts = DOMAIN withdrawals BY DEF IInv, HandlersOK
    <3> QED BY <3>1, <3>2, <3>3 DEF Payout
  <2> QED BY <2>1, <2>2 DEF StartWithdraw, LoseConversation, Die
<1>3. \E s : /\ req' = [req EXCEPT ![r] = s]
             /\ s.step \notin {"complete", "fail"}
             /\ s.step = "debit" => s.seen = balance /\ s.amount <= balance
  <2>1. CASE StartWithdraw(r)
    <3>1. PICK a \in Amount :
            /\ a <= balance
            /\ req' = [req EXCEPT ![r] = [step |-> "debit", w |-> 0, amount |-> a,
                                          seen |-> balance]]
      BY <2>1 DEF StartWithdraw
    <3> DEFINE s == [step |-> "debit", w |-> 0, amount |-> a, seen |-> balance]
    <3>2. s.step = "debit" /\ s.seen = balance /\ s.amount <= balance BY <3>1
    <3>3. req' = [req EXCEPT ![r] = s] BY <3>1
    <3> HIDE DEF s
    <3> QED BY <3>2, <3>3
  <2>2. CASE Die(r)
    <3>1. req' = [req EXCEPT ![r] = Idle] /\ Idle.step = "idle"
      BY <2>2 DEF Die, Done, Idle
    <3> QED BY <3>1
  <2>3. ASSUME NEW step \in {"saveConversation", "reverse"}, Goto(r, step)
        PROVE  \E s : /\ req' = [req EXCEPT ![r] = s]
                      /\ s.step \notin {"complete", "fail"}
                      /\ s.step = "debit" => s.seen = balance /\ s.amount <= balance
    <3> DEFINE s == [req[r] EXCEPT !.step = step]
    <3>1. req' = [req EXCEPT ![r] = s] BY <2>3 DEF Goto
    <3>2. s.step = step BY <1>0 DEF Request
    <3> HIDE DEF s
    <3> QED BY <3>1, <3>2
  <2> QED BY <2>1, <2>2, <2>3 DEF LoseConversation, CallDaraja
<1>4. PICK s : /\ req' = [req EXCEPT ![r] = s]
               /\ s.step \notin {"complete", "fail"}
               /\ s.step = "debit" => s.seen = balance /\ s.amount <= balance
  BY <1>3
<1>5. ReportsOnce' BY <1>1, <1>2, <1>4, QuietReports
<1> QED BY <1>1, <1>2, <1>4, <1>5, QuietSerial

\* The conversation is stored while the withdrawal is open.
LEMMA SaveSerial ==
  ASSUME IInv, Serial, Alone, NEW r \in Req, SaveConversation(r)
  PROVE  Serial'
<1> DEFINE w == req[r].w
<1>0. req \in [Req -> Request] /\ TypeOK BY DEF IInv, HandlersOK, TypeOK
<1>1. /\ withdrawals' = [withdrawals EXCEPT ![w] =
                           [withdrawals[w] EXCEPT !.known = TRUE]]
      /\ req' = [req EXCEPT ![r] = Idle]
      /\ UNCHANGED <<balance, ledger, payouts>>
  BY DEF SaveConversation, Done
<1>2. w \in DOMAIN withdrawals /\ withdrawals[w].status = "INITIATED"
  BY DEF SaveConversation, At, IInv, HandlersOK, SlotOK, Pays
<1>3. \A v \in DOMAIN withdrawals : withdrawals[v] \in Withdrawal BY <1>0, Tables
<1>4. /\ DOMAIN withdrawals' = DOMAIN withdrawals
      /\ \A v \in DOMAIN withdrawals :
           /\ withdrawals'[v].status = withdrawals[v].status
           /\ v # w => withdrawals'[v] = withdrawals[v]
  BY <1>1, <1>3 DEF Withdrawal
<1>5. ReportsOnce'
  <2>1. \A p \in Req : req'[p] = IF p = r THEN Idle ELSE req[p] BY <1>0, <1>1
  <2>2. \A p \in Req : req[p].step \in {"complete", "fail"} =>
                         req[p].w \in DOMAIN withdrawals
    BY DEF IInv, HandlersOK, SlotOK
  <2>3. Idle.step = "idle" BY DEF Idle
  <2> HIDE DEF w
  <2> QED BY <1>1, <1>2, <1>4, <2>1, <2>2, <2>3 DEF Serial, ReportsOnce
<1>6. Idle.step = "idle" BY DEF Idle
<1> QED BY <1>1, <1>4, <1>5, <1>6, QuietSerial

\* The last report of a payout that was paid.
LEMMA CompleteSerial ==
  ASSUME IInv, Serial, Alone, NEW r \in Req, CompletePayout(r)
  PROVE  Serial'
<1> DEFINE w == req[r].w
<1>0. req \in [Req -> Request] /\ TypeOK BY DEF IInv, HandlersOK, TypeOK
<1>1. /\ withdrawals' = [withdrawals EXCEPT ![w] =
                           [withdrawals[w] EXCEPT !.status = "COMPLETED"]]
      /\ req' = [req EXCEPT ![r] = Idle]
      /\ req[r].step = "complete"
      /\ UNCHANGED <<balance, ledger, payouts>>
  BY DEF CompletePayout, Done, At
<1>2. /\ w \in DOMAIN withdrawals
      /\ payouts[w].sent <= 1 => payouts[w].underway = 0
  BY <1>1 DEF IInv, HandlersOK, SlotOK, Serial, ReportsOnce
<1>3. \A v \in DOMAIN withdrawals : withdrawals[v] \in Withdrawal BY <1>0, Tables
<1>4. /\ DOMAIN withdrawals' = DOMAIN withdrawals
      /\ withdrawals'[w].status = "COMPLETED"
      /\ \A v \in DOMAIN withdrawals : v # w => withdrawals'[v] = withdrawals[v]
  BY <1>1, <1>2, <1>3 DEF Withdrawal
<1>5. Idle.step = "idle" BY DEF Idle
<1>6. req' # req BY <1>0, <1>1, <1>5
<1>7. \A p \in Req : req'[p] = Idle BY <1>0, <1>1, <1>6, SoleMover
<1>8. ReportsOnce'
  <2> HIDE DEF w
  <2> QED BY <1>1, <1>2, <1>4, <1>5, <1>7 DEF Serial, ReportsOnce
<1>9. \A v \in DOMAIN withdrawals :
        withdrawals'[v].status = "FAILED" => withdrawals[v].status = "FAILED"
  <2> HIDE DEF w
  <2> QED BY <1>4
<1> QED BY <1>1, <1>4, <1>5, <1>8, <1>9, QuietSerial

\* Daraja: an outcome reported for the first time, and again.
LEMMA SettleSerial ==
  ASSUME IInv, Counts, Serial, Alone, NEW w \in DOMAIN payouts,
         Settle(w) \/ ReportAgain(w)
  PROVE  Serial'
<1>0. /\ req \in [Req -> Request] /\ TypeOK /\ w \in DOMAIN withdrawals
      /\ DOMAIN payouts = DOMAIN withdrawals
  BY DEF IInv, HandlersOK, TypeOK
<1>1. UNCHANGED <<balance, ledger, withdrawals, req>> BY DEF Settle, ReportAgain
<1>2. payouts[w] \in Payout BY <1>0, Tables
<1>3. \A p \in Req : req[p].step \in {"complete", "fail"} =>
        /\ req[p].w \in DOMAIN withdrawals
        /\ payouts[req[p].w].state \in {"paid", "failed"}
  BY DEF IInv, HandlersOK, SlotOK
<1>4. PICK x \in Payout :
        /\ payouts' = [payouts EXCEPT ![w] = x]
        /\ \/ payouts[w].state = "accepted" /\ x.sent = 1
           \/ x.sent = payouts[w].sent + 1 /\ payouts[w].sent > 0
  <2>1. CASE Settle(w)
    <3>1. PICK outcome \in {"paid", "failed"} :
            payouts' = [payouts EXCEPT ![w] = [state |-> outcome, sent |-> 1,
                                               underway |-> 1]]
      BY <2>1 DEF Settle
    <3>2. [state |-> outcome, sent |-> 1, underway |-> 1] \in Payout BY DEF Payout
    <3>3. payouts[w].state = "accepted" BY <2>1 DEF Settle
    <3> QED BY <3>1, <3>2, <3>3
  <2>2. CASE ReportAgain(w)
    <3> DEFINE x == [state |-> payouts[w].state, sent |-> payouts[w].sent + 1,
                     underway |-> payouts[w].underway + 1]
    <3>1. payouts' = [payouts EXCEPT ![w] = x] BY <2>2 DEF ReportAgain
    <3>2. x \in Payout /\ x.sent = payouts[w].sent + 1 BY <1>2 DEF Payout
    <3>3. payouts[w].sent > 0 BY <2>2 DEF ReportAgain, Counts
    <3> HIDE DEF x
    <3> QED BY <3>1, <3>2, <3>3
  <2> QED BY <2>1, <2>2
<1>5. /\ DOMAIN payouts' = DOMAIN payouts
      /\ \A v \in DOMAIN payouts : payouts'[v] = IF v = w THEN x ELSE payouts[v]
  BY <1>0, <1>4
<1>6. payouts[w].sent \in Nat /\ x.sent \in Nat BY <1>2 DEF Payout
<1>7. payouts[w].state = "accepted" \/ x.sent > 1 BY <1>4, <1>6
<1>8. payouts[w].state = "accepted" /\ withdrawals[w].known =>
        withdrawals[w].status = "INITIATED"
  <2>1. withdrawals[w] \in Withdrawal BY <1>0, Tables
  <2> QED BY <1>0, <2>1 DEF IInv, HandlersOK, OutcomesOK, Withdrawal
<1>9. ReportsOnce'
  <2>1. ASSUME NEW v \in DOMAIN withdrawals, withdrawals[v].known,
               payouts'[v].sent <= 1, payouts'[v].underway > 0
        PROVE  withdrawals[v].status = "INITIATED"
    <3>1. CASE v = w BY <1>0, <1>5, <1>6, <1>7, <1>8, <2>1, <3>1
    <3>2. CASE v # w BY <1>0, <1>5, <2>1, <3>2 DEF Serial, ReportsOnce
    <3> QED BY <3>1, <3>2
  <2>2. ASSUME NEW p \in Req, req[p].step \in {"complete", "fail"},
               payouts'[req[p].w].sent <= 1
        PROVE  /\ withdrawals[req[p].w].status = "INITIATED"
               /\ payouts'[req[p].w].underway = 0
    <3>1. req[p].w # w BY <1>0, <1>3, <1>5, <1>6, <1>7, <2>2
    <3> QED BY <1>0, <1>3, <1>5, <2>2, <3>1 DEF Serial, ReportsOnce
  <2> QED BY <1>1, <2>1, <2>2 DEF ReportsOnce
<1>10. \A v \in DOMAIN withdrawals : payouts'[v].sent <= 1 => payouts[v].sent <= 1
  <2>1. payouts[w].state = "accepted" => payouts[w].sent <= 1
    BY <1>6 DEF Counts
  <2> QED BY <1>0, <1>4, <1>5, <1>6, <2>1
<1>11. RestoredOnce'
  <2>1. \A v : Rows(v, "WITHDRAWAL_REVERSAL")' = Rows(v, "WITHDRAWAL_REVERSAL")
    BY <1>1 DEF Rows
  <2> QED BY <1>1, <1>10, <2>1 DEF Serial, RestoredOnce
<1> QED BY <1>1, <1>9, <1>11
        DEF Serial, SoleBusy, DebitSound, At, NeverOverdrawn, LedgerChains, Signed

\* A report arrives: whoever takes it up is the only one who will.
LEMMA CallbackSerial ==
  ASSUME IInv, Counts, Serial, Alone, NEW r \in Req, NEW w \in DOMAIN payouts,
         StartCallback(r, w)
  PROVE  Serial'
<1>0. /\ req \in [Req -> Request] /\ TypeOK /\ w \in DOMAIN withdrawals
      /\ DOMAIN payouts = DOMAIN withdrawals
  BY DEF IInv, HandlersOK, TypeOK
<1>1. UNCHANGED <<balance, ledger, withdrawals>> /\ payouts[w].underway > 0
  BY DEF StartCallback
<1>2. payouts[w] \in Payout BY <1>0, Tables
<1>3. \A p \in Req : req[p].step \in {"complete", "fail"} =>
        req[p].w \in DOMAIN withdrawals
  BY DEF IInv, HandlersOK, SlotOK
<1>4. PICK x \in Payout :
        /\ payouts' = [payouts EXCEPT ![w] = x]
        /\ x.sent = payouts[w].sent /\ x.underway = payouts[w].underway - 1
  <2> DEFINE x == [payouts[w] EXCEPT !.underway = payouts[w].underway - 1]
  <2>1. payouts' = [payouts EXCEPT ![w] = x] BY DEF StartCallback
  <2>2. x \in Payout /\ x.sent = payouts[w].sent
        /\ x.underway = payouts[w].underway - 1
    BY <1>1, <1>2 DEF Payout
  <2> HIDE DEF x
  <2> QED BY <2>1, <2>2
<1>5. /\ DOMAIN payouts' = DOMAIN payouts
      /\ \A v \in DOMAIN payouts : payouts'[v] = IF v = w THEN x ELSE payouts[v]
  BY <1>0, <1>4
<1>6. x.sent <= 1 => payouts[w].sent <= 1 /\ x.underway = 0
  BY <1>1, <1>2, <1>4 DEF Counts, Payout
<1>7. \A v \in DOMAIN withdrawals : payouts'[v].sent <= 1 => payouts[v].sent <= 1
  BY <1>0, <1>5, <1>6
<1>8. \A v \in DOMAIN withdrawals :
        withdrawals[v].known /\ payouts'[v].sent <= 1 /\ payouts'[v].underway > 0 =>
          withdrawals[v].status = "INITIATED"
  <2> SUFFICES ASSUME NEW v \in DOMAIN withdrawals, withdrawals[v].known,
                      payouts'[v].sent <= 1, payouts'[v].underway > 0
               PROVE  withdrawals[v].status = "INITIATED"
    OBVIOUS
  <2>1. v # w BY <1>0, <1>5, <1>6
  <2> QED BY <1>0, <1>5, <2>1 DEF Serial, ReportsOnce
<1>9. CASE req' = req
  <2>1. ASSUME NEW p \in Req, req[p].step \in {"complete", "fail"},
               payouts'[req[p].w].sent <= 1
        PROVE  /\ withdrawals[req[p].w].status = "INITIATED"
               /\ payouts'[req[p].w].underway = 0
    <3>1. /\ withdrawals[req[p].w].status = "INITIATED"
          /\ payouts[req[p].w].underway = 0
      BY <1>3, <1>7, <2>1 DEF Serial, ReportsOnce
    <3>2. req[p].w # w BY <1>1, <3>1
    <3> QED BY <1>0, <1>3, <1>5, <2>1, <3>1, <3>2
  <2>2. ReportsOnce' BY <1>1, <1>8, <1>9, <2>1 DEF ReportsOnce
  <2>3. req' = [req EXCEPT ![r] = req[r]] BY <1>0, <1>9
  <2>4. req[r].step = "idle" BY DEF StartCallback, Idle
  <2> QED BY <1>1, <1>7, <2>2, <2>3, <2>4, QuietSerial
<1>10. CASE req' # req
  <2>1. PICK s : /\ req' = [req EXCEPT ![r] = s]
                 /\ s.step \in {"complete", "fail"} /\ s.w = w
                 /\ withdrawals[w].known
    <3> DEFINE s == [step |-> IF payouts[w].state = "paid" THEN "complete"
                              ELSE "fail", w |-> w, amount |-> 0, seen |-> 0]
    <3>1. withdrawals[w].known /\ req' = [req EXCEPT ![r] = s]
      BY <1>10 DEF StartCallback
    <3>2. s.step \in {"complete", "fail"} /\ s.w = w OBVIOUS
    <3> HIDE DEF s
    <3> QED BY <3>1, <3>2
  <2>2. req'[r] = s /\ \A p \in Req \ {r} : req'[p] = Idle
    BY <1>0, <1>10, <2>1, SoleMover
  <2>3. x.sent <= 1 => withdrawals[w].status = "INITIATED"
    BY <1>0, <1>1, <1>6, <2>1 DEF Serial, ReportsOnce
  <2>4. Idle.step = "idle" BY DEF Idle
  <2>5. ReportsOnce'
    BY <1>0, <1>1, <1>5, <1>6, <1>8, <2>1, <2>2, <2>3, <2>4 DEF ReportsOnce
  <2>6. s.step # "debit" BY <2>1
  <2> QED BY <1>1, <1>7, <2>1, <2>5, <2>6, QuietSerial
<1> QED BY <1>9, <1>10


\* A row that starts from the balance and ends at the new one continues the chain.
LEMMA ChainGrows ==
  ASSUME TypeOK, LedgerChains, NEW row \in Entry, ledger' = Append(ledger, row),
         row.before = balance, row.after = balance + Signed(row),
         balance' = row.after
  PROVE  LedgerChains'
<1> DEFINE n == Len(ledger) + 1
<1>1. ledger \in Seq(Entry) /\ Len(ledger) \in Nat /\ DOMAIN ledger = 1..Len(ledger)
  BY Tables DEF TypeOK
<1>2. /\ DOMAIN ledger' = DOMAIN ledger \cup {n}
      /\ \A i \in DOMAIN ledger : ledger'[i] = ledger[i]
      /\ ledger'[n] = row
  BY <1>1, AppendRows
<1>3. ledger' \in Seq(Entry) /\ Len(ledger') = n BY <1>1, AppendProperties
<1>4. ledger' # <<>>
  <2>1. Len(ledger') # 0 BY <1>1, <1>3
  <2> QED BY <2>1
<1>5. ASSUME NEW i \in DOMAIN ledger'
      PROVE  /\ ledger'[i].before = IF i = 1 THEN 0 ELSE ledger'[i - 1].after
             /\ ledger'[i].after = ledger'[i].before + Signed(ledger'[i])
  <2>1. CASE i \in DOMAIN ledger
    <3>1. i # 1 => i - 1 \in DOMAIN ledger BY <1>1, <2>1
    <3>2. ledger'[i] = ledger[i] /\ (i # 1 => ledger'[i - 1] = ledger[i - 1])
      BY <1>2, <2>1, <3>1
    <3> QED BY <2>1, <3>2 DEF LedgerChains
  <2>2. CASE i = n
    <3>1. ledger'[i] = row BY <1>2, <2>2
    <3>2. CASE ledger = <<>>
      <4>1. i = 1 /\ balance = 0 BY <2>2, <3>2 DEF LedgerChains
      <4> QED BY <3>1, <4>1
    <3>3. CASE ledger # <<>>
      <4>1. Len(ledger) # 0 BY <1>1, <3>3, EmptySeq
      <4>2. i # 1 /\ i - 1 = Len(ledger) /\ i - 1 \in DOMAIN ledger
        BY <1>1, <2>2, <4>1
      <4>3. ledger'[i - 1].after = balance BY <1>2, <3>3, <4>2 DEF LedgerChains
      <4> QED BY <3>1, <4>2, <4>3
    <3> QED BY <3>2, <3>3
  <2> QED BY <1>2, <2>1, <2>2
<1>6. balance' = ledger'[Len(ledger')].after BY <1>2, <1>3
<1>7. Signed(row)' = Signed(row) BY DEF Signed
<1> HIDE DEF n
<1> QED BY <1>4, <1>5, <1>6 DEF LedgerChains, Signed

\* Rewards and reversals.
LEMMA CreditChains ==
  ASSUME WalletAssumption, TypeOK, LedgerChains, NEW a \in Amount, NEW w \in Nat,
         NEW reason \in {"FINDER_REWARD", "WITHDRAWAL_REVERSAL"},
         Credit(reason, a, w)
  PROVE  LedgerChains' /\ balance' = balance + a
<1> DEFINE row == [type |-> "CREDIT", reason |-> reason, amount |-> a,
                   before |-> balance, after |-> balance + a, w |-> w]
<1>1. balance \in Int /\ a \in Int BY AmountIsInt DEF TypeOK
<1>2. /\ row \in Entry /\ Signed(row) = a
      /\ row.before = balance /\ row.after = balance + a
  BY <1>1 DEF Entry, Signed
<1>3. ledger' = Append(ledger, row) /\ balance' = balance + a BY DEF Credit, Enter
<1> HIDE DEF row
<1> QED BY <1>2, <1>3, ChainGrows

\* The reversal rows of a withdrawal after a row was added.
LEMMA ReversalRows ==
  ASSUME TypeOK, NEW row \in Entry, ledger' = Append(ledger, row)
  PROVE  /\ Len(ledger) + 1 \in DOMAIN ledger'
         /\ DOMAIN ledger \subseteq DOMAIN ledger'
         /\ \A v : Rows(v, "WITHDRAWAL_REVERSAL")' =
                     Rows(v, "WITHDRAWAL_REVERSAL") \cup
                       IF row.w = v /\ row.reason = "WITHDRAWAL_REVERSAL"
                       THEN {Len(ledger) + 1} ELSE {}
<1>1. ledger \in Seq(Entry) BY DEF TypeOK
<1>2. /\ DOMAIN ledger' = DOMAIN ledger \cup {Len(ledger) + 1}
      /\ \A v, reason :
              Rows(v, reason)' =
                Rows(v, reason) \cup
                  IF row.w = v /\ row.reason = reason THEN {Len(ledger) + 1} ELSE {}
  BY <1>1, RowsAppend
<1> QED BY <1>2

\* A reward finds every slot idle: a handler checked against the balance is alone.
LEMMA RewardSerial ==
  ASSUME WalletAssumption, IInv, Serial, Alone, NEW r \in Req, NEW a \in Amount,
         Reward(r, a)
  PROVE  Serial'
<1>0. TypeOK /\ balance \in Int BY DEF IInv, HandlersOK, TypeOK
<1>1. UNCHANGED <<withdrawals, payouts, req>> BY DEF Reward
<1>2. LedgerChains' /\ balance' = balance + a
  BY <1>0, CreditChains DEF Reward, Serial
<1>3. a \in Nat \ {0} BY DEF WalletAssumption
<1>4. \A p \in Req : req[p] = Idle BY <1>0, <1>1, <1>2, <1>3 DEF Alone
<1>5. NeverOverdrawn' BY <1>0, <1>2, <1>3 DEF Serial, NeverOverdrawn
<1>6. SoleBusy' /\ DebitSound' BY <1>1, <1>4 DEF SoleBusy, DebitSound, At, Idle
<1>7. ReportsOnce' BY <1>1 DEF Serial, ReportsOnce
<1>8. RestoredOnce'
  <2>1. PICK row \in Entry :
          /\ ledger' = Append(ledger, row)
          /\ row.w = 0 /\ row.reason = "FINDER_REWARD"
    BY RewardSteps DEF IInv
  <2>2. /\ DOMAIN ledger \subseteq DOMAIN ledger'
        /\ \A v : Rows(v, "WITHDRAWAL_REVERSAL")' = Rows(v, "WITHDRAWAL_REVERSAL")
    BY <1>0, <2>1, ReversalRows
  <2> QED BY <1>1, <2>2 DEF Serial, RestoredOnce
<1> QED BY <1>2, <1>5, <1>6, <1>7, <1>8 DEF Serial

\* A debit takes what was checked, and is written with the balance it was taken from.
LEMMA DebitSerial ==
  ASSUME WalletAssumption, IInv, Serial, Alone, NEW r \in Req, Debit(r)
  PROVE  Serial'
<1> DEFINE w == Len(withdrawals) + 1
           a == req[r].amount
           row == [type |-> "DEBIT", reason |-> "WITHDRAWAL", amount |-> a,
                   before |-> balance, after |-> balance - a, w |-> w]
<1>0. /\ TypeOK /\ balance \in Int /\ req \in [Req -> Request]
      /\ DOMAIN payouts = DOMAIN withdrawals
      /\ req[r].step = "debit" /\ SlotOK(req[r])
  BY DEF IInv, HandlersOK, TypeOK, Debit, At
<1>1. a \in Amount /\ a \in Int /\ req[r].seen = balance /\ a <= balance
  BY <1>0, AmountIsInt DEF SlotOK, Serial, DebitSound, At
<1>2. balance' = balance - a BY DEF Debit
<1>3. ledger' = Append(ledger, row)
  <2>1. ~(req[r].seen < a) BY <1>0, <1>1
  <2> QED BY <1>1, <2>1 DEF Debit, Enter
<1>4. w \in Nat BY <1>0, Tables
<1>5. /\ row \in Entry /\ Signed(row) = -a /\ row.reason = "WITHDRAWAL"
      /\ row.before = balance /\ row.after = balance - a
  BY <1>0, <1>1, <1>4 DEF Entry, Signed
<1>6. balance + (-a) = balance - a BY <1>0, <1>1
<1>7. LedgerChains' /\ NeverOverdrawn'
  <2>1. NeverOverdrawn' BY <1>0, <1>1, <1>2 DEF NeverOverdrawn
  <2> HIDE DEF row, a
  <2>2. LedgerChains' BY <1>0, <1>2, <1>3, <1>5, <1>6, ChainGrows DEF Serial
  <2> QED BY <2>1, <2>2
<1>8. PICK s : req' = [req EXCEPT ![r] = s] /\ s.step = "callDaraja"
  <2> DEFINE s == [step |-> "callDaraja", w |-> w, amount |-> a, seen |-> req[r].seen]
  <2>1. req' = [req EXCEPT ![r] = s] BY DEF Debit
  <2>2. s.step = "callDaraja" OBVIOUS
  <2> HIDE DEF s
  <2> QED BY <2>1, <2>2
<1>9. req' # req BY <1>0, <1>8
<1>10. /\ req'[r] = s /\ SoleBusy'
       /\ \A p \in Req \ {r} : req'[p] = Idle
  BY <1>0, <1>8, <1>9, SoleMover
<1>11. \A p \in Req : req'[p].step \notin {"debit", "complete", "fail"}
  BY <1>8, <1>10 DEF Idle
<1>12. DebitSound' BY <1>11 DEF DebitSound, At
<1>13. /\ DOMAIN withdrawals' = DOMAIN withdrawals \cup {w}
       /\ \A v \in DOMAIN withdrawals : withdrawals'[v] = withdrawals[v]
       /\ withdrawals'[w].status = "INITIATED" /\ ~withdrawals'[w].known
  <2> DEFINE x == [amount |-> a, status |-> "INITIATED", known |-> FALSE]
  <2>1. withdrawals' = Append(withdrawals, x) BY DEF Debit
  <2>2. x \in Withdrawal /\ x.status = "INITIATED" /\ ~x.known
    BY <1>1 DEF Withdrawal
  <2>3. withdrawals \in Seq(Withdrawal) BY <1>0 DEF TypeOK
  <2> HIDE DEF x, a
  <2> QED BY <2>1, <2>2, <2>3, AppendRows
<1>14. \A v \in DOMAIN withdrawals : payouts'[v] = payouts[v]
  <2> DEFINE y == [state |-> "none", sent |-> 0, underway |-> 0]
  <2>1. payouts' = Append(payouts, y) BY DEF Debit
  <2>2. y \in Payout BY DEF Payout
  <2>3. payouts \in Seq(Payout) BY <1>0 DEF TypeOK
  <2> HIDE DEF y
  <2> QED BY <1>0, <2>1, <2>2, <2>3, AppendRows
<1>15. ReportsOnce'
  <2> HIDE DEF w
  <2> QED BY <1>11, <1>13, <1>14 DEF Serial, ReportsOnce
<1>16. RestoredOnce'
  <2> HIDE DEF w, row
  <2>1. /\ DOMAIN ledger \subseteq DOMAIN ledger'
        /\ \A v : Rows(v, "WITHDRAWAL_REVERSAL")' = Rows(v, "WITHDRAWAL_REVERSAL")
    BY <1>0, <1>3, <1>5, ReversalRows
  <2> QED BY <1>13, <1>14, <2>1 DEF Serial, RestoredOnce
<1> QED BY <1>7, <1>10, <1>12, <1>15, <1>16 DEF Serial

\* A withdrawal that is given back is still open unless its failure was reported
\* before, so that its first reversal is its only one.
LEMMA RestoreSerial ==
  ASSUME WalletAssumption, IInv, Serial, Alone, NEW r \in Req,
         Reverse(r) \/ FailPayout(r)
  PROVE  Serial'
<1> DEFINE w == req[r].w
           a == withdrawals[w].amount
           n == Len(ledger) + 1
<1>0. /\ TypeOK /\ balance \in Int /\ req \in [Req -> Request]
      /\ DOMAIN payouts = DOMAIN withdrawals
  BY DEF IInv, HandlersOK, TypeOK
<1>1. /\ w \in DOMAIN withdrawals
      /\ DOMAIN withdrawals' = DOMAIN withdrawals
      /\ \A v \in DOMAIN withdrawals :
           withdrawals'[v].status = IF v = w THEN "FAILED" ELSE withdrawals[v].status
  BY RestoreSteps DEF IInv
<1>2. /\ withdrawals[w] \in Withdrawal /\ a \in Amount /\ a \in Nat \ {0}
      /\ w \in Nat
  <2>1. withdrawals[w] \in Withdrawal /\ w \in Nat BY <1>0, <1>1, Tables
  <2>2. a \in Amount BY <2>1 DEF Withdrawal
  <2> HIDE DEF a
  <2> QED BY <2>1, <2>2 DEF WalletAssumption
<1>3. /\ Credit("WITHDRAWAL_REVERSAL", a, w)
      /\ req' = [req EXCEPT ![r] = Idle] /\ UNCHANGED payouts
      /\ withdrawals' = [withdrawals EXCEPT ![w] =
                           [withdrawals[w] EXCEPT !.status = "FAILED"]]
      /\ req[r].step \in {"reverse", "fail"}
  BY DEF Reverse, FailPayout, Restore, Done, At
<1>4. LedgerChains' /\ balance' = balance + a
  <2> HIDE DEF w, a
  <2> QED BY <1>0, <1>2, <1>3, CreditChains DEF Serial
<1>5. NeverOverdrawn' BY <1>0, <1>2, <1>4 DEF Serial, NeverOverdrawn
<1>6. req' # req BY <1>0, <1>3 DEF Idle
<1>7. /\ SoleBusy' /\ \A p \in Req : req'[p] = Idle BY <1>0, <1>3, <1>6, SoleMover
<1>8. DebitSound' BY <1>7 DEF DebitSound, At, Idle
<1>9. /\ payouts[w].sent <= 1 => withdrawals[w].status = "INITIATED"
      /\ payouts[w].sent <= 1 /\ withdrawals[w].known => payouts[w].underway = 0
  <2>1. CASE req[r].step = "reverse"
    BY <2>1 DEF IInv, HandlersOK, SlotOK, Pays
  <2>2. CASE req[r].step = "fail"
    BY <2>2 DEF Serial, ReportsOnce
  <2> QED BY <1>3, <2>1, <2>2
<1>10. /\ withdrawals'[w].known = withdrawals[w].known
       /\ \A v \in DOMAIN withdrawals : v # w => withdrawals'[v] = withdrawals[v]
  BY <1>1, <1>2, <1>3 DEF Withdrawal
<1>11. ReportsOnce'
  <2>1. ASSUME NEW v \in DOMAIN withdrawals', withdrawals'[v].known,
               payouts[v].sent <= 1, payouts[v].underway > 0
        PROVE  withdrawals'[v].status = "INITIATED"
    <3>1. v # w
      <4>1. ~(payouts[w].underway > 0) \/ ~withdrawals[w].known
                \/ ~(payouts[w].sent <= 1)
        BY <1>9
      <4> HIDE DEF w
      <4> QED BY <1>10, <2>1, <4>1
    <3> HIDE DEF w
    <3> QED BY <1>1, <1>10, <2>1, <3>1 DEF Serial, ReportsOnce
  <2>2. \A p \in Req : req'[p].step \notin {"complete", "fail"} BY <1>7 DEF Idle
  <2> QED BY <1>3, <2>1, <2>2 DEF ReportsOnce
<1>12. RestoredOnce'
  <2>1. PICK row \in Entry :
          /\ ledger' = Append(ledger, row)
          /\ row.w = w /\ row.reason = "WITHDRAWAL_REVERSAL"
    BY RestoreSteps DEF IInv
  <2>2. /\ n \in DOMAIN ledger' /\ DOMAIN ledger \subseteq DOMAIN ledger'
        /\ \A v : Rows(v, "WITHDRAWAL_REVERSAL")' =
                    Rows(v, "WITHDRAWAL_REVERSAL") \cup IF v = w THEN {n} ELSE {}
    BY <1>0, <2>1, ReversalRows
  <2>3. withdrawals[w].status # "FAILED" => Rows(w, "WITHDRAWAL_REVERSAL") = {}
    BY DEF IInv, LedgerOK, Rows
  <2>4. ASSUME NEW v \in DOMAIN withdrawals, withdrawals'[v].status = "FAILED",
               payouts[v].sent <= 1
        PROVE  \E i \in DOMAIN ledger' : Rows(v, "WITHDRAWAL_REVERSAL")' = {i}
    <3>1. CASE v = w
      <4>1. Rows(v, "WITHDRAWAL_REVERSAL") = {}
        <5>1. payouts[w].sent <= 1 BY <2>4, <3>1
        <5>2. Rows(w, "WITHDRAWAL_REVERSAL") = {} BY <1>9, <2>3, <5>1
        <5> QED BY <3>1, <5>2
      <4> HIDE DEF n, w
      <4>2. Rows(v, "WITHDRAWAL_REVERSAL")' = {n} BY <2>2, <3>1, <4>1
      <4> QED BY <2>2, <4>2
    <3>2. CASE v # w
      <4> HIDE DEF n, w
      <4>1. withdrawals[v].status = "FAILED" BY <1>1, <2>4, <3>2
      <4>2. PICK i \in DOMAIN ledger : Rows(v, "WITHDRAWAL_REVERSAL") = {i}
        BY <2>4, <4>1 DEF Serial, RestoredOnce
      <4>3. Rows(v, "WITHDRAWAL_REVERSAL")' = {i} BY <2>2, <3>2, <4>2
      <4> QED BY <2>2, <4>3
    <3> QED BY <3>1, <3>2
  <2> QED BY <1>1, <1>3, <2>4 DEF RestoredOnce
<1> QED BY <1>4, <1>5, <1>7, <1>8, <1>11, <1>12 DEF Serial

LEMMA SerialStep ==
  ASSUME WalletAssumption, IInv, Counts, Serial, Alone, Next
  PROVE  Serial'
<1>1. ASSUME NEW r \in Req, NEW a \in Amount, Reward(r, a) PROVE Serial'
  BY <1>1, RewardSerial
<1>2. ASSUME NEW r \in Req,
             StartWithdraw(r) \/ LoseConversation(r) \/ Die(r) \/ CallDaraja(r)
      PROVE  Serial'
  BY <1>2, SlotSerial
<1>3. ASSUME NEW r \in Req, Debit(r) PROVE Serial' BY <1>3, DebitSerial
<1>4. ASSUME NEW r \in Req, SaveConversation(r) PROVE Serial' BY <1>4, SaveSerial
<1>5. ASSUME NEW r \in Req, CompletePayout(r) PROVE Serial' BY <1>5, CompleteSerial
<1>6. ASSUME NEW r \in Req, Reverse(r) \/ FailPayout(r) PROVE Serial'
  BY <1>6, RestoreSerial
<1>7. ASSUME NEW r \in Req, NEW w \in DOMAIN payouts, StartCallback(r, w)
      PROVE  Serial'
  BY <1>7, CallbackSerial
<1>8. ASSUME NEW w \in DOMAIN payouts, Settle(w) \/ ReportAgain(w) PROVE Serial'
  BY <1>8, SettleSerial
<1> QED BY <1>1, <1>2, <1>3, <1>4, <1>5, <1>6, <1>7, <1>8 DEF Next

LEMMA SerialInvStep ==
  ASSUME WalletAssumption, SerialInv, [SNext]_<<vars, overlapped>>
  PROVE  SerialInv'
<1>1. IInv /\ Counts /\ overlapped \in BOOLEAN /\ (~overlapped => Serial)
  BY DEF SerialInv
<1>2. [Next]_vars BY DEF SNext
<1>3. IInv' /\ Counts' BY <1>1, <1>2, EveryStep, CountsStep
<1>4. CASE SNext
  <2>1. overlapped' = (\/ overlapped
                       \/ \E r \in Req :
                            /\ req[r] # Idle
                            /\ req'[r] = req[r]
                            /\ req' # req \/ balance' # balance)
    BY <1>4 DEF SNext
  <2>2. overlapped' \in BOOLEAN
    <3> SUFFICES overlapped' = TRUE \/ overlapped' = FALSE OBVIOUS
    <3> QED BY <1>1, <2>1, Zenon
  <2>3. ~overlapped' => ~overlapped /\ Alone BY <2>1, Zenon DEF Alone
  <2>4. ~overlapped' => Serial' BY <1>1, <1>4, <2>3, SerialStep DEF SNext
  <2> QED BY <1>3, <2>2, <2>4 DEF SerialInv
<1>5. CASE UNCHANGED <<vars, overlapped>>
  <2>1. Serial => Serial'
    BY <1>5 DEF vars, Serial, SoleBusy, DebitSound, At, ReportsOnce, NeverOverdrawn,
                LedgerChains, Signed, RestoredOnce, Rows, Idle
  <2> QED BY <1>1, <1>3, <1>5, <2>1 DEF SerialInv
<1> QED BY <1>4, <1>5

LEMMA SerialInvInit == ASSUME WalletAssumption, SInit PROVE SerialInv
<1>1. IInv BY InitHolds DEF SInit
<1>2. /\ balance = 0 /\ ledger = <<>> /\ withdrawals = <<>> /\ payouts = <<>>
      /\ \A r \in Req : req[r] = Idle
      /\ overlapped = FALSE
  BY DEF SInit, Init
<1>3. Serial
  BY <1>2 DEF Serial, SoleBusy, DebitSound, At, Idle, ReportsOnce, NeverOverdrawn,
              LedgerChains, RestoredOnce
<1>4. Counts BY <1>2 DEF Counts
<1>5. overlapped \in BOOLEAN BY <1>2
<1> QED BY <1>1, <1>3, <1>4, <1>5 DEF SerialInv

\* requestWithdrawal, sendPayment and handleWithdrawalCallback one at a time: as long
\* as no handler has moved while another was in flight, the wallet is never overdrawn,
\* the ledger is one chain that ends at the balance, and a failure reported once is
\* given back exactly once, whatever crashed, was lost or was settled in between.
THEOREM SerialIsSound == SSpec => []SerialLedger
<1>1. SInit => SerialInv BY WalletAssumption, SerialInvInit
<1>2. SerialInv /\ [SNext]_<<vars, overlapped>> => SerialInv'
  BY WalletAssumption, SerialInvStep
<1>3. SerialInv => SerialLedger
  <2> SUFFICES ASSUME SerialInv, ~overlapped
               PROVE  NeverOverdrawn /\ LedgerChains /\ FailedRestoresOnce
    BY DEF SerialLedger
  <2>1. Serial /\ IInv BY DEF SerialInv
  <2>2. ASSUME NEW w \in DOMAIN withdrawals, payouts[w].sent <= 1
        PROVE  Cardinality(Rows(w, "WITHDRAWAL_REVERSAL")) =
                 IF withdrawals[w].status = "FAILED" THEN 1 ELSE 0
    <3>1. CASE withdrawals[w].status = "FAILED"
      <4>1. PICK i \in DOMAIN ledger : Rows(w, "WITHDRAWAL_REVERSAL") = {i}
        BY <2>1, <2>2, <3>1 DEF Serial, RestoredOnce
      <4> QED BY <3>1, <4>1, FS_Singleton
    <3>2. CASE withdrawals[w].status # "FAILED"
      <4>1. Rows(w, "WITHDRAWAL_REVERSAL") = {}
        BY <2>1, <3>2 DEF IInv, LedgerOK, Rows
      <4> QED BY <3>2, <4>1, FS_EmptySet
    <3> QED BY <3>1, <3>2
  <2> QED BY <2>1, <2>2 DEF Serial, FailedRestoresOnce
<1> QED BY <1>1, <1>2, <1>3, PTL DEF SSpec
=============================================================================
