------------------------------- MODULE Wallet -------------------------------
(***************************************************************************)
(* One finder's wallet (src/wallet): rewards credit it, withdrawals debit  *)
(* it and are paid out by Daraja, the external payment service, which      *)
(* answers the request at once and reports the outcome by a callback.      *)
(*                                                                         *)
(* A handler in flight is a slot of "req", its transactions are single     *)
(* actions.  Daraja settles an accepted payout when it likes and may report *)
(* it more than once (its result and time-out addresses are the same       *)
(* endpoint); a callback carries the conversation it belongs to, which the  *)
(* handler of the withdrawal stores only after Daraja has answered.        *)
(*                                                                         *)
(* Not modelled: phone numbers, currency, the description texts, the         *)
(* rounding of amounts to whole shillings on their way to Daraja, and two    *)
(* transactions interleaving inside one another.                            *)
(***************************************************************************)
EXTENDS Integers, Sequences, FiniteSets

CONSTANTS
  Req,            \* slots for handlers in flight
  Amount,         \* amounts that are rewarded and withdrawn
  Faults,         \* which faults may happen
  MaxEntries,     \* bound: ledger rows ever written
  MaxWithdrawals, \* bound: withdrawals ever requested
  MaxReports      \* bound: callbacks sent for one payout

\* A handler dies; Daraja's answer is lost; the conversation cannot be stored.
FaultKinds == {"crash", "lostAnswer", "lostUpdate"}

ASSUME WalletAssumption ==
  /\ Amount \subseteq Nat \ {0}
  /\ Faults \subseteq FaultKinds
  /\ MaxEntries \in Nat /\ MaxWithdrawals \in Nat /\ MaxReports \in Nat

VARIABLES
  balance,     \* Wallet.balance
  ledger,      \* WalletLedger rows, oldest first
  withdrawals, \* WalletWithdrawal rows, oldest first
  payouts,     \* Daraja's side of each withdrawal
  req          \* handlers in flight

vars == <<balance, ledger, withdrawals, payouts, req>>

Entry == [type: {"CREDIT", "DEBIT"},
          reason: {"FINDER_REWARD", "WITHDRAWAL", "WITHDRAWAL_REVERSAL"},
          amount: Amount, before: Int, after: Int, w: Nat]

Withdrawal == [amount: Amount, status: {"INITIATED", "COMPLETED", "FAILED"},
               known: BOOLEAN] \* its conversation id is stored

Payout == [state: {"none", "accepted", "paid", "failed"},
           sent: Nat,          \* callbacks sent
           underway: Nat]      \* callbacks not yet received

Step == {"idle", "debit", "callDaraja", "saveConversation", "reverse",
         "complete", "fail"}

Request == [step: Step, w: Nat, amount: Amount \cup {0}, seen: Int]

Idle == [step |-> "idle", w |-> 0, amount |-> 0, seen |-> 0]

TypeOK ==
  /\ balance \in Int
  /\ ledger \in Seq(Entry)
  /\ withdrawals \in Seq(Withdrawal)
  /\ payouts \in Seq(Payout)
  /\ req \in [Req -> Request]

Init ==
  /\ balance = 0
  /\ ledger = <<>>
  /\ withdrawals = <<>>
  /\ payouts = <<>>
  /\ req = [r \in Req |-> Idle]

-----------------------------------------------------------------------------
At(r, step)   == req[r].step = step
Done(r)       == req' = [req EXCEPT ![r] = Idle]
Goto(r, step) == req' = [req EXCEPT ![r].step = step]

Enter(type, reason, a, before, after, w) ==
  /\ Len(ledger) < MaxEntries
  /\ ledger' = Append(ledger, [type |-> type, reason |-> reason, amount |-> a,
                               before |-> before, after |-> after, w |-> w])

\* Mutant: the row is written with the balance after the increment.
MutCredit(reason, a, w) ==
  /\ balance' = balance + a
  /\ Enter("CREDIT", reason, a, balance + a, balance + a + a, w)

\* Mutant: a reversal increments the balance twice.
MutCreditTwice(reason, a, w) ==
  /\ balance' = IF w = 0 THEN balance + a ELSE balance + a + a
  /\ Enter("CREDIT", reason, a, balance, balance + a, w)

\* The increment and its row, with the balance read in the same transaction.
Credit(reason, a, w) ==
  /\ balance' = balance + a
  /\ Enter("CREDIT", reason, a, balance, balance + a, w)

\* verifyCode, a handler with a slot of its own, rewards the finder in the
\* transaction of the hand-over.
Reward(r, a) ==
  /\ req[r] = Idle
  /\ Credit("FINDER_REWARD", a, 0)
  /\ UNCHANGED <<withdrawals, payouts, req>>

StartWithdraw(r) ==
  /\ req[r] = Idle
  /\ \E a \in Amount :
       /\ a <= balance
       /\ req' = [req EXCEPT ![r] = [step |-> "debit", w |-> 0, amount |-> a,
                                     seen |-> balance]]
  /\ UNCHANGED <<balance, ledger, withdrawals, payouts>>

\* Mutant: the debit is written to the ledger when Daraja has answered.
MutDebit(r) ==
  LET a == req[r].amount  w == Len(withdrawals) + 1 IN
  /\ At(r, "debit")
  /\ Len(withdrawals) < MaxWithdrawals
  /\ withdrawals' = Append(withdrawals, [amount |-> a, status |-> "INITIATED",
                                         known |-> FALSE])
  /\ payouts' = Append(payouts, [state |-> "none", sent |-> 0, underway |-> 0])
  /\ req' = [req EXCEPT ![r] = [step |-> "callDaraja", w |-> w, amount |-> a,
                               seen |-> @.seen]]
  /\ UNCHANGED <<balance, ledger>>

\* What the ledger calls the balance is what was read before the transaction.
Debit(r) ==
  LET a == req[r].amount  seen == req[r].seen  w == Len(withdrawals) + 1 IN
  /\ At(r, "debit")
  /\ Len(withdrawals) < MaxWithdrawals
  /\ withdrawals' = Append(withdrawals, [amount |-> a, status |-> "INITIATED",
                                         known |-> FALSE])
  /\ payouts' = Append(payouts, [state |-> "none", sent |-> 0, underway |-> 0])
  /\ balance' = balance - a
  /\ Enter("DEBIT", "WITHDRAWAL", a, seen, IF seen < a THEN 0 ELSE seen - a, w)
  /\ req' = [req EXCEPT ![r] = [step |-> "callDaraja", w |-> w, amount |-> a,
                               seen |-> @.seen]]

\* Daraja accepts and says so, refuses, or accepts and its answer is lost.
CallDaraja(r) ==
  /\ At(r, "callDaraja")
  /\ \/ /\ payouts' = [payouts EXCEPT ![req[r].w].state = "accepted"]
        /\ \/ Goto(r, "saveConversation")
           \/ "lostAnswer" \in Faults /\ Goto(r, "reverse")
     \/ Goto(r, "reverse") /\ UNCHANGED payouts
  /\ UNCHANGED <<balance, ledger, withdrawals>>

SaveConversation(r) ==
  /\ At(r, "saveConversation")
  /\ withdrawals' = [withdrawals EXCEPT ![req[r].w].known = TRUE]
  /\ Done(r)
  /\ UNCHANGED <<balance, ledger, payouts>>

\* Mutant: the reversal is tried although the conversation was stored.
MutLoseConversation(r) ==
  /\ At(r, "saveConversation")
  /\ withdrawals' = [withdrawals EXCEPT ![req[r].w].known = TRUE]
  /\ Goto(r, "reverse")
  /\ UNCHANGED <<balance, ledger, payouts>>

\* The same catch serves the call and the update after it.
LoseConversation(r) ==
  /\ "lostUpdate" \in Faults
  /\ At(r, "saveConversation")
  /\ Goto(r, "reverse")
  /\ UNCHANGED <<balance, ledger, withdrawals, payouts>>

Restore(r) ==
  /\ withdrawals' = [withdrawals EXCEPT ![req[r].w].status = "FAILED"]
  /\ Credit("WITHDRAWAL_REVERSAL", withdrawals[req[r].w].amount, req[r].w)
  /\ Done(r)
  /\ UNCHANGED payouts

Reverse(r) == At(r, "reverse") /\ Restore(r)

-----------------------------------------------------------------------------
(* Daraja, and its callbacks *)

Settle(w) ==
  /\ payouts[w].state = "accepted"
  /\ MaxReports > 0
  /\ \E outcome \in {"paid", "failed"} :
       payouts' = [payouts EXCEPT ![w] = [state |-> outcome, sent |-> 1,
                                          underway |-> 1]]
  /\ UNCHANGED <<balance, ledger, withdrawals, req>>

ReportAgain(w) ==
  /\ payouts[w].state \in {"paid", "failed"}
  /\ payouts[w].sent < MaxReports
  /\ payouts' = [payouts EXCEPT ![w] = [state |-> @.state, sent |-> @.sent + 1,
                                        underway |-> @.underway + 1]]
  /\ UNCHANGED <<balance, ledger, withdrawals, req>>

\* handleWithdrawalCallback: an unknown conversation is dropped, a completed
\* withdrawal is left alone.
StartCallback(r, w) ==
  /\ req[r] = Idle
  /\ payouts[w].underway > 0
  /\ payouts' = [payouts EXCEPT ![w].underway = @ - 1]
  /\ IF withdrawals[w].known /\ withdrawals[w].status # "COMPLETED"
     THEN req' = [req EXCEPT ![r] =
            [step |-> IF payouts[w].state = "paid" THEN "complete" ELSE "fail",
             w |-> w, amount |-> 0, seen |-> 0]]
     ELSE UNCHANGED req
  /\ UNCHANGED <<balance, ledger, withdrawals>>

CompletePayout(r) ==
  /\ At(r, "complete")
  /\ withdrawals' = [withdrawals EXCEPT ![req[r].w].status = "COMPLETED"]
  /\ Done(r)
  /\ UNCHANGED <<balance, ledger, payouts>>

FailPayout(r) == At(r, "fail") /\ Restore(r)

Die(r) ==
  /\ "crash" \in Faults
  /\ req[r] # Idle
  /\ Done(r)
  /\ UNCHANGED <<balance, ledger, withdrawals, payouts>>

Next ==
  \/ \E r \in Req :
       \/ \E a \in Amount : Reward(r, a)
       \/ StartWithdraw(r) \/ Debit(r) \/ CallDaraja(r)
       \/ SaveConversation(r) \/ LoseConversation(r) \/ Reverse(r)
       \/ CompletePayout(r) \/ FailPayout(r) \/ Die(r)
       \/ \E w \in DOMAIN payouts : StartCallback(r, w)
  \/ \E w \in DOMAIN payouts : Settle(w) \/ ReportAgain(w)

Spec == Init /\ [][Next]_vars

-----------------------------------------------------------------------------
(* What holds under every fault and overlap *)

Signed(e) == IF e.type = "CREDIT" THEN e.amount ELSE -e.amount

\* "Full audit trail of every balance change - balance can be reconstructed
\* from ledger": a step moves the balance by what the row it adds says, and by
\* nothing when it adds none; what is written stays.
EveryChangeLedgered ==
  [][\/ balance' = balance /\ ledger' = ledger
     \/ /\ Len(ledger') = Len(ledger) + 1
        /\ \A i \in DOMAIN ledger : ledger'[i] = ledger[i]
        /\ balance' = balance + Signed(ledger'[Len(ledger')])]_vars

Rows(w, reason) ==
  {i \in DOMAIN ledger : ledger[i].w = w /\ ledger[i].reason = reason}

\* A withdrawal counts as completed only if Daraja has paid it, and then its
\* debit stands: no answer lost, no callback repeated or overtaken by another
\* one has given the money back as well.
CompletedIsPaid ==
  \A w \in DOMAIN withdrawals :
    withdrawals[w].status = "COMPLETED" =>
      payouts[w].state = "paid" /\ Rows(w, "WITHDRAWAL_REVERSAL") = {}

\* Whatever is given back was taken: a reversal belongs to a withdrawal marked
\* as failed and restores exactly what that withdrawal's one debit took.
RestoresWhatItTook ==
  \A w \in DOMAIN withdrawals : \A i \in Rows(w, "WITHDRAWAL_REVERSAL") :
    /\ withdrawals[w].status = "FAILED"
    /\ \E j \in Rows(w, "WITHDRAWAL") :
         /\ j < i
         /\ ledger[j].amount = ledger[i].amount
         /\ Rows(w, "WITHDRAWAL") = {j}

\* A payout ends one way: paid for with its debit, or given back as it was taken.
PayoutsSettle == CompletedIsPaid /\ RestoresWhatItTook

-----------------------------------------------------------------------------
(* The account behind the wallet *)

TheAccount == INSTANCE Account WITH
  funds <- balance,
  withdrawals <- [w \in DOMAIN withdrawals |->
                    [amount |-> withdrawals[w].amount,
                     status |-> withdrawals[w].status]]

\* Under every fault and overlap the wallet is an account: each committed
\* transaction is one whole operation of it, and a withdrawal that was paid is
\* never taken out of that state or given back.
IsAccount == TheAccount!Spec

-----------------------------------------------------------------------------
(* What holds while handlers have not overlapped; overlapping withdrawals    *)
(* overdraw the wallet and unchain the ledger, and a failure reported twice  *)
(* is given back twice.                                                      *)

\* A withdrawal takes at most what the wallet holds ("must be positive and <=
\* wallet balance").
NeverOverdrawn == balance >= 0

\* Every ledger row starts from the balance the row before it ended with, and
\* the last one ends at the wallet's balance.
LedgerChains ==
  /\ \A i \in DOMAIN ledger :
       /\ ledger[i].before = IF i = 1 THEN 0 ELSE ledger[i - 1].after
       /\ ledger[i].after = ledger[i].before + Signed(ledger[i])
  /\ balance = IF ledger = <<>> THEN 0 ELSE ledger[Len(ledger)].after

\* A payout reported once gives the money back at most once, and has given it
\* back when it is marked as failed.
FailedRestoresOnce ==
  \A w \in DOMAIN withdrawals : payouts[w].sent <= 1 =>
    Cardinality(Rows(w, "WITHDRAWAL_REVERSAL")) =
      IF withdrawals[w].status = "FAILED" THEN 1 ELSE 0
=============================================================================
