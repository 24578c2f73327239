------------------------------- MODULE Account -------------------------------
(***************************************************************************)
(* What a finder's wallet promises, without handlers, rows of a ledger or  *)
(* an unreliable payment service: money is put in, each withdrawal takes   *)
(* its amount out when it is requested, and is either paid, which is final *)
(* and gives nothing back, or given back.  Wallet implements it.           *)
(***************************************************************************)
EXTENDS Integers, Sequences

CONSTANTS Amount

VARIABLES
  funds,      \* what the account holds
  withdrawals \* amount and status of each withdrawal, oldest first

vars == <<funds, withdrawals>>

Init == funds = 0 /\ withdrawals = <<>>

Deposit(a) ==
  /\ funds' = funds + a
  /\ UNCHANGED withdrawals

\* Requests that overlap may take more than the account holds.
Request(a) ==
  /\ withdrawals' = Append(withdrawals, [amount |-> a, status |-> "INITIATED"])
  /\ funds' = funds - a

Pay(w) ==
  /\ withdrawals[w].status = "INITIATED"
  /\ withdrawals' = [withdrawals EXCEPT ![w].status = "COMPLETED"]
  /\ UNCHANGED funds

\* A failure that is reported again is given back again.
GiveBack(w) ==
  /\ withdrawals[w].status # "COMPLETED"
  /\ withdrawals' = [withdrawals EXCEPT ![w].status = "FAILED"]
  /\ funds' = funds + withdrawals[w].amount

Next ==
  \/ \E a \in Amount : Deposit(a) \/ Request(a)
  \/ \E w \in DOMAIN withdrawals : Pay(w) \/ GiveBack(w)

Spec == Init /\ [][Next]_vars
=============================================================================
