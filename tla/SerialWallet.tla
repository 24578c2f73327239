----------------------------- MODULE SerialWallet -----------------------------
(***************************************************************************)
(* The wallet, and whether its handlers have overlapped.  Nothing keeps     *)
(* them from it; what is lost when they do is said in the README, what      *)
(* holds as long as they have not is SerialLedger.                          *)
(***************************************************************************)
EXTENDS Wallet

VARIABLE overlapped \* a handler has moved while another was in flight

SInit == Init /\ overlapped = FALSE

SNext ==
  /\ Next
  /\ overlapped' = \/ overlapped
                   \/ \E r \in Req :
                        /\ req[r] # Idle
                        /\ req'[r] = req[r]
                        /\ req' # req \/ balance' # balance

SSpec == SInit /\ [][SNext]_<<vars, overlapped>>

-----------------------------------------------------------------------------
\* While handlers run one after the other, whatever the payment service answered,
\* failed or reported in between: withdrawals take at most what the wallet holds,
\* the ledger's before and after balances form one chain, and a failed payout that
\* is reported once is given back exactly once.
SerialLedger ==
  ~overlapped => NeverOverdrawn /\ LedgerChains /\ FailedRestoresOnce
=============================================================================
