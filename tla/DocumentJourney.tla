--------------------------- MODULE DocumentJourney ---------------------------
(***************************************************************************)
(* What the hand-over of a found document promises, without handlers,      *)
(* codes or exchanges: its case is received, checked once, and then        *)
(* delivered; whoever delivers it puts the document into the claimant's     *)
(* hands and closes the claimant's lost case in the same step, and the     *)
(* finder is rewarded in no other one.  Batch operations of the staff take  *)
(* the document anywhere at any time, but not back to its finder, and      *)
(* nothing else changes with them.  DocumentExchange implements it.        *)
(***************************************************************************)
EXTENDS Integers

CONSTANTS Claim

VARIABLES
  place,   \* where the document is
  stage,   \* how far its case has come
  closed,  \* claims whose lost case is closed
  rewards  \* rewards paid for each claim

vars == <<place, stage, closed, rewards>>

Init ==
  /\ place = "finder"
  /\ stage = "reported"
  /\ closed = {}
  /\ rewards = [c \in Claim |-> 0]

HandIn ==
  /\ stage = "reported"
  /\ place' = "station"
  /\ stage' = "received"
  /\ UNCHANGED <<closed, rewards>>

Check ==
  /\ stage = "received"
  /\ stage' \in {"verified", "rejected"}
  /\ UNCHANGED <<place, closed, rewards>>

\* Nothing in the code keeps a claimant who was given the document from an exchange
\* of their own claim again; another claim cannot follow.  A courier's hand-over
\* rewards nobody.  Where the document is, is not asked.
HandOver(c) ==
  /\ stage = "verified" \/ (stage = "delivered" /\ c \in closed)
  /\ place' = "claimant"
  /\ stage' = "delivered"
  /\ closed' = closed \cup {c}
  /\ \/ rewards' = [rewards EXCEPT ![c] = @ + 1]
     \/ UNCHANGED rewards

Operate ==
  /\ place' \in {"station", "transit", "claimant", "gone"}
  /\ UNCHANGED <<stage, closed, rewards>>

Next == HandIn \/ Check \/ Operate \/ \E c \in Claim : HandOver(c)

Spec == Init /\ [][Next]_vars
=============================================================================
