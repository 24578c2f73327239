------------------------------ MODULE SoleClaim ------------------------------
(***************************************************************************)
(* The journey of a document (DocumentJourney) while no two claims on it    *)
(* are decided.  Nothing in the code stops a second claim from collecting   *)
(* what was handed to the first: a behaviour with rivals is not judged.     *)
(***************************************************************************)
EXTENDS Timeline

VARIABLE rivals \* whether more than one claim is ever decided

Decided == {c \in Claim : claim[c] # "PENDING"}

RInit == Init /\ rivals \in BOOLEAN

RNext ==
  /\ Next
  /\ ~rivals => \A c, d \in Decided' : c = d
  /\ UNCHANGED rivals

RSpec == RInit /\ [][RNext]_<<vars, rivals>>

-----------------------------------------------------------------------------
Place ==
  CASE rivals \/ found.custody = "WITH_FINDER" -> "finder"
    [] ~rivals /\ found.custody = "IN_CUSTODY"  -> "station"
    [] ~rivals /\ found.custody = "IN_TRANSIT"  -> "transit"
    [] ~rivals /\ found.custody = "HANDED_OVER" -> "claimant"
    [] ~rivals /\ found.custody = "DISPOSED"    -> "gone"

Stage ==
  CASE rivals \/ found.status = "DRAFT"        -> "reported"
    [] ~rivals /\ found.status = "SUBMITTED"   -> "received"
    [] ~rivals /\ found.status = "VERIFIED"    -> "verified"
    [] ~rivals /\ found.status = "REJECTED"    -> "rejected"
    [] ~rivals /\ found.status = "COMPLETED"   -> "delivered"

Journey == INSTANCE DocumentJourney WITH
  place <- Place, stage <- Stage,
  closed <- {c \in Claim : ~rivals /\ lost[c] = "COMPLETED"},
  rewards <- [c \in Claim |-> IF rivals THEN 0 ELSE disbursed[c]]

\* Every step of every handler, every place it may die at and every batch operation on
\* the document is a step of its journey or changes nothing in it: the workflow status,
\* the lost case and the reward never tell different stories, and custody moves with
\* them or by an operation that touches none of them.
FollowsJourney == Journey!Spec
=============================================================================
