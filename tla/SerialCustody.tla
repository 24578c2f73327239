---------------------------- MODULE SerialCustody ----------------------------
(***************************************************************************)
(* Batch operations whose handlers run one after the other, or overlap:     *)
(* nothing in the code decides which, so a behaviour of this module does.    *)
(* What overlapping handlers lose is said in the README; what holds as long *)
(* as they do not, crashes between two statements and the exchanges of the  *)
(* same documents included, is stated here.                                 *)
(***************************************************************************)
EXTENDS CustodyOperations

VARIABLE alone \* the handlers run one after the other

World(d) ==
  OpenExchange(d) \/ CloseExchange(d) \/ CompleteExchange(d) \/ ReviewCase(d)

SInit == Init /\ alone \in BOOLEAN

SNext ==
  /\ UNCHANGED alone
  /\ \/ \E r \in Req : /\ alone => \A q \in Req \ {r} : req[q] = None
                       /\ Handler(r)
     \/ \E d \in Doc : World(d)

SSpec == SInit /\ [][SNext]_<<vars, alone>>

-----------------------------------------------------------------------------
\* An operation whose handlers ran one after the other leaves nothing pending
\* when it is completed, although execute works on items it read before.
SerialCompletedIsDone == alone => CompletedIsDone

\* While handlers run one after the other, what is executed is what was submitted
\* and approved: no document joins or leaves it, its stations stay, and an item
\* that was skipped never counts as done.
SerialContentStands ==
  [][alone => \A o \in DOMAIN ops :
       KeepsContent(o) /\ \A d \in Doc : StaysSkipped(o, d)]_vars
=============================================================================
