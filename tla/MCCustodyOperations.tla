------------------------ MODULE MCCustodyOperations ------------------------
EXTENDS SerialCustody, TLC

CONSTANTS d1, d2

\* The configuration the repository seeds, after an administrator has lifted
\* the notes off DISPOSAL, without which no disposal can be created.
LiftedRequires ==
  [type \in Type |->
     CASE type \in {"RECEIPT", "HANDOVER"} -> {"area"}
       [] type \in {"TRANSFER_OUT", "TRANSFER_IN", "REQUISITION"} -> {"counterpart"}
       [] OTHER -> {}]

ReqSymmetry == Permutations(Req)

\* The call in slot r is within the bounds of the run.
Within(r, types, D) ==
  req'[r] # None =>
    /\ req'[r].row.type \in types
    /\ ItemsOf(req'[r].row) \cup ({req'[r].doc} \ {None}) \subseteq D

\* SNext in these bounds: handlers that run alone work on two documents, those that
\* overlap on one.
MCNext ==
  /\ UNCHANGED alone
  /\ \/ /\ alone
        /\ \/ \E r \in Req : /\ \A q \in Req \ {r} : req[q] = None
                             /\ Handler(r)
                             /\ Within(r, Type, Doc)
           \/ \E d \in Doc : World(d)
     \/ /\ ~alone
        /\ \/ \E r \in Req : Handler(r) /\ Within(r, {"RECEIPT", "DISPOSAL"}, {d1})
           \/ World(d1)

MCSpec == SInit /\ [][MCNext]_<<vars, alone>>
=============================================================================
