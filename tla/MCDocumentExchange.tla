------------------------- MODULE MCDocumentExchange -------------------------
(* Deliveries by courier are retried and charged, which takes many exchanges of *)
(* one claim; rival claims take many exchanges without, and one code for each;  *)
(* batch operations need a hand-in and a hand-over to come between.  A behaviour *)
(* has the room for one of the three.                                           *)
EXTENDS SoleClaim, TLC

CONSTANT Couriers \* delivery methods

VARIABLE batches  \* whether staff execute batch operations on the document

NoCouriers == \A e \in DOMAIN exchanges : exchanges[e].method \notin Couriers

\* No exchange has had its code replaced.
OneCode ==
  \A v, w \in DOMAIN verifications : verifications[v].ex = verifications[w].ex => v = w

Room ==
  /\ NoCouriers \/ OneCode
  /\ rivals \/ batches => NoCouriers /\ OneCode
  /\ batches => Len(exchanges) <= 2

MCInit == RInit /\ batches \in BOOLEAN /\ ~(rivals /\ batches)

MCNext ==
  /\ RNext
  /\ UNCHANGED batches
  /\ Room'
  /\ operated' => batches

MCSpec == MCInit /\ [][MCNext]_<<vars, rivals, batches>>

ClaimSymmetry == Permutations(Claim)
=============================================================================
