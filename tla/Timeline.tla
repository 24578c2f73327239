------------------------------- MODULE Timeline -------------------------------
(***************************************************************************)
(* What the parties to a case are shown of it: the events of its timeline  *)
(* (document-cases.timeline.service).  Nothing of it is stored: each event *)
(* is put together from the log of the case, the log of the claim that is  *)
(* followed and the newest exchange of that claim, read one after another. *)
(*                                                                         *)
(* As in DocumentExchange a claim is the only one on its match, so that to *)
(* follow a match is to follow its claim.  The reading of the document and *)
(* the events that only say that a row is there are left out, and so are   *)
(* the times.                                                              *)
(***************************************************************************)
EXTENDS DocumentExchange

\* The claims there are, oldest first; one that was decided is among them.
ClaimOrders ==
  {order \in UNION {[1..n -> Claim] : n \in 0..Cardinality(Claim)} :
     /\ \A i, j \in DOMAIN order : order[i] = order[j] => i = j
     /\ \A c \in Claim : claim[c] # "PENDING" => \E i \in DOMAIN order : order[i] = c}

\* A verified claim before one that waits for its review, before a refused one.
Priority(c) ==
  CASE claim[c] = "VERIFIED" -> 0
    [] claim[c] = "PENDING"  -> 1
    [] claim[c] = "REJECTED" -> 2

\* The place of the claim to follow: of the best ones the latest.
Selected(order) ==
  CHOOSE i \in DOMAIN order :
    \A j \in DOMAIN order :
      \/ Priority(order[i]) < Priority(order[j])
      \/ Priority(order[i]) = Priority(order[j]) /\ j <= i

Followed(order) == IF order = <<>> THEN None ELSE order[Selected(order)]

\* Of its exchanges only the newest is looked at.
Handover(c) ==
  {e \in DOMAIN exchanges :
     /\ exchanges[e].lane = c
     /\ \A f \in DOMAIN exchanges : exchanges[f].lane = c => f <= e}

Logged(status) == \E i \in DOMAIN caseLog : caseLog[i][2] = status

\* The events that are done when the claim c is the followed one, or none is.
DoneEvents(c) ==
    (IF Logged("SUBMITTED") THEN {"case_submitted"} ELSE {})
    \cup (IF Logged("REJECTED") THEN {"case_rejected"}
          ELSE IF Logged("VERIFIED") THEN {"case_verified"} ELSE {})
    \cup (IF c = None THEN {}
          ELSE CASE claim[c] = "REJECTED" -> {"claim_rejected"}
                 [] claim[c] = "VERIFIED" -> {"claim_verified"}
                 [] claim[c] = "PENDING"  -> {})
    \cup (IF c # None /\ \E e \in Handover(c) : exchanges[e].status = "COMPLETED"
          THEN {"case_completed"} ELSE {})

-----------------------------------------------------------------------------
\* What is shown is so, whichever claims there are and in whatever order they came:
\* the case is shown as submitted exactly when it has left its draft, the staff's
\* verdict is the one that is shown, and it is shown as completed only when it is and
\* the lost case of the claimant who is followed is closed.  A case that is completed is
\* shown as such to the one verified claimant, but not when the document went to another
\* one or when they have had a newer exchange scheduled since.  Batch operations have no
\* event: only as long as none has moved the document since a code did is it also where
\* the timeline says.
TimelineTellsTruth ==
  \A order \in ClaimOrders :
    LET c == Followed(order)
        done == DoneEvents(c)
    IN /\ "case_submitted" \in done <=> found.status # "DRAFT"
       /\ "case_rejected" \in done <=> found.status = "REJECTED"
       /\ "case_verified" \in done <=> found.status \in {"VERIFIED", "COMPLETED"}
       /\ "case_completed" \in done =>
            found.status = "COMPLETED" /\ c \in Claim /\ lost[c] = "COMPLETED"
       /\ found.status = "COMPLETED" /\ (\A d \in Claim : claim[d] = "VERIFIED" <=> d = c) =>
            \/ "case_completed" \in done
            \/ \E e \in Handover(c), f \in DOMAIN exchanges :
                 exchanges[f].lane = c /\ exchanges[f].status = "COMPLETED" /\ f < e
            \/ \E d \in Claim \ {c} : lost[d] = "COMPLETED"
       /\ ~operated =>
            /\ "case_submitted" \in done <=> found.custody # "WITH_FINDER"
            /\ "case_completed" \in done => found.custody = "HANDED_OVER"
=============================================================================
