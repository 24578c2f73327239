----------------------------- MODULE ClaimsProofs -----------------------------
(***************************************************************************)
(* For any number of matches, claims, reasons and handlers, whatever fails *)
(* half-way: which claims are invoiced; and, as long as no handler has     *)
(* begun while another was in flight, what the log says of a claim and how *)
(* often a match is claimed and decided.                                   *)
(***************************************************************************)
EXTENDS Claims, RowLemmas, TLAPS

\* Whoever moves a claim or goes on creating it has one that is there, whoever decides
\* about a match has read its status; and the log is about claims that are there.
SlotIsSound(q) ==
  /\ q.op \in OperationName \/ q.step \in {"answer", "attach"} => q.claim \in DOMAIN claims
  /\ q.op \in OperationName /\ q.step = "commit" => q.seen \in ClaimStatus
  /\ q.op \in {"create", "rejectMatch"} => q.match \in Match /\ q.seen \in MatchStatus

LogIsOfClaims == \A i \in DOMAIN log : log[i].of \in DOMAIN claims

SlotsAreSound == \A r \in Req : SlotIsSound(req[r])

IInv == TypeOK /\ SlotsAreSound /\ LogIsOfClaims /\ InvoicedWhenVerified

USE ClaimsAssumption

LEMMA OperationNames ==
  /\ OperationName = {"reject", "rejectReviewed", "verify", "verifyReviewed", "cancel",
                      "dispute", "reviewDispute"}
  /\ \A op \in OperationName : Operation[op].to \in ClaimStatus
                            /\ Operation[op].from \subseteq ClaimStatus
  BY DEF OperationName, Operation, ClaimStatus

LEMMA IdleIsRequest == Idle \in Request /\ SlotIsSound(Idle)
  BY OperationNames DEF Idle, Request, SlotIsSound

\* The first state.
LEMMA InitIsSound == Init => IInv
<1> SUFFICES ASSUME Init PROVE IInv
  OBVIOUS
<1>1. TypeOK
  BY IdleIsRequest DEF Init, TypeOK, MatchStatus
<1>2. SlotsAreSound /\ LogIsOfClaims
  BY IdleIsRequest DEF Init, SlotsAreSound, LogIsOfClaims
<1>3. InvoicedWhenVerified
  BY DEF Init, InvoicedWhenVerified
<1> QED BY <1>1, <1>2, <1>3 DEF IInv

-----------------------------------------------------------------------------
\* A step of one handler that writes nothing about claims.
LEMMA OnlySlotMoves ==
  ASSUME IInv, NEW r \in Req, NEW slot \in Request, SlotIsSound(slot),
         req' = [req EXCEPT ![r] = slot], claims' = claims, log' = log,
         match' \in [Match -> MatchStatus], matchLog' \in Seq(Row(Match, MatchStatus)),
         reasons' = reasons, overlaps' \in Nat
  PROVE  IInv'
<1>1. TypeOK'
  BY DEF IInv, TypeOK
<1>2. SlotsAreSound'
  BY DEF IInv, TypeOK, SlotsAreSound, SlotIsSound
<1>3. LogIsOfClaims'
  BY DEF IInv, LogIsOfClaims
<1>4. InvoicedWhenVerified'
  BY DEF IInv, InvoicedWhenVerified
<1> QED BY <1>1, <1>2, <1>3, <1>4 DEF IInv

LEMMA DoneIsSound ==
  ASSUME IInv, NEW r \in Req, Done(r),
         UNCHANGED <<match, claims, log, matchLog, reasons, overlaps>>
  PROVE  IInv'
  BY IdleIsRequest, OnlySlotMoves DEF Done, IInv, TypeOK

LEMMA GotoIsSound ==
  ASSUME IInv, NEW r \in Req, NEW step \in {"insert", "attach", "claimMatch"},
         req[r].op = "create", step # "insert" => req[r].claim \in DOMAIN claims,
         Goto(r, step), UNCHANGED <<match, claims, log, matchLog, reasons, overlaps>>
  PROVE  IInv'
<1> DEFINE slot == [req[r] EXCEPT !.step = step]
<1>1. req[r] \in Request /\ SlotIsSound(req[r])
  BY DEF IInv, TypeOK, SlotsAreSound
<1>2. slot \in Request
  BY <1>1 DEF Request
<1>3. /\ slot.op = "create" /\ slot.step = step /\ slot.claim = req[r].claim
      /\ slot.match = req[r].match /\ slot.seen = req[r].seen
  BY <1>1 DEF Request
<1>4. SlotIsSound(slot)
  BY <1>1, <1>3, OperationNames DEF SlotIsSound
<1>5. req' = [req EXCEPT ![r] = slot]
  BY DEF Goto
<1> HIDE DEF slot
<1> QED BY <1>2, <1>4, <1>5, OnlySlotMoves DEF IInv, TypeOK

LEMMA BeginIsSound ==
  ASSUME IInv, NEW r \in Req, NEW slot \in Request, SlotIsSound(slot), Begin(r, slot),
         UNCHANGED <<match, claims, log, matchLog, reasons>>
  PROVE  IInv'
<1>1. overlaps' \in Nat
  BY DEF Begin, IInv, TypeOK
<1> QED BY <1>1, OnlySlotMoves DEF Begin, IInv, TypeOK

LEMMA StartCreateIsSound ==
  ASSUME IInv, NEW r \in Req, NEW m \in Match, StartCreate(r, m) PROVE IInv'
<1> DEFINE slot == [Idle EXCEPT !.op = "create", !.step = "latest", !.match = m, !.seen = match[m]]
<1>1. match[m] \in MatchStatus
  BY DEF IInv, TypeOK
<1>2. slot \in Request
  BY <1>1 DEF Request, Idle
<1>3. SlotIsSound(slot)
  BY <1>1, OperationNames DEF SlotIsSound, Idle
<1> HIDE DEF slot
<1>4. Begin(r, slot) /\ UNCHANGED <<match, claims, log, matchLog, reasons>>
  BY DEF StartCreate, slot
<1> QED BY <1>2, <1>3, <1>4, BeginIsSound

LEMMA StartRejectMatchIsSound ==
  ASSUME IInv, NEW r \in Req, NEW m \in Match, StartRejectMatch(r, m) PROVE IInv'
<1> DEFINE slot == [Idle EXCEPT !.op = "rejectMatch", !.step = "commit", !.match = m,
                                !.seen = match[m]]
<1>1. match[m] \in MatchStatus
  BY DEF IInv, TypeOK
<1>2. slot \in Request
  BY <1>1 DEF Request, Idle
<1>3. SlotIsSound(slot)
  BY <1>1, OperationNames DEF SlotIsSound, Idle
<1> HIDE DEF slot
<1>4. Begin(r, slot) /\ UNCHANGED <<match, claims, log, matchLog, reasons>>
  BY DEF StartRejectMatch, slot
<1> QED BY <1>2, <1>3, <1>4, BeginIsSound

LEMMA StartMoveIsSound ==
  ASSUME IInv, NEW r \in Req, NEW op \in OperationName, NEW c \in DOMAIN claims,
         StartMove(r, op, c)
  PROVE  IInv'
<1> DEFINE slot == [Idle EXCEPT !.op = op, !.step = "read", !.claim = c]
<1>1. c \in Nat
  BY DEF IInv, TypeOK
<1>2. slot \in Request
  BY <1>1 DEF Request, Idle
<1>3. SlotIsSound(slot)
  BY OperationNames DEF SlotIsSound, Idle
<1> HIDE DEF slot
<1>4. Begin(r, slot) /\ UNCHANGED <<match, claims, log, matchLog, reasons>>
  BY DEF StartMove, slot
<1> QED BY <1>2, <1>3, <1>4, BeginIsSound

LEMMA CheckNoOtherClaimIsSound ==
  ASSUME IInv, NEW r \in Req, CheckNoOtherClaim(r) PROVE IInv'
<1>1. /\ Goto(r, "insert") \/ Done(r)
      /\ req[r].op = "create"
      /\ UNCHANGED <<match, claims, log, matchLog, reasons, overlaps>>
  BY DEF CheckNoOtherClaim, At
<1> QED BY <1>1, DoneIsSound, GotoIsSound

\* A new claim has no row and no invoice.
LEMMA InsertClaimIsSound ==
  ASSUME IInv, NEW r \in Req, InsertClaim(r) PROVE IInv'
<1> DEFINE row == [match |-> req[r].match, status |-> "PENDING", invoiced |-> FALSE,
                   details |-> "none"]
           n == Len(claims) + 1
           slot == [req[r] EXCEPT !.step = "answer", !.claim = n]
<1>1. req[r] \in Request /\ SlotIsSound(req[r]) /\ req[r].op = "create"
  BY DEF IInv, TypeOK, SlotsAreSound, InsertClaim, At
<1>2. row \in Claim
  BY <1>1 DEF SlotIsSound, Claim, ClaimStatus
<1>3. claims \in Seq(Claim) /\ n \in Nat
  BY DEF IInv, TypeOK
<1>4. claims' = Append(claims, row) /\ req' = [req EXCEPT ![r] = slot]
      /\ UNCHANGED <<match, log, matchLog, reasons, overlaps>>
  BY DEF InsertClaim
<1>5. row.status = "PENDING" /\ row.invoiced = FALSE
  OBVIOUS
<1> HIDE DEF row
<1>6. /\ claims' \in Seq(Claim) /\ DOMAIN claims' = DOMAIN claims \cup {n}
      /\ \A c \in DOMAIN claims : claims'[c] = claims[c]
      /\ claims'[n] = row
  BY <1>2, <1>3, <1>4
<1>7. slot \in Request
  BY <1>1, <1>3 DEF Request
<1>8. /\ slot.op = "create" /\ slot.step = "answer" /\ slot.claim = n
      /\ slot.match = req[r].match /\ slot.seen = req[r].seen
  BY <1>1 DEF Request
<1> HIDE DEF slot
<1>9. TypeOK'
  BY <1>4, <1>6, <1>7 DEF IInv, TypeOK
<1>10. SlotsAreSound'
  BY <1>1, <1>4, <1>6, <1>8, OperationNames DEF IInv, TypeOK, SlotsAreSound, SlotIsSound
<1>11. LogIsOfClaims'
  BY <1>4, <1>6 DEF IInv, LogIsOfClaims
<1>12. \A i \in DOMAIN log : log[i].of # n
  BY <1>3 DEF IInv, LogIsOfClaims
<1>13. InvoicedWhenVerified'
  BY <1>4, <1>5, <1>6, <1>12 DEF IInv, InvoicedWhenVerified
<1> QED BY <1>9, <1>10, <1>11, <1>13 DEF IInv

\* What else is stored of a claim leaves its status and its invoice alone.
LEMMA DetailsAreSound ==
  ASSUME IInv, NEW r \in Req, NEW c \in DOMAIN claims,
         NEW details \in {"answers", "attachments"},
         claims' = [claims EXCEPT ![c].details = details], UNCHANGED log
  PROVE  /\ claims' \in Seq(Claim) /\ DOMAIN claims' = DOMAIN claims
         /\ LogIsOfClaims' /\ InvoicedWhenVerified'
<1> DEFINE row == [claims[c] EXCEPT !.details = details]
<1>1. claims \in Seq(Claim) /\ claims[c] \in Claim
  BY DEF IInv, TypeOK
<1>2. /\ row \in Claim
      /\ row.status = claims[c].status /\ row.invoiced = claims[c].invoiced
  BY <1>1 DEF Claim
<1>3. claims' = [claims EXCEPT ![c] = row]
  OBVIOUS
<1> HIDE DEF row
<1>4. claims' \in Seq(Claim) /\ DOMAIN claims' = DOMAIN claims
  BY <1>1, <1>2, <1>3
<1>5. \A d \in DOMAIN claims : /\ claims'[d].status = claims[d].status
                               /\ claims'[d].invoiced = claims[d].invoiced
  BY <1>1, <1>2, <1>3
<1>6. LogIsOfClaims'
  BY <1>4 DEF IInv, LogIsOfClaims
<1>7. InvoicedWhenVerified'
  BY <1>4, <1>5 DEF IInv, InvoicedWhenVerified
<1> QED BY <1>4, <1>6, <1>7

LEMMA CreateGoesOn ==
  ASSUME IInv, NEW r \in Req, req[r].op = "create", req[r].claim \in DOMAIN claims,
         NEW step \in {"attach", "claimMatch"}, Goto(r, step) \/ Done(r),
         claims' \in Seq(Claim), DOMAIN claims' = DOMAIN claims,
         LogIsOfClaims', InvoicedWhenVerified',
         UNCHANGED <<match, log, matchLog, reasons, overlaps>>
  PROVE  IInv'
<1> DEFINE slot == [req[r] EXCEPT !.step = step]
<1>1. req[r] \in Request /\ SlotIsSound(req[r])
  BY DEF IInv, TypeOK, SlotsAreSound
<1>2. slot \in Request
  BY <1>1 DEF Request
<1>3. /\ slot.op = "create" /\ slot.claim = req[r].claim
      /\ slot.match = req[r].match /\ slot.seen = req[r].seen
  BY <1>1 DEF Request
<1>4. SlotIsSound(slot)
  BY <1>1, <1>3, OperationNames DEF SlotIsSound
<1>5. req' = [req EXCEPT ![r] = slot] \/ req' = [req EXCEPT ![r] = Idle]
  BY DEF Goto, Done
<1> HIDE DEF slot
<1>6. TypeOK'
  BY <1>2, <1>5, IdleIsRequest DEF IInv, TypeOK
<1>7. \A q \in Req : SlotIsSound(req'[q])
  BY <1>4, <1>5, IdleIsRequest DEF IInv, TypeOK, SlotsAreSound
<1>8. SlotsAreSound'
  BY <1>7 DEF SlotsAreSound, SlotIsSound
<1> QED BY <1>6, <1>8 DEF IInv

LEMMA RecordAnswersIsSound ==
  ASSUME IInv, NEW r \in Req, RecordAnswers(r) PROVE IInv'
<1>1. req[r].op = "create" /\ req[r].claim \in DOMAIN claims
  BY DEF IInv, SlotsAreSound, SlotIsSound, RecordAnswers, At
<1>2. /\ claims' = [claims EXCEPT ![req[r].claim].details = "answers"]
      /\ Goto(r, "attach") /\ UNCHANGED <<match, log, matchLog, reasons, overlaps>>
  BY DEF RecordAnswers
<1> QED BY <1>1, <1>2, DetailsAreSound, CreateGoesOn

LEMMA AttachFilesIsSound ==
  ASSUME IInv, NEW r \in Req, AttachFiles(r) PROVE IInv'
<1>1. req[r].op = "create" /\ req[r].claim \in DOMAIN claims
  BY DEF IInv, SlotsAreSound, SlotIsSound, AttachFiles, At
<1>2. /\ claims' = [claims EXCEPT ![req[r].claim].details = "attachments"]
      /\ Goto(r, "claimMatch") \/ Done(r)
      /\ UNCHANGED <<match, log, matchLog, reasons, overlaps>>
  BY DEF AttachFiles
<1> QED BY <1>1, <1>2, DetailsAreSound, CreateGoesOn

LEMMA AppendedIsSeq ==
  ASSUME NEW S, NEW s \in Seq(S), NEW e \in S PROVE Append(s, e) \in Seq(S)
  OBVIOUS

LEMMA DecisionIsSound ==
  ASSUME IInv, NEW r \in Req, req[r].op \in {"create", "rejectMatch"},
         NEW to \in MatchStatus, Done(r),
         \/ UNCHANGED <<match, matchLog>>
         \/ /\ match' = [match EXCEPT ![req[r].match] = to]
            /\ matchLog' = Append(matchLog, [of |-> req[r].match, from |-> req[r].seen, to |-> to]),
         UNCHANGED <<claims, log, reasons, overlaps>>
  PROVE  IInv'
<1> DEFINE row == [of |-> req[r].match, from |-> req[r].seen, to |-> to]
<1>1. req[r].match \in Match /\ req[r].seen \in MatchStatus
  BY DEF IInv, SlotsAreSound, SlotIsSound
<1>2. match' \in [Match -> MatchStatus]
  BY <1>1 DEF IInv, TypeOK
<1>3. row \in Row(Match, MatchStatus)
  BY <1>1 DEF Row
<1>4. matchLog' = matchLog \/ matchLog' = Append(matchLog, row)
  OBVIOUS
<1> HIDE DEF row
<1>5. Append(matchLog, row) \in Seq(Row(Match, MatchStatus))
  BY <1>3, AppendedIsSeq DEF IInv, TypeOK
<1>6. matchLog' \in Seq(Row(Match, MatchStatus))
  BY <1>4, <1>5, Zenon DEF IInv, TypeOK
<1> QED BY <1>2, <1>6, IdleIsRequest, OnlySlotMoves DEF Done, IInv, TypeOK

LEMMA ClaimMatchIsSound ==
  ASSUME IInv, NEW r \in Req, ClaimMatch(r) PROVE IInv'
  BY DecisionIsSound DEF ClaimMatch, At, MatchStatus

LEMMA RejectMatchIsSound ==
  ASSUME IInv, NEW r \in Req, RejectMatch(r) PROVE IInv'
  BY DecisionIsSound DEF RejectMatch, At, MatchStatus

LEMMA ReadClaimIsSound ==
  ASSUME IInv, NEW r \in Req, ReadClaim(r) PROVE IInv'
<1> DEFINE status == claims[req[r].claim].status
           slot(reason) == [req[r] EXCEPT !.step = "commit", !.seen = status, !.reason = reason]
<1>1. /\ req[r] \in Request /\ SlotIsSound(req[r]) /\ req[r].op \in OperationName
      /\ req[r].claim \in DOMAIN claims
  BY DEF IInv, TypeOK, SlotsAreSound, SlotIsSound, ReadClaim, At
<1>2. claims[req[r].claim] \in Claim
  BY <1>1 DEF IInv, TypeOK
<1>3. status \in ClaimStatus
  BY <1>2 DEF Claim
<1>4. UNCHANGED <<match, claims, log, matchLog, reasons, overlaps>>
  BY DEF ReadClaim
<1>5. \/ \E reason \in Spare \cup {Seeded} : req' = [req EXCEPT ![r] = slot(reason)]
      \/ Done(r)
  BY DEF ReadClaim
<1>6. ASSUME NEW reason \in Spare \cup {Seeded}, req' = [req EXCEPT ![r] = slot(reason)]
      PROVE  IInv'
  <2>1. slot(reason) \in Request
    BY <1>1, <1>3 DEF Request
  <2>2. /\ slot(reason).op = req[r].op /\ slot(reason).claim = req[r].claim
        /\ slot(reason).seen = status
    BY <1>1 DEF Request
  <2> HIDE DEF slot
  <2>3. SlotIsSound(slot(reason))
    BY <1>1, <1>3, <2>2, OperationNames DEF SlotIsSound
  <2> QED BY <1>4, <1>6, <2>1, <2>3, OnlySlotMoves DEF IInv, TypeOK
<1> QED BY <1>4, <1>5, <1>6, DoneIsSound

\* The status, its row and the invoice come together.
LEMMA CommitMoveIsSound ==
  ASSUME IInv, NEW r \in Req, CommitMove(r) PROVE IInv'
<1> DEFINE c   == req[r].claim
           to  == Operation[req[r].op].to
           row == [of |-> c, from |-> req[r].seen, to |-> to]
           new == [claims[c] EXCEPT !.status = to, !.invoiced = Invoiced(c, to)]
<1>1. /\ req[r] \in Request /\ SlotIsSound(req[r]) /\ req[r].op \in OperationName
      /\ c \in DOMAIN claims /\ req[r].seen \in ClaimStatus
  BY DEF IInv, TypeOK, SlotsAreSound, SlotIsSound, CommitMove, At
<1>2. claims \in Seq(Claim) /\ claims[c] \in Claim /\ c \in Nat /\ to \in ClaimStatus
  BY <1>1, OperationNames DEF IInv, TypeOK
<1>3. Done(r) /\ UNCHANGED <<match, matchLog, reasons, overlaps>>
  BY DEF CommitMove
<1>4. \/ UNCHANGED <<claims, log>>
      \/ claims' = Moved(c, to) /\ log' = Append(log, row)
  BY DEF CommitMove
<1>5. CASE UNCHANGED <<claims, log>>
  BY <1>3, <1>5, DoneIsSound
<1>6. CASE claims' = Moved(c, to) /\ log' = Append(log, row)
  <2>1. row \in Row(Nat, ClaimStatus) /\ row.of = c /\ row.to = to
    BY <1>1, <1>2 DEF Row
  <2>2. log \in Seq(Row(Nat, ClaimStatus))
    BY DEF IInv, TypeOK
  <2>3. Invoiced(c, to) \in BOOLEAN
    BY <1>2 DEF Invoiced, Claim
  <2>4. new \in Claim /\ new.status = to /\ new.invoiced = Invoiced(c, to)
    BY <1>2, <2>3 DEF Claim
  <2>5. claims' = [claims EXCEPT ![c] = new]
    BY <1>6 DEF Moved
  <2> HIDE DEF new, row, to
  <2>6. /\ claims' \in Seq(Claim) /\ DOMAIN claims' = DOMAIN claims
        /\ \A d \in DOMAIN claims : claims'[d] = IF d = c THEN new ELSE claims[d]
    BY <1>1, <1>2, <2>4, <2>5
  <2>7. /\ log' \in Seq(Row(Nat, ClaimStatus)) /\ DOMAIN log' = DOMAIN log \cup {Len(log) + 1}
        /\ \A i \in DOMAIN log : log'[i] = log[i]
        /\ log'[Len(log) + 1] = row /\ Len(log) + 1 \notin DOMAIN log
    BY <1>6, <2>1, <2>2
  <2>8. TypeOK'
    BY <1>3, <2>6, <2>7, IdleIsRequest DEF IInv, TypeOK, Done
  <2>9. \A q \in Req : SlotIsSound(req'[q])
    BY <1>3, IdleIsRequest DEF IInv, TypeOK, SlotsAreSound, Done
  <2>10. SlotsAreSound'
    BY <2>6, <2>9 DEF SlotsAreSound, SlotIsSound
  <2>11. LogIsOfClaims'
    BY <1>1, <2>1, <2>6, <2>7 DEF IInv, LogIsOfClaims
  <2>12. InvoicedWhenVerified'
    <3> SUFFICES ASSUME NEW d \in DOMAIN claims
                 PROVE  /\ claims'[d].status = "VERIFIED" => claims'[d].invoiced
                        /\ claims'[d].invoiced <=>
                             \E i \in DOMAIN log' : log'[i].of = d /\ log'[i].to = "VERIFIED"
      BY <2>6 DEF InvoicedWhenVerified
    <3>1. (\E i \in DOMAIN log' : log'[i].of = d /\ log'[i].to = "VERIFIED")
            <=> \/ \E i \in DOMAIN log : log[i].of = d /\ log[i].to = "VERIFIED"
                \/ d = c /\ to = "VERIFIED"
      BY <2>1, <2>7
    <3>2. CASE d # c
      BY <3>1, <3>2, <2>6 DEF IInv, InvoicedWhenVerified
    <3>3. CASE d = c
      BY <3>1, <3>3, <2>4, <2>6 DEF IInv, InvoicedWhenVerified, Invoiced
    <3> QED BY <3>2, <3>3
  <2> QED BY <2>8, <2>10, <2>11, <2>12 DEF IInv
<1> QED BY <1>4, <1>5, <1>6

LEMMA EditReasonIsSound ==
  ASSUME IInv, NEW s \in Spare, EditReason(s) PROVE IInv'
<1>1. TypeOK'
  BY DEF IInv, TypeOK, EditReason
<1>2. SlotsAreSound' /\ LogIsOfClaims' /\ InvoicedWhenVerified'
  BY DEF IInv, EditReason, SlotsAreSound, SlotIsSound, LogIsOfClaims, InvoicedWhenVerified
<1> QED BY <1>1, <1>2 DEF IInv

LEMMA NextIsSound == IInv /\ [Next]_vars => IInv'
<1> SUFFICES ASSUME IInv, [Next]_vars PROVE IInv'
  OBVIOUS
<1>1. ASSUME NEW r \in Req, NEW m \in Match, StartCreate(r, m) PROVE IInv'
  BY <1>1, StartCreateIsSound
<1>2. ASSUME NEW r \in Req, NEW m \in Match, StartRejectMatch(r, m) PROVE IInv'
  BY <1>2, StartRejectMatchIsSound
<1>3. ASSUME NEW r \in Req, NEW op \in OperationName, NEW c \in DOMAIN claims,
             StartMove(r, op, c)
      PROVE  IInv'
  BY <1>3, StartMoveIsSound
<1>4. ASSUME NEW r \in Req, CheckNoOtherClaim(r) PROVE IInv'
  BY <1>4, CheckNoOtherClaimIsSound
<1>5. ASSUME NEW r \in Req, InsertClaim(r) PROVE IInv'
  BY <1>5, InsertClaimIsSound
<1>6. ASSUME NEW r \in Req, RecordAnswers(r) PROVE IInv'
  BY <1>6, RecordAnswersIsSound
<1>7. ASSUME NEW r \in Req, AttachFiles(r) PROVE IInv'
  BY <1>7, AttachFilesIsSound
<1>8. ASSUME NEW r \in Req, ClaimMatch(r) PROVE IInv'
  BY <1>8, ClaimMatchIsSound
<1>9. ASSUME NEW r \in Req, ReadClaim(r) PROVE IInv'
  BY <1>9, ReadClaimIsSound
<1>10. ASSUME NEW r \in Req, CommitMove(r) PROVE IInv'
  BY <1>10, CommitMoveIsSound
<1>11. ASSUME NEW r \in Req, RejectMatch(r) PROVE IInv'
  BY <1>11, RejectMatchIsSound
<1>12. ASSUME NEW r \in Req, Fail(r) PROVE IInv'
  BY <1>12, DoneIsSound DEF Fail
<1>13. ASSUME NEW s \in Spare, EditReason(s) PROVE IInv'
  BY <1>13, EditReasonIsSound
<1>14. CASE UNCHANGED vars
  BY <1>14 DEF vars, IInv, TypeOK, SlotsAreSound, SlotIsSound, LogIsOfClaims, InvoicedWhenVerified
<1> QED BY <1>1, <1>2, <1>3, <1>4, <1>5, <1>6, <1>7, <1>8, <1>9, <1>10, <1>11, <1>12, <1>13,
           <1>14 DEF Next, EditReasons

\* Every row, slot and status has its type, whatever overlaps or fails.
THEOREM TypeCorrect == Spec => []TypeOK
<1>1. IInv => TypeOK
  BY DEF IInv
<1> QED BY <1>1, InitIsSound, NextIsSound, PTL DEF Spec

\* A claim is invoiced exactly when it has once been verified, whatever overlaps or fails
\* and whatever is edited in the reasons.
THEOREM InvoicedExactlyWhenVerified == Spec => []InvoicedWhenVerified
<1>1. IInv => InvoicedWhenVerified
  BY DEF IInv
<1> QED BY <1>1, InitIsSound, NextIsSound, PTL DEF Spec

-----------------------------------------------------------------------------
(* As long as no handler has begun while another was in flight *)

\* Of overlapping handlers one may write between what another reads and what it writes;
\* the invariants that follow hold as long as none has overlapped.
SoleHandler == \A r, s \in Req : req[r] # Idle /\ req[s] # Idle => r = s

\* What a handler has read is still so: the status of the claim it moves, which is one its
\* operation accepts; that the claims on the match it creates one for are cancelled; and the
\* status of the match.
StillSo(q) ==
  /\ q.op \in OperationName /\ q.step = "commit" =>
       q.seen = claims[q.claim].status /\ q.seen \in Operation[q.op].from
  /\ q.op = "create" /\ q.step = "insert" =>
       \A c \in Of(q.match) : claims[c].status = "CANCELLED"
  /\ q.op = "create" => q.seen = match[q.match]
  /\ q.op = "rejectMatch" => q.seen = "PENDING" /\ match[q.match] = "PENDING"

SlotsStillSo == \A r \in Req : StillSo(req[r])

\* Claims are made one after the other.
OlderAreCancelled ==
  \A c, d \in DOMAIN claims :
    claims[c].match = claims[d].match /\ c < d => claims[c].status = "CANCELLED"

\* Each row is a move of one of the operations, and starts where the rows before it ended.
RowsAreMoves ==
  \A i \in DOMAIN log :
    \E op \in OperationName : log[i].from \in Operation[op].from /\ log[i].to = Operation[op].to

RowsChain ==
  /\ \A i \in DOMAIN log : log[i].from = StatusBefore(log[i].of, i)
  /\ \A c \in DOMAIN claims : claims[c].status = StatusBefore(c, Len(log) + 1)

DecidedOnce ==
  /\ \A i \in DOMAIN matchLog : /\ matchLog[i].to # "PENDING"
                                /\ match[matchLog[i].of] = matchLog[i].to
  /\ \A i, j \in DOMAIN matchLog : matchLog[i].of = matchLog[j].of => i = j
  /\ \A m \in Match : match[m] # "PENDING" => \E i \in DOMAIN matchLog : matchLog[i].of = m

Serial == /\ SoleHandler /\ SlotsStillSo /\ OlderAreCancelled
          /\ RowsAreMoves /\ RowsChain /\ DecidedOnce

SerialInv == IInv /\ (overlaps = 0 => Serial)

\* What the operations accept and write.
LEMMA OperationMoves ==
  /\ \A op \in OperationName :
       /\ "CANCELLED" \notin Operation[op].from
       /\ Operation[op].to = "UNDER_REVIEW" => Operation[op].from = {"DISPUTED"}
       /\ Operation[op].to = "DISPUTED" => Operation[op].from = {"REJECTED"}
  /\ {"create", "rejectMatch", "none"} \cap OperationName = {}
  BY DEF OperationName, Operation

LEMMA MaxOfIndices ==
  ASSUME NEW n \in Nat, NEW S \in SUBSET (1 .. n), S # {}
  PROVE  Max(S) \in S /\ \A i \in S : i <= Max(S)
<1>1. PICK m \in S : \A i \in S : i <= m
  BY GreatestIndex
<1>2. \A i \in S : m >= i
  BY <1>1
<1> QED BY <1>1, <1>2 DEF Max

\* A claim that has left PENDING has a row that says so.
LEMMA StatusHasRow ==
  ASSUME NEW c, NEW n \in Nat, StatusBefore(c, n) # "PENDING"
  PROVE  \E i \in RowsBefore(c, n) : log[i].to = StatusBefore(c, n)
<1>1. RowsBefore(c, n) # {}
  BY DEF StatusBefore
<1>2. CASE n = 0
  BY <1>1, <1>2 DEF RowsBefore
<1>3. CASE n # 0
  <2>1. n - 1 \in Nat /\ RowsBefore(c, n) \in SUBSET (1 .. n - 1)
    BY <1>3 DEF RowsBefore
  <2> QED BY <1>1, <2>1, MaxOfIndices DEF StatusBefore
<1> QED BY <1>2, <1>3

\* A new row leaves what the rows before it say.
LEMMA StatusBeforeStays ==
  ASSUME NEW T, log \in Seq(T), NEW row \in T, log' = Append(log, row), NEW c,
         NEW n \in 1 .. Len(log) + 1
  PROVE  StatusBefore(c, n)' = StatusBefore(c, n)
<1>1. Len(log) \in Nat /\ DOMAIN log = 1 .. Len(log) /\ \A i \in DOMAIN log : log'[i] = log[i]
  BY AppendRows, LenProperties
<1>2. \A i \in 1 .. n - 1 : log'[i] = log[i]
  BY <1>1
<1>3. RowsBefore(c, n)' = RowsBefore(c, n)
  BY <1>2 DEF RowsBefore
<1>4. n - 1 \in Nat /\ RowsBefore(c, n) \in SUBSET (1 .. n - 1)
  BY <1>1 DEF RowsBefore
<1>5. CASE RowsBefore(c, n) = {}
  BY <1>3, <1>5 DEF StatusBefore
<1>6. CASE RowsBefore(c, n) # {}
  <2>1. Max(RowsBefore(c, n)) \in 1 .. n - 1
    BY <1>4, <1>6, MaxOfIndices
  <2> QED BY <1>2, <1>3, <1>6, <2>1 DEF StatusBefore
<1> QED BY <1>5, <1>6

\* And says itself what its claim becomes.
LEMMA StatusAfterRow ==
  ASSUME NEW T, log \in Seq(T), NEW row \in T, log' = Append(log, row), NEW c,
         NEW n, n = Len(log) + 1
  PROVE  StatusBefore(c, n + 1)' = IF row.of = c THEN row.to ELSE StatusBefore(c, n)
<1>1. /\ Len(log) \in Nat /\ DOMAIN log = 1 .. Len(log) /\ n \in Nat
      /\ \A i \in DOMAIN log : log'[i] = log[i]
      /\ log'[n] = row
  BY AppendRows, LenProperties
<1>2. \A i \in 1 .. n - 1 : log'[i] = log[i]
  BY <1>1
<1>3. RowsBefore(c, n + 1)' = {i \in 1 .. n : log'[i].of = c}
  BY <1>1 DEF RowsBefore
<1>4. CASE row.of # c
  <2>1. RowsBefore(c, n + 1)' = RowsBefore(c, n)
    BY <1>1, <1>2, <1>3, <1>4 DEF RowsBefore
  <2>2. n - 1 \in Nat /\ RowsBefore(c, n) \in SUBSET (1 .. n - 1)
    BY <1>1 DEF RowsBefore
  <2>3. CASE RowsBefore(c, n) = {}
    BY <1>4, <2>1, <2>3 DEF StatusBefore
  <2>4. CASE RowsBefore(c, n) # {}
    <3>1. Max(RowsBefore(c, n)) \in 1 .. n - 1
      BY <2>2, <2>4, MaxOfIndices
    <3> QED BY <1>2, <1>4, <2>1, <2>4, <3>1 DEF StatusBefore
  <2> QED BY <2>3, <2>4
<1>5. CASE row.of = c
  <2> DEFINE S == RowsBefore(c, n + 1)'
  <2>1. n \in S /\ S \in SUBSET (1 .. n)
    BY <1>1, <1>3, <1>5
  <2>2. Max(S) \in S /\ n <= Max(S)
    BY <1>1, <2>1, MaxOfIndices
  <2>3. Max(S) = n
    BY <1>1, <2>1, <2>2
  <2>4. S # {} /\ log'[Max(S)] = row
    BY <1>1, <2>1, <2>3
  <2> QED BY <1>5, <2>4 DEF StatusBefore
<1> QED BY <1>4, <1>5

-----------------------------------------------------------------------------
\* When one handler steps the others are idle.
LEMMA OthersIdle ==
  ASSUME NEW slot, NEW r \in Req, SoleHandler,
         req[r] # Idle \/ \A q \in Req : req[q] = Idle,
         req \in [Req -> Request], req' = [req EXCEPT ![r] = slot], StillSo(slot)'
  PROVE  SoleHandler' /\ SlotsStillSo'
<1>1. \A q \in Req : req'[q] = IF q = r THEN slot ELSE Idle
  BY DEF SoleHandler
<1>2. SoleHandler'
  BY <1>1 DEF SoleHandler
<1>3. StillSo(Idle)'
  BY OperationMoves DEF StillSo, Idle
<1>4. \A q \in Req : StillSo(req[q])'
  <2> TAKE q \in Req
  <2>1. CASE q = r
    <3>1. (req[q])' = slot
      BY <1>1, <2>1
    <3> QED BY <3>1 DEF StillSo
  <2>2. CASE q # r
    <3>1. (req[q])' = Idle
      BY <1>1, <2>2
    <3> QED BY <1>3, <3>1 DEF StillSo
  <2> QED BY <2>1, <2>2
<1>5. SlotsStillSo'
  BY <1>4 DEF SlotsStillSo
<1> QED BY <1>2, <1>5

\* A handler reads, or stores what is not about status.
LEMMA NoMove ==
  ASSUME IInv, Serial, NEW slot, NEW r \in Req,
         req[r] # Idle \/ \A q \in Req : req[q] = Idle,
         req' = [req EXCEPT ![r] = slot], StillSo(slot)',
         UNCHANGED <<match, log, matchLog>>,
         DOMAIN claims' = DOMAIN claims,
         \A c \in DOMAIN claims : claims'[c].match = claims[c].match
                               /\ claims'[c].status = claims[c].status
  PROVE  Serial'
<1>1. SoleHandler' /\ SlotsStillSo'
  BY OthersIdle DEF IInv, TypeOK, Serial
<1>2. OlderAreCancelled'
  BY DEF Serial, OlderAreCancelled
<1>3. RowsAreMoves' /\ DecidedOnce'
  BY DEF Serial, RowsAreMoves, DecidedOnce
<1>4. ASSUME NEW c, NEW n PROVE StatusBefore(c, n)' = StatusBefore(c, n)
  BY DEF StatusBefore, RowsBefore
<1>5. RowsChain'
  BY <1>4 DEF Serial, RowsChain
<1> QED BY <1>1, <1>2, <1>3, <1>5 DEF Serial

LEMMA IdleIsStillSo == StillSo(Idle)'
  BY OperationMoves DEF StillSo, Idle

LEMMA DoneIsSerial ==
  ASSUME IInv, Serial, NEW r \in Req, req[r] # Idle, Done(r),
         UNCHANGED <<match, claims, log, matchLog>>
  PROVE  Serial'
  BY NoMove, IdleIsStillSo DEF Done

LEMMA BeginsAlone ==
  ASSUME IInv, NEW r \in Req, NEW slot, Begin(r, slot), overlaps' = 0
  PROVE  overlaps = 0 /\ (\A q \in Req : req[q] = Idle) /\ req' = [req EXCEPT ![r] = slot]
  BY DEF Begin, IInv, TypeOK

LEMMA StartCreateIsSerial ==
  ASSUME SerialInv, NEW r \in Req, NEW m \in Match, StartCreate(r, m), overlaps' = 0
  PROVE  Serial'
<1>1. PICK slot : slot = [Idle EXCEPT !.op = "create", !.step = "latest", !.match = m,
                                      !.seen = match[m]]
  OBVIOUS
<1>2. Begin(r, slot) /\ UNCHANGED <<match, claims, log, matchLog, reasons>>
  BY <1>1 DEF StartCreate
<1>3. Serial /\ (\A q \in Req : req[q] = Idle) /\ req' = [req EXCEPT ![r] = slot]
  BY <1>2, BeginsAlone DEF SerialInv
<1>4. slot.op = "create" /\ slot.step = "latest" /\ slot.match = m /\ slot.seen = match[m]
  BY <1>1 DEF Idle
<1>5. StillSo(slot)'
  BY <1>2, <1>4, OperationMoves DEF StillSo
<1> QED BY <1>2, <1>3, <1>5, NoMove DEF SerialInv

LEMMA StartRejectMatchIsSerial ==
  ASSUME SerialInv, NEW r \in Req, NEW m \in Match, StartRejectMatch(r, m), overlaps' = 0
  PROVE  Serial'
<1>1. PICK slot : slot = [Idle EXCEPT !.op = "rejectMatch", !.step = "commit", !.match = m,
                                      !.seen = match[m]]
  OBVIOUS
<1>2. Begin(r, slot) /\ match[m] = "PENDING" /\ UNCHANGED <<match, claims, log, matchLog, reasons>>
  BY <1>1 DEF StartRejectMatch
<1>3. Serial /\ (\A q \in Req : req[q] = Idle) /\ req' = [req EXCEPT ![r] = slot]
  BY <1>2, BeginsAlone DEF SerialInv
<1>4. slot.op = "rejectMatch" /\ slot.match = m /\ slot.seen = match[m]
  BY <1>1 DEF Idle
<1>5. StillSo(slot)'
  BY <1>2, <1>4, OperationMoves DEF StillSo
<1> QED BY <1>2, <1>3, <1>5, NoMove DEF SerialInv

LEMMA StartMoveIsSerial ==
  ASSUME SerialInv, NEW r \in Req, NEW op \in OperationName, NEW c \in DOMAIN claims,
         StartMove(r, op, c), overlaps' = 0
  PROVE  Serial'
<1>1. PICK slot : slot = [Idle EXCEPT !.op = op, !.step = "read", !.claim = c]
  OBVIOUS
<1>2. Begin(r, slot) /\ UNCHANGED <<match, claims, log, matchLog, reasons>>
  BY <1>1 DEF StartMove
<1>3. Serial /\ (\A q \in Req : req[q] = Idle) /\ req' = [req EXCEPT ![r] = slot]
  BY <1>2, BeginsAlone DEF SerialInv
<1>4. slot.op = op /\ slot.step = "read"
  BY <1>1 DEF Idle
<1>5. StillSo(slot)'
  BY <1>2, <1>4, OperationMoves DEF StillSo
<1> QED BY <1>2, <1>3, <1>5, NoMove DEF SerialInv

\* The latest claim speaks for those before it.
LEMMA LatestSpeaks ==
  ASSUME IInv, OlderAreCancelled, NEW m, Of(m) = {} \/ claims[Latest(m)].status = "CANCELLED"
  PROVE  \A c \in Of(m) : claims[c].status = "CANCELLED"
<1> SUFFICES ASSUME NEW c \in Of(m) PROVE claims[c].status = "CANCELLED"
  OBVIOUS
<1>1. Len(claims) \in Nat /\ Of(m) \in SUBSET (1 .. Len(claims)) /\ DOMAIN claims = 1 .. Len(claims)
  BY DEF IInv, TypeOK, Of
<1>2. PICK l \in Of(m) : \A d \in Of(m) : d <= l
  BY <1>1, GreatestIndex
<1>3. Latest(m) \in Of(m) /\ c <= Latest(m)
  BY <1>2 DEF Latest
<1>4. CASE c = Latest(m)
  BY <1>4
<1>5. CASE c # Latest(m)
  <2>1. c < Latest(m)
    BY <1>1, <1>3, <1>5
  <2> QED BY <1>3, <2>1 DEF Of, OlderAreCancelled
<1> QED BY <1>4, <1>5

LEMMA CheckNoOtherClaimIsSerial ==
  ASSUME IInv, Serial, NEW r \in Req, CheckNoOtherClaim(r) PROVE Serial'
<1>1. /\ req[r].op = "create" /\ req[r].step = "latest" /\ req[r] # Idle /\ req[r] \in Request
      /\ UNCHANGED <<match, claims, log, matchLog>>
  BY DEF CheckNoOtherClaim, At, Idle, IInv, TypeOK
<1>2. CASE Done(r)
  BY <1>1, <1>2, DoneIsSerial
<1>3. CASE ~Done(r)
  <2>1. PICK slot : slot = [req[r] EXCEPT !.step = "insert"]
    OBVIOUS
  <2>2. req' = [req EXCEPT ![r] = slot]
    BY <1>3, <2>1 DEF CheckNoOtherClaim, Goto
  <2>3. /\ slot.op = "create" /\ slot.step = "insert" /\ slot.match = req[r].match
        /\ slot.seen = req[r].seen
    BY <1>1, <2>1 DEF Request
  <2>4. Of(slot.match) = {} \/ claims[Latest(slot.match)].status = "CANCELLED"
    BY <1>3, <2>3 DEF CheckNoOtherClaim
  <2>5. \A c \in Of(slot.match) : claims[c].status = "CANCELLED"
    BY <2>4, LatestSpeaks DEF Serial
  <2>6. slot.seen = match[slot.match]
    BY <1>1, <2>3 DEF Serial, SlotsStillSo, StillSo
  <2>7. StillSo(slot)'
    BY <1>1, <2>3, <2>5, <2>6, OperationMoves DEF StillSo, Of
  <2> QED BY <1>1, <2>2, <2>7, NoMove
<1> QED BY <1>2, <1>3

\* The claims that were on the match are cancelled when another one is made.
LEMMA InsertClaimIsSerial ==
  ASSUME IInv, Serial, NEW r \in Req, InsertClaim(r) PROVE Serial'
<1> DEFINE n == Len(claims) + 1
           m == req[r].match
<1>1. /\ req[r].op = "create" /\ req[r].step = "insert" /\ req[r] # Idle /\ req[r] \in Request
      /\ UNCHANGED <<match, log, matchLog>>
  BY DEF InsertClaim, At, Idle, IInv, TypeOK
<1>2. PICK slot : slot = [req[r] EXCEPT !.step = "answer", !.claim = Len(claims) + 1]
  OBVIOUS
<1>3. req' = [req EXCEPT ![r] = slot]
  BY <1>2 DEF InsertClaim
<1>4. slot.op = "create" /\ slot.step = "answer" /\ slot.match = m /\ slot.seen = req[r].seen
  BY <1>1, <1>2 DEF Request
<1>5. /\ \A c \in Of(m) : claims[c].status = "CANCELLED"
      /\ req[r].seen = match[m]
  BY <1>1 DEF Serial, SlotsStillSo, StillSo
<1>6. StillSo(slot)'
  BY <1>1, <1>4, <1>5, OperationMoves DEF StillSo
<1>7. SoleHandler' /\ SlotsStillSo'
  BY <1>1, <1>3, <1>6, OthersIdle DEF IInv, TypeOK, Serial
<1>8. RowsAreMoves' /\ DecidedOnce'
  BY <1>1 DEF Serial, RowsAreMoves, DecidedOnce
<1>9. PICK row : row = [match |-> m, status |-> "PENDING", invoiced |-> FALSE, details |-> "none"]
  OBVIOUS
<1>10. claims' = Append(claims, row) /\ row.match = m /\ row.status = "PENDING" /\ row \in Claim
  BY <1>1, <1>9 DEF InsertClaim, IInv, SlotsAreSound, SlotIsSound, Claim, ClaimStatus
<1>11. claims \in Seq(Claim) /\ Len(claims) \in Nat /\ DOMAIN claims = 1 .. Len(claims)
  BY DEF IInv, TypeOK
<1>12. /\ DOMAIN claims' = DOMAIN claims \cup {n}
       /\ \A c \in DOMAIN claims : claims'[c] = claims[c]
       /\ claims'[n] = row
       /\ n \notin DOMAIN claims
  BY <1>10, <1>11, AppendRows
<1> HIDE DEF m
<1>13. OlderAreCancelled'
  <2> SUFFICES ASSUME NEW c \in DOMAIN claims', NEW d \in DOMAIN claims',
                      claims'[c].match = claims'[d].match, c < d
               PROVE  claims'[c].status = "CANCELLED"
    BY DEF OlderAreCancelled
  <2>1. c \in DOMAIN claims
    BY <1>11, <1>12
  <2>2. CASE d = n
    BY <1>5, <1>10, <1>12, <2>1, <2>2 DEF Of
  <2>3. CASE d # n
    BY <1>12, <2>1, <2>3 DEF Serial, OlderAreCancelled
  <2> QED BY <2>2, <2>3
<1>14. ASSUME NEW c, NEW k PROVE StatusBefore(c, k)' = StatusBefore(c, k)
  BY <1>1 DEF StatusBefore, RowsBefore
<1>15. log \in Seq(Row(Nat, ClaimStatus)) /\ Len(log) \in Nat /\ DOMAIN log = 1 .. Len(log)
  BY DEF IInv, TypeOK
<1>16. RowsBefore(n, Len(log) + 1) = {}
  BY <1>12, <1>15 DEF IInv, LogIsOfClaims, RowsBefore
<1>17. StatusBefore(n, Len(log) + 1) = "PENDING"
  BY <1>16 DEF StatusBefore
<1>18. RowsChain'
  BY <1>1, <1>10, <1>12, <1>14, <1>17 DEF Serial, RowsChain
<1> QED BY <1>7, <1>8, <1>13, <1>18 DEF Serial

LEMMA DetailsAreNoMove ==
  ASSUME IInv, NEW c \in DOMAIN claims, NEW details,
         claims' = [claims EXCEPT ![c].details = details]
  PROVE  /\ DOMAIN claims' = DOMAIN claims
         /\ \A d \in DOMAIN claims : claims'[d].match = claims[d].match
                                  /\ claims'[d].status = claims[d].status
<1>1. claims \in Seq(Claim) /\ claims[c] \in Claim
  BY DEF IInv, TypeOK
<1>2. PICK row : row = [claims[c] EXCEPT !.details = details]
  OBVIOUS
<1>3. row.match = claims[c].match /\ row.status = claims[c].status
  BY <1>1, <1>2 DEF Claim
<1>4. claims' = [claims EXCEPT ![c] = row]
  BY <1>2
<1> QED BY <1>1, <1>3, <1>4

LEMMA CreateGoesOnSerially ==
  ASSUME IInv, Serial, NEW r \in Req, req[r].op = "create", req[r].claim \in DOMAIN claims,
         NEW step \in {"attach", "claimMatch"}, Goto(r, step) \/ Done(r),
         NEW details, claims' = [claims EXCEPT ![req[r].claim].details = details],
         UNCHANGED <<match, log, matchLog>>
  PROVE  Serial'
<1>1. req[r] # Idle /\ req[r] \in Request /\ req[r].seen = match[req[r].match]
  BY DEF Idle, IInv, TypeOK, Serial, SlotsStillSo, StillSo
<1>2. PICK slot : slot = [req[r] EXCEPT !.step = step]
  OBVIOUS
<1>3. /\ slot.op = "create" /\ slot.step = step /\ slot.match = req[r].match
      /\ slot.seen = req[r].seen
  BY <1>1, <1>2 DEF Request
<1>4. StillSo(slot)'
  BY <1>1, <1>3, OperationMoves DEF StillSo
<1>5. req' = [req EXCEPT ![r] = slot] \/ req' = [req EXCEPT ![r] = Idle]
  BY <1>2 DEF Goto, Done
<1> QED BY <1>1, <1>4, <1>5, DetailsAreNoMove, IdleIsStillSo, NoMove

LEMMA RecordAnswersIsSerial ==
  ASSUME IInv, Serial, NEW r \in Req, RecordAnswers(r) PROVE Serial'
<1>1. req[r].op = "create" /\ req[r].claim \in DOMAIN claims
  BY DEF IInv, SlotsAreSound, SlotIsSound, RecordAnswers, At
<1>2. /\ claims' = [claims EXCEPT ![req[r].claim].details = "answers"]
      /\ Goto(r, "attach") /\ UNCHANGED <<match, log, matchLog>>
  BY DEF RecordAnswers
<1> QED BY <1>1, <1>2, CreateGoesOnSerially

LEMMA AttachFilesIsSerial ==
  ASSUME IInv, Serial, NEW r \in Req, AttachFiles(r) PROVE Serial'
<1>1. req[r].op = "create" /\ req[r].claim \in DOMAIN claims
  BY DEF IInv, SlotsAreSound, SlotIsSound, AttachFiles, At
<1>2. /\ claims' = [claims EXCEPT ![req[r].claim].details = "attachments"]
      /\ (Goto(r, "claimMatch") \/ Done(r)) /\ UNCHANGED <<match, log, matchLog>>
  BY DEF AttachFiles
<1> QED BY <1>1, <1>2, CreateGoesOnSerially

\* A match is decided while it is still undecided.
LEMMA DecisionIsSerial ==
  ASSUME IInv, Serial, NEW r \in Req, req[r].op \in {"create", "rejectMatch"}, Done(r),
         NEW to \in {"CLAIMED", "REJECTED"}, match[req[r].match] = "PENDING",
         match' = [match EXCEPT ![req[r].match] = to],
         matchLog' = Append(matchLog, [of |-> req[r].match, from |-> req[r].seen, to |-> to]),
         UNCHANGED <<claims, log>>
  PROVE  Serial'
<1>1. PICK m \in Match : m = req[r].match
  BY DEF IInv, SlotsAreSound, SlotIsSound
<1>2. PICK row \in Row(Match, MatchStatus) : row = [of |-> m, from |-> req[r].seen, to |-> to]
  BY <1>1 DEF Row, MatchStatus, IInv, SlotsAreSound, SlotIsSound
<1>3. row.of = m /\ row.to = to
  BY <1>2
<1>4. matchLog \in Seq(Row(Match, MatchStatus)) /\ match \in [Match -> MatchStatus]
  BY DEF IInv, TypeOK
<1>5. /\ DOMAIN matchLog' = DOMAIN matchLog \cup {Len(matchLog) + 1}
      /\ \A i \in DOMAIN matchLog : matchLog'[i] = matchLog[i]
      /\ matchLog'[Len(matchLog) + 1] = row
      /\ Len(matchLog) + 1 \notin DOMAIN matchLog
  BY <1>1, <1>2, <1>4, AppendRows
<1>6. match' = [match EXCEPT ![m] = to] /\ match[m] = "PENDING"
  BY <1>1
<1>7. \A i \in DOMAIN matchLog : matchLog[i].of # m
  BY <1>6 DEF Serial, DecidedOnce
<1>8. DecidedOnce'
  <2>0. \A i \in DOMAIN matchLog : matchLog[i].of \in Match
    <3>1. \A i \in DOMAIN matchLog : matchLog[i] \in Row(Match, MatchStatus)
      BY <1>4
    <3> QED BY <3>1 DEF Row
  <2>1. \A i \in DOMAIN matchLog' : /\ matchLog'[i].to # "PENDING"
                                    /\ match'[matchLog'[i].of] = matchLog'[i].to
    BY <1>3, <1>4, <1>5, <1>6, <1>7, <2>0 DEF Serial, DecidedOnce
  <2>2. \A i, j \in DOMAIN matchLog' : matchLog'[i].of = matchLog'[j].of => i = j
    <3> TAKE i, j \in DOMAIN matchLog'
    <3>1. CASE i \in DOMAIN matchLog /\ j \in DOMAIN matchLog
      BY <1>5, <3>1 DEF Serial, DecidedOnce
    <3>2. CASE ~(i \in DOMAIN matchLog /\ j \in DOMAIN matchLog)
      BY <1>3, <1>5, <1>7, <3>2
    <3> QED BY <3>1, <3>2
  <2>3. \A d \in Match : match'[d] # "PENDING" => \E i \in DOMAIN matchLog' : matchLog'[i].of = d
    BY <1>3, <1>4, <1>5, <1>6 DEF Serial, DecidedOnce
  <2> QED BY <2>1, <2>2, <2>3 DEF DecidedOnce
<1>9. SoleHandler' /\ SlotsStillSo'
  <2>1. req[r] # Idle
    BY DEF Idle
  <2> QED BY <2>1, OthersIdle, IdleIsStillSo DEF IInv, TypeOK, Serial, Done
<1>10. ASSUME NEW c, NEW n PROVE StatusBefore(c, n)' = StatusBefore(c, n)
  BY DEF StatusBefore, RowsBefore
<1>11. OlderAreCancelled' /\ RowsAreMoves' /\ RowsChain'
  BY <1>10 DEF Serial, OlderAreCancelled, RowsAreMoves, RowsChain
<1> QED BY <1>8, <1>9, <1>11 DEF Serial

LEMMA ClaimMatchIsSerial ==
  ASSUME IInv, Serial, NEW r \in Req, ClaimMatch(r) PROVE Serial'
<1>1. /\ req[r].op = "create" /\ req[r] # Idle /\ Done(r) /\ UNCHANGED <<claims, log>>
      /\ req[r].seen = match[req[r].match]
  BY DEF ClaimMatch, At, Idle, Serial, SlotsStillSo, StillSo
<1>2. CASE <<req[r].seen, "CLAIMED">> \in MatchSeeded
  <2>1. req[r].seen = "PENDING"
    BY <1>2 DEF MatchSeeded
  <2> QED BY <1>1, <1>2, <2>1, DecisionIsSerial DEF ClaimMatch
<1>3. CASE <<req[r].seen, "CLAIMED">> \notin MatchSeeded
  BY <1>1, <1>3, DoneIsSerial DEF ClaimMatch
<1> QED BY <1>2, <1>3

LEMMA RejectMatchIsSerial ==
  ASSUME IInv, Serial, NEW r \in Req, RejectMatch(r) PROVE Serial'
<1>1. req[r].op = "rejectMatch" /\ match[req[r].match] = "PENDING"
  BY DEF RejectMatch, At, Serial, SlotsStillSo, StillSo
<1> QED BY <1>1, DecisionIsSerial DEF RejectMatch

LEMMA ReadClaimIsSerial ==
  ASSUME IInv, Serial, NEW r \in Req, ReadClaim(r) PROVE Serial'
<1>1. /\ req[r].op \in OperationName /\ req[r] # Idle /\ req[r] \in Request
      /\ UNCHANGED <<match, claims, log, matchLog>>
  BY OperationMoves DEF ReadClaim, At, Idle, IInv, TypeOK
<1>2. CASE Done(r)
  BY <1>1, <1>2, DoneIsSerial
<1>3. CASE ~Done(r)
  <2>1. PICK reason \in Spare \cup {Seeded} :
          /\ claims[req[r].claim].status \in Operation[req[r].op].from
          /\ req' = [req EXCEPT ![r].step = "commit", ![r].seen = claims[req[r].claim].status,
                                ![r].reason = reason]
    BY <1>3 DEF ReadClaim
  <2>2. PICK slot : slot = [req[r] EXCEPT !.step = "commit", !.reason = reason,
                                          !.seen = claims[req[r].claim].status]
    OBVIOUS
  <2>3. req' = [req EXCEPT ![r] = slot]
    BY <1>1, <2>1, <2>2
  <2>4. /\ slot.op = req[r].op /\ slot.claim = req[r].claim
        /\ slot.seen = claims[req[r].claim].status
    BY <1>1, <2>2 DEF Request
  <2>5. StillSo(slot)'
    BY <1>1, <2>1, <2>4, OperationMoves DEF StillSo
  <2> QED BY <1>1, <2>3, <2>5, NoMove
<1> QED BY <1>2, <1>3

\* The status it writes follows the one it finds.
LEMMA CommitMoveIsSerial ==
  ASSUME IInv, Serial, NEW r \in Req, CommitMove(r) PROVE Serial'
<1>1. /\ req[r].op \in OperationName /\ req[r] # Idle /\ Done(r) /\ UNCHANGED <<match, matchLog>>
      /\ req[r].step = "commit" /\ req[r].claim \in DOMAIN claims
  BY OperationMoves DEF CommitMove, At, Idle, IInv, SlotsAreSound, SlotIsSound
<1>2. CASE UNCHANGED <<claims, log>>
  BY <1>1, <1>2, DoneIsSerial
<1>3. CASE ~UNCHANGED <<claims, log>>
  <2>1. PICK op \in OperationName : op = req[r].op
    BY <1>1
  <2>2. PICK c \in DOMAIN claims : c = req[r].claim
    BY <1>1
  <2>3. PICK to \in ClaimStatus : to = Operation[op].to
    BY OperationNames
  <2>4. PICK row : row = [of |-> c, from |-> req[r].seen, to |-> to]
    OBVIOUS
  <2>5. claims' = Moved(c, to) /\ log' = Append(log, row)
    BY <1>3, <2>1, <2>2, <2>3, <2>4 DEF CommitMove
  <2>6. req[r].seen = claims[c].status /\ claims[c].status \in Operation[op].from
    BY <1>1, <2>1, <2>2 DEF Serial, SlotsStillSo, StillSo
  <2>7. row.of = c /\ row.from = claims[c].status /\ row.to = to
    BY <2>4, <2>6
  <2>8. claims \in Seq(Claim) /\ DOMAIN claims = 1 .. Len(claims) /\ claims[c] \in Claim
        /\ log \in Seq(Row(Nat, ClaimStatus)) /\ Len(log) \in Nat /\ DOMAIN log = 1 .. Len(log)
    BY DEF IInv, TypeOK
  <2>9. row \in Row(Nat, ClaimStatus)
    BY <2>4, <2>6, <2>8 DEF Row, Claim
  <2>10. /\ DOMAIN claims' = DOMAIN claims
         /\ \A d \in DOMAIN claims : /\ claims'[d].match = claims[d].match
                                     /\ claims'[d].status = IF d = c THEN to ELSE claims[d].status
    <3>1. PICK new : new = [claims[c] EXCEPT !.status = to, !.invoiced = Invoiced(c, to)]
      OBVIOUS
    <3>2. new.match = claims[c].match /\ new.status = to
      BY <2>8, <3>1 DEF Claim
    <3>3. claims' = [claims EXCEPT ![c] = new]
      BY <2>5, <3>1 DEF Moved
    <3> QED BY <2>8, <3>2, <3>3
  <2>11. PICK n : n = Len(log) + 1
    OBVIOUS
  <2>12. /\ DOMAIN log' = DOMAIN log \cup {n} /\ n \notin DOMAIN log /\ n \in Nat
         /\ \A i \in DOMAIN log : log'[i] = log[i]
         /\ log'[n] = row
         /\ Len(log') + 1 = n + 1
    BY <2>5, <2>8, <2>9, <2>11, AppendRows, AppendProperties
  <2>13. SoleHandler' /\ SlotsStillSo'
    BY <1>1, OthersIdle, IdleIsStillSo DEF IInv, TypeOK, Serial, Done
  <2>14. OlderAreCancelled'
    <3>1. claims[c].status # "CANCELLED"
      BY <2>6, OperationMoves
    <3> QED BY <2>10, <3>1 DEF Serial, OlderAreCancelled
  <2>15. RowsAreMoves'
    BY <2>3, <2>6, <2>7, <2>12 DEF Serial, RowsAreMoves
  <2>16. \A d : StatusBefore(d, n + 1)' = IF d = c THEN to ELSE StatusBefore(d, n)
    <3> TAKE d
    <3>1. StatusBefore(d, n + 1)' = IF row.of = d THEN row.to ELSE StatusBefore(d, n)
      BY <2>5, <2>8, <2>9, <2>11, StatusAfterRow
    <3> QED BY <2>7, <3>1
  <2>17. \A d : \A i \in 1 .. n : StatusBefore(d, i)' = StatusBefore(d, i)
    <3> TAKE d
    <3> TAKE i \in 1 .. n
    <3> QED BY <2>5, <2>8, <2>9, <2>11, StatusBeforeStays
  <2>18. \A d \in DOMAIN claims' : (claims[d].status = StatusBefore(d, Len(log) + 1))'
    <3> TAKE d \in DOMAIN claims'
    <3>1. claims'[d].status = StatusBefore(d, n + 1)'
      BY <2>10, <2>11, <2>16 DEF Serial, RowsChain
    <3>2. StatusBefore(d, Len(log) + 1)' = StatusBefore(d, n + 1)'
      BY <2>12 DEF StatusBefore, RowsBefore
    <3> QED BY <3>1, <3>2
  <2>19. \A i \in DOMAIN log' : (log[i].from = StatusBefore(log[i].of, i))'
    <3> TAKE i \in DOMAIN log'
    <3>1. PICK d : d = log'[i].of
      OBVIOUS
    <3>2. StatusBefore(d, i)' = StatusBefore(d, i)
      BY <2>8, <2>11, <2>12, <2>17
    <3>3. log'[i].from = StatusBefore(d, i)
      BY <2>7, <2>11, <2>12, <3>1 DEF Serial, RowsChain
    <3>4. StatusBefore(log[i].of, i)' = StatusBefore(d, i)'
      BY <3>1 DEF StatusBefore, RowsBefore
    <3> QED BY <3>2, <3>3, <3>4
  <2>20. RowsChain'
    BY <2>12, <2>18, <2>19 DEF RowsChain
  <2>21. DecidedOnce'
    BY <1>1 DEF Serial, DecidedOnce
  <2> QED BY <2>13, <2>14, <2>15, <2>20, <2>21 DEF Serial
<1> QED BY <1>2, <1>3

LEMMA EditReasonIsSerial ==
  ASSUME IInv, Serial, NEW s \in Spare, EditReason(s) PROVE Serial'
<1>1. UNCHANGED <<match, claims, log, matchLog, req>>
  BY DEF EditReason
<1>2. SoleHandler' /\ SlotsStillSo'
  BY <1>1 DEF Serial, SoleHandler, SlotsStillSo, StillSo, Of
<1>3. ASSUME NEW c, NEW n PROVE StatusBefore(c, n)' = StatusBefore(c, n)
  BY <1>1 DEF StatusBefore, RowsBefore
<1>4. OlderAreCancelled' /\ RowsAreMoves' /\ RowsChain' /\ DecidedOnce'
  BY <1>1, <1>3 DEF Serial, OlderAreCancelled, RowsAreMoves, RowsChain, DecidedOnce
<1> QED BY <1>2, <1>4 DEF Serial

-----------------------------------------------------------------------------
LEMMA InitIsSerial == Init => Serial
<1> SUFFICES ASSUME Init PROVE Serial
  OBVIOUS
<1>1. SoleHandler /\ SlotsStillSo
  BY OperationMoves DEF Init, SoleHandler, SlotsStillSo, StillSo, Idle
<1>2. OlderAreCancelled /\ RowsAreMoves /\ RowsChain /\ DecidedOnce
  BY DEF Init, OlderAreCancelled, RowsAreMoves, RowsChain, DecidedOnce
<1> QED BY <1>1, <1>2 DEF Serial

\* Only the beginning of a handler counts an overlap; whatever was true before the first
\* one is true before every step until then.
LEMMA NextIsSerial == SerialInv /\ [Next]_vars => SerialInv'
<1> SUFFICES ASSUME SerialInv, [Next]_vars, overlaps' = 0 PROVE Serial'
  BY NextIsSound DEF SerialInv
<1>1. ASSUME NEW r \in Req, NEW m \in Match, StartCreate(r, m) PROVE Serial'
  BY <1>1, StartCreateIsSerial
<1>2. ASSUME NEW r \in Req, NEW m \in Match, StartRejectMatch(r, m) PROVE Serial'
  BY <1>2, StartRejectMatchIsSerial
<1>3. ASSUME NEW r \in Req, NEW op \in OperationName, NEW c \in DOMAIN claims,
             StartMove(r, op, c)
      PROVE  Serial'
  BY <1>3, StartMoveIsSerial
<1>4. ASSUME UNCHANGED overlaps PROVE IInv /\ Serial
  BY <1>4 DEF SerialInv
<1>5. ASSUME NEW r \in Req, CheckNoOtherClaim(r) PROVE Serial'
  <2>1. UNCHANGED overlaps
    BY <1>5 DEF CheckNoOtherClaim
  <2> QED BY <1>4, <1>5, <2>1, CheckNoOtherClaimIsSerial
<1>6. ASSUME NEW r \in Req, InsertClaim(r) PROVE Serial'
  <2>1. UNCHANGED overlaps
    BY <1>6 DEF InsertClaim
  <2> QED BY <1>4, <1>6, <2>1, InsertClaimIsSerial
<1>7. ASSUME NEW r \in Req, RecordAnswers(r) PROVE Serial'
  <2>1. UNCHANGED overlaps
    BY <1>7 DEF RecordAnswers
  <2> QED BY <1>4, <1>7, <2>1, RecordAnswersIsSerial
<1>8. ASSUME NEW r \in Req, AttachFiles(r) PROVE Serial'
  <2>1. UNCHANGED overlaps
    BY <1>8 DEF AttachFiles
  <2> QED BY <1>4, <1>8, <2>1, AttachFilesIsSerial
<1>9. ASSUME NEW r \in Req, ClaimMatch(r) PROVE Serial'
  <2>1. UNCHANGED overlaps
    BY <1>9 DEF ClaimMatch
  <2> QED BY <1>4, <1>9, <2>1, ClaimMatchIsSerial
<1>10. ASSUME NEW r \in Req, ReadClaim(r) PROVE Serial'
  <2>1. UNCHANGED overlaps
    BY <1>10 DEF ReadClaim
  <2> QED BY <1>4, <1>10, <2>1, ReadClaimIsSerial
<1>11. ASSUME NEW r \in Req, CommitMove(r) PROVE Serial'
  <2>1. UNCHANGED overlaps
    BY <1>11 DEF CommitMove
  <2> QED BY <1>4, <1>11, <2>1, CommitMoveIsSerial
<1>12. ASSUME NEW r \in Req, RejectMatch(r) PROVE Serial'
  <2>1. UNCHANGED overlaps
    BY <1>12 DEF RejectMatch
  <2> QED BY <1>4, <1>12, <2>1, RejectMatchIsSerial
<1>13. ASSUME NEW r \in Req, Fail(r) PROVE Serial'
  <2>1. UNCHANGED overlaps /\ UNCHANGED <<match, claims, log, matchLog>> /\ req[r] # Idle /\ Done(r)
    BY <1>13 DEF Fail
  <2> QED BY <1>4, <2>1, DoneIsSerial
<1>14. ASSUME NEW s \in Spare, EditReason(s) PROVE Serial'
  <2>1. UNCHANGED overlaps
    BY <1>14 DEF EditReason
  <2> QED BY <1>4, <1>14, <2>1, EditReasonIsSerial
<1>15. CASE UNCHANGED vars
  <2>1. Serial /\ UNCHANGED <<match, claims, log, matchLog, req>>
    BY <1>4, <1>15 DEF vars
  <2>2. ASSUME NEW c, NEW n PROVE StatusBefore(c, n)' = StatusBefore(c, n)
    BY <2>1 DEF StatusBefore, RowsBefore
  <2>3. SoleHandler' /\ SlotsStillSo'
    BY <2>1 DEF Serial, SoleHandler, SlotsStillSo, StillSo, Of
  <2>4. OlderAreCancelled' /\ RowsAreMoves' /\ RowsChain' /\ DecidedOnce'
    BY <2>1, <2>2 DEF Serial, OlderAreCancelled, RowsAreMoves, RowsChain, DecidedOnce
  <2> QED BY <2>3, <2>4 DEF Serial
<1> QED BY <1>1, <1>2, <1>3, <1>5, <1>6, <1>7, <1>8, <1>9, <1>10, <1>11, <1>12, <1>13, <1>14,
           <1>15 DEF Next, EditReasons

\* A review follows a dispute, a dispute a rejection.
LEMMA SerialIsPath == SerialInv => LogIsPath
<1> SUFFICES ASSUME SerialInv, overlaps = 0
             PROVE  /\ \A c \in DOMAIN claims : claims[c].status = StatusBefore(c, Len(log) + 1)
                    /\ \A i \in DOMAIN log :
                         /\ log[i].from = StatusBefore(log[i].of, i)
                         /\ log[i].from # "CANCELLED"
                         /\ log[i].to = "UNDER_REVIEW" =>
                              \E j, k \in RowsBefore(log[i].of, i) :
                                j < k /\ log[j].to = "REJECTED" /\ log[k].to = "DISPUTED"
  BY DEF LogIsPath
<1>1. RowsChain /\ RowsAreMoves
  BY DEF SerialInv, Serial
<1>2. Len(log) \in Nat /\ DOMAIN log = 1 .. Len(log)
  BY DEF SerialInv, IInv, TypeOK
<1>3. \A i \in DOMAIN log :
        /\ log[i].from # "CANCELLED"
        /\ log[i].to = "UNDER_REVIEW" => log[i].from = "DISPUTED"
        /\ log[i].to = "DISPUTED" => log[i].from = "REJECTED"
  BY <1>1, OperationMoves DEF RowsAreMoves
<1>4. ASSUME NEW i \in DOMAIN log, log[i].from # "PENDING"
      PROVE  \E k \in RowsBefore(log[i].of, i) : log[k].to = log[i].from
  BY <1>1, <1>2, <1>4, StatusHasRow DEF RowsChain
<1>5. ASSUME NEW i \in DOMAIN log, log[i].to = "UNDER_REVIEW"
      PROVE  \E j, k \in RowsBefore(log[i].of, i) :
               j < k /\ log[j].to = "REJECTED" /\ log[k].to = "DISPUTED"
  <2>1. PICK k \in RowsBefore(log[i].of, i) : log[k].to = "DISPUTED"
    BY <1>3, <1>4, <1>5
  <2>2. k \in DOMAIN log /\ k < i /\ log[k].of = log[i].of
    BY <1>2, <2>1 DEF RowsBefore
  <2>3. PICK j \in RowsBefore(log[k].of, k) : log[j].to = "REJECTED"
    BY <1>3, <1>4, <2>1, <2>2
  <2>4. j < k /\ j \in RowsBefore(log[i].of, i)
    BY <1>2, <2>2, <2>3 DEF RowsBefore
  <2> QED BY <2>1, <2>3, <2>4
<1> QED BY <1>1, <1>3, <1>5 DEF RowsChain

LEMMA SerialIsOneOutcome == SerialInv => OneOutcomePerMatch
<1> SUFFICES ASSUME SerialInv, overlaps = 0, NEW m \in Match
             PROVE  LET rows == {i \in DOMAIN matchLog : matchLog[i].of = m} IN
                    /\ \A c, d \in Of(m) :
                         "CANCELLED" \notin {claims[c].status, claims[d].status} => c = d
                    /\ IF rows = {} THEN match[m] = "PENDING"
                       ELSE \E i \in rows : rows = {i} /\ match[m] = matchLog[i].to
  BY DEF OneOutcomePerMatch
<1>1. OlderAreCancelled /\ DecidedOnce
  BY DEF SerialInv, Serial
<1>2. DOMAIN claims \subseteq Nat
  BY DEF SerialInv, IInv, TypeOK
<1>3. ASSUME NEW c \in Of(m), NEW d \in Of(m),
             "CANCELLED" \notin {claims[c].status, claims[d].status}
      PROVE  c = d
  <2>1. c \in DOMAIN claims /\ d \in DOMAIN claims /\ claims[c].match = claims[d].match
    BY DEF Of
  <2>2. ~(c < d) /\ ~(d < c)
    BY <1>1, <1>3, <2>1 DEF OlderAreCancelled
  <2> QED BY <1>2, <2>1, <2>2
<1> DEFINE rows == {i \in DOMAIN matchLog : matchLog[i].of = m}
<1>4. CASE rows = {}
  <2>1. match[m] = "PENDING"
    BY <1>1, <1>4 DEF DecidedOnce
  <2> QED BY <1>3, <1>4, <2>1
<1>5. CASE rows # {}
  <2>1. PICK i : i \in rows
    BY <1>5
  <2>2. rows = {i} /\ match[m] = matchLog[i].to
    BY <1>1, <2>1 DEF DecidedOnce
  <2> QED BY <1>3, <1>5, <2>1, <2>2
<1> QED BY <1>4, <1>5

\* As long as no handler has overlapped another, the rows of a claim form a path from
\* PENDING to its status, whatever is edited in the reasons; it is reviewed only after a
\* rejection and a dispute, and does not move once it is cancelled.
THEOREM ClaimsFollowTheirRows == Spec => []LogIsPath
<1>1. Init => SerialInv
  BY InitIsSound, InitIsSerial DEF SerialInv
<1> QED BY <1>1, NextIsSerial, SerialIsPath, PTL DEF Spec

\* As long as no handler has overlapped another, a match has at most one claim that is not
\* cancelled, and is decided at most once, as its row says.
THEOREM MatchesAreDecidedOnce == Spec => []OneOutcomePerMatch
<1>1. Init => SerialInv
  BY InitIsSound, InitIsSerial DEF SerialInv
<1> QED BY <1>1, NextIsSerial, SerialIsOneOutcome, PTL DEF Spec
=============================================================================
