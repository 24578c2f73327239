----------------------- MODULE DocumentExchangeProofs -----------------------
(***************************************************************************)
(* What DocumentExchange keeps for EVERY number of overlapping handlers,    *)
(* claims, exchanges and codes.  The invariant that carries the proofs is   *)
(* about the snapshots: what a handler has read and will act on later is    *)
(* still true when it acts, although nothing is locked in between.          *)
(*                                                                         *)
(* And what it keeps when handlers run one after the other (OneAtATime),    *)
(* with any number of claims, exchanges and codes, and handlers that die    *)
(* between two statements.                                                  *)
(***************************************************************************)
EXTENDS SoleClaim, RowLemmas, FiniteSetTheorems, TLAPS

IssueSteps == {"expireOldCodes", "createCode", "markInProgress"}
CodeSteps  == {"expireCode", "countAttempt", "confirmExchange",
               "confirmDelivery", "cancelCode"}

\* What a handler in flight may rely on: the rows it read are there, and they
\* belong together.
SnapshotOK(q) ==
  /\ q.step = "createExchange" => q.lane \in Lane /\ q.method \in ExchangeMethods
  /\ q.step \in {"updateExchange", "updateSubmission"} => q.method \in ExchangeMethods
  /\ q.step \in IssueSteps \cup CodeSteps =>
       q.ex \in DOMAIN exchanges /\ exchanges[q.ex].lane = q.lane
  /\ q.step \in CodeSteps =>
       q.code \in DOMAIN verifications /\ verifications[q.code].ex = q.ex

RowsOK ==
  /\ TypeOK
  /\ \A v \in DOMAIN verifications : verifications[v].ex \in DOMAIN exchanges
  /\ \A r \in Req : SnapshotOK(req[r])

\* Rows are never deleted, never change lane, and a confirmation is never lost.
RowsKept ==
  /\ \A e \in DOMAIN exchanges :
       e \in DOMAIN exchanges' /\ exchanges'[e].lane = exchanges[e].lane
  /\ \A v \in DOMAIN verifications :
       /\ v \in DOMAIN verifications'
       /\ verifications'[v].ex = verifications[v].ex
       /\ verifications[v].confirmed => verifications'[v].confirmed

-----------------------------------------------------------------------------
(* Slots *)

LEMMA IdleIsRequest == Idle \in Request /\ SnapshotOK(Idle)
BY DEF Idle, Request, Step, SnapshotOK, IssueSteps, CodeSteps

\* Snapshots survive every step that keeps the rows.
LEMMA SnapshotsKept ==
  ASSUME RowsKept
  PROVE  \A q : SnapshotOK(q) => SnapshotOK(q)'
BY DEF RowsKept, SnapshotOK

\* A step that keeps the rows and gives slot r a sound record keeps the slots.
LEMMA SlotStep ==
  ASSUME RowsOK, RowsKept, NEW r \in Req, NEW s \in Request, SnapshotOK(s)',
         req' = [req EXCEPT ![r] = s]
  PROVE  req' \in [Req -> Request] /\ \A p \in Req : SnapshotOK(req[p])'
<1>1. req \in [Req -> Request] BY DEF RowsOK, TypeOK
<1>2. req' \in [Req -> Request] BY <1>1
<1>3. ASSUME NEW p \in Req PROVE SnapshotOK(req[p])'
  <2>1. CASE p = r
    <3>1. req'[p] = s BY <1>1, <2>1
    <3> QED BY <3>1 DEF SnapshotOK
  <2>2. CASE p # r
    <3>1. req'[p] = req[p] BY <1>1, <2>2
    <3>2. SnapshotOK(req[p]) BY DEF RowsOK
    <3> QED BY <3>1, <3>2 DEF SnapshotOK, RowsKept
  <2> QED BY <2>1, <2>2
<1> QED BY <1>2, <1>3

\* The first action of a handler: nothing but its slot changes.
LEMMA LoadStep ==
  ASSUME RowsOK, NEW r \in Req, NEW s \in Request, SnapshotOK(s), Load(r, s),
         UNCHANGED <<world, money, exchanges, verifications>>
  PROVE  RowsOK'
<1>1. RowsKept BY DEF RowsKept
<1>2. SnapshotOK(s)' BY DEF SnapshotOK
<1>3. req' \in [Req -> Request] /\ \A p \in Req : SnapshotOK(req[p])'
  BY <1>1, <1>2, SlotStep DEF Load
<1> QED BY <1>3 DEF RowsOK, TypeOK, world, money

-----------------------------------------------------------------------------
(* Rows *)

LEMMA UpdateExchangeRow ==
  ASSUME RowsOK, NEW k, NEW x, exchanges' = [exchanges EXCEPT ![k] = x],
         k \in DOMAIN exchanges => x \in Exchange /\ x.lane = exchanges[k].lane
  PROVE  /\ exchanges' \in Seq(Exchange)
         /\ DOMAIN exchanges' = DOMAIN exchanges
         /\ \A e \in DOMAIN exchanges : exchanges'[e].lane = exchanges[e].lane
<1>1. exchanges \in Seq(Exchange) BY DEF RowsOK, TypeOK
<1>2. /\ exchanges' \in Seq(Exchange)
      /\ DOMAIN exchanges' = DOMAIN exchanges
      /\ \A e \in DOMAIN exchanges :
           exchanges'[e] = IF e = k THEN x ELSE exchanges[e]
  BY <1>1, UpdateInSeq
<1> QED BY <1>2

LEMMA UpdateCodeRow ==
  ASSUME RowsOK, NEW k, NEW x, verifications' = [verifications EXCEPT ![k] = x],
         k \in DOMAIN verifications =>
           /\ x \in Verification
           /\ x.ex = verifications[k].ex
           /\ verifications[k].confirmed => x.confirmed
  PROVE  /\ verifications' \in Seq(Verification)
         /\ DOMAIN verifications' = DOMAIN verifications
         /\ \A v \in DOMAIN verifications :
              /\ verifications'[v].ex = verifications[v].ex
              /\ verifications[v].confirmed => verifications'[v].confirmed
<1>1. verifications \in Seq(Verification) BY DEF RowsOK, TypeOK
<1>2. /\ verifications' \in Seq(Verification)
      /\ DOMAIN verifications' = DOMAIN verifications
      /\ \A v \in DOMAIN verifications :
           verifications'[v] = IF v = k THEN x ELSE verifications[v]
  BY <1>1, UpdateInSeq
<1> QED BY <1>2

LEMMA ResolveCodeRows ==
  ASSUME RowsOK, NEW k, NEW status \in CodeStatus,
         verifications' = ResolvePending(k, status)
  PROVE  /\ verifications' \in Seq(Verification)
         /\ DOMAIN verifications' = DOMAIN verifications
         /\ \A v \in DOMAIN verifications :
              /\ verifications'[v].ex = verifications[v].ex
              /\ verifications[v].confirmed => verifications'[v].confirmed
<1> DEFINE n == Len(verifications)
           row(v) == IF verifications[v].ex = k /\ verifications[v].status = "PENDING"
                     THEN [verifications[v] EXCEPT !.status = status]
                     ELSE verifications[v]
<1>1. /\ n \in Nat /\ DOMAIN verifications = 1..n
      /\ \A v \in 1..n : verifications[v] \in Verification
  BY DEF RowsOK, TypeOK
<1>2. \A v \in 1..n : row(v) \in Verification
  BY <1>1 DEF Verification
<1>3. [v \in 1..n |-> row(v)] \in Seq(Verification)
  BY <1>1, <1>2, IsASeq
<1>4. verifications' = [v \in 1..n |-> row(v)]
  BY <1>1 DEF ResolvePending
<1>5. \A v \in 1..n : /\ row(v).ex = verifications[v].ex
                      /\ row(v).confirmed = verifications[v].confirmed
  BY <1>1 DEF Verification
<1> QED BY <1>1, <1>3, <1>4, <1>5

\* A step that keeps the rows, writes well-typed ones and leaves slot r with a
\* sound record keeps RowsOK, provided it types what else it changes.
LEMMA CommitStep ==
  ASSUME RowsOK, RowsKept, NEW r \in Req, NEW s \in Request, SnapshotOK(s)',
         req' = [req EXCEPT ![r] = s],
         exchanges' \in Seq(Exchange), verifications' \in Seq(Verification),
         \A v \in DOMAIN verifications' :
           verifications'[v].ex \in DOMAIN exchanges',
         found' \in [status: FoundStatus, custody: CustodyStatus,
                     station: Station \cup {None}],
         caseLog' \in Seq(FoundStatus \X FoundStatus),
         lost' \in [Claim -> {"SUBMITTED", "COMPLETED"}],
         claim' = claim,
         invoice' \in [Claim -> Invoice],
         disbursed' \in [Claim -> Nat],
         operated' \in BOOLEAN
  PROVE  RowsOK'
<1>1. req' \in [Req -> Request] /\ \A p \in Req : SnapshotOK(req[p])'
  BY SlotStep
<1>2. claim' \in [Claim -> {"PENDING", "VERIFIED", "REJECTED"}]
  BY DEF RowsOK, TypeOK
<1>3. TypeOK' BY <1>1, <1>2 DEF TypeOK
<1> QED BY <1>1, <1>3 DEF RowsOK

-----------------------------------------------------------------------------
(* The first action of each operation *)

LEMMA StartSteps ==
  ASSUME RowsOK, ExchangeAssumption, NEW r \in Req,
         \/ ScheduleInbound(r) \/ SetSubmission(r)
         \/ \E c \in Claim : ScheduleOutbound(r, c) \/ UpdateOutbound(r, c)
         \/ \E lane \in Lane : \/ IssueCode(r, lane) \/ VerifyCode(r, lane)
                               \/ StartCancelCode(r, lane)
                               \/ StartWithdraw(r, lane)
         \/ EnterDeliveryCode(r) \/ StartFailDelivery(r) \/ StartReviewCase(r)
  PROVE  RowsOK'
<1> USE DEF Request, Idle, Step, SnapshotOK, IssueSteps, CodeSteps
<1>0. /\ DOMAIN exchanges \subseteq Nat /\ DOMAIN verifications \subseteq Nat
      /\ \A e \in DOMAIN exchanges : exchanges[e] \in Exchange
      /\ \A v \in DOMAIN verifications :
           /\ verifications[v] \in Verification
           /\ verifications[v].ex \in DOMAIN exchanges
  BY DEF RowsOK, TypeOK
<1>1. CASE ScheduleInbound(r)
  <2>1. PICK m \in Method \cap InboundMethods :
          Load(r, [Idle EXCEPT !.step = "createExchange", !.lane = Inbound,
                               !.method = m])
    BY <1>1 DEF ScheduleInbound
  <2> QED BY <1>1, <2>1, LoadStep
          DEF ScheduleInbound, ExchangeMethods, Lane
<1>2. ASSUME NEW c \in Claim, ScheduleOutbound(r, c) PROVE RowsOK'
  <2>1. PICK m \in Method \cap OutboundMethods :
          Load(r, [Idle EXCEPT !.step = "createExchange", !.lane = c,
                     !.method = m, !.zone = m \in DeliveryMethods /\ ZoneKnown])
    BY <1>2 DEF ScheduleOutbound
  <2> QED BY <1>2, <2>1, LoadStep DEF ScheduleOutbound, ExchangeMethods, Lane
<1>3. ASSUME NEW c \in Claim, UpdateOutbound(r, c) PROVE RowsOK'
  <2>1. PICK e \in DOMAIN exchanges, m \in Method \cap OutboundMethods :
          Load(r, [Idle EXCEPT !.step = "updateExchange", !.lane = c, !.ex = e,
                     !.method = m, !.was = exchanges[e].method,
                     !.zone = m \in DeliveryMethods /\ ZoneKnown])
    BY <1>3 DEF UpdateOutbound
  <2>2. exchanges[e].method \in ExchangeMethods BY <1>0 DEF Exchange
  <2> QED BY <1>0, <1>3, <2>1, <2>2, LoadStep
          DEF UpdateOutbound, ExchangeMethods, Lane
<1>4. ASSUME NEW lane \in Lane, IssueCode(r, lane) PROVE RowsOK'
  <2>1. PICK e \in DOMAIN exchanges :
          /\ IsCurrent(lane, e)
          /\ Load(r, [Idle EXCEPT !.step = "expireOldCodes", !.lane = lane,
                                  !.ex = e, !.was = exchanges[e].status])
    BY <1>4 DEF IssueCode
  <2>2. exchanges[e].status \in ExchangeStatus /\ exchanges[e].lane = lane
    BY <1>0, <2>1 DEF Exchange, IsCurrent
  <2> QED BY <1>0, <1>4, <2>1, <2>2, LoadStep DEF IssueCode
<1>5. ASSUME NEW lane \in Lane, VerifyCode(r, lane) PROVE RowsOK'
  <2>1. PICK e \in DOMAIN exchanges, v \in DOMAIN verifications,
             step \in {"expireCode", "countAttempt", "confirmExchange"} :
          /\ IsCurrent(lane, e) /\ IsPending(e, v)
          /\ Load(r, [Idle EXCEPT !.step = step, !.lane = lane, !.ex = e,
                       !.code = v, !.attempts = verifications[v].attempts + 1])
    BY <1>5 DEF VerifyCode
  <2>2. exchanges[e].lane = lane /\ verifications[v].ex = e
    BY <2>1 DEF IsCurrent, IsPending
  <2>3. verifications[v].attempts + 1 \in Nat BY <1>0 DEF Verification
  <2> QED BY <1>0, <1>5, <2>1, <2>2, <2>3, LoadStep DEF VerifyCode
<1>6. ASSUME NEW lane \in Lane, StartCancelCode(r, lane) PROVE RowsOK'
  <2>1. PICK e \in DOMAIN exchanges, v \in DOMAIN verifications :
          /\ IsCurrent(lane, e) /\ IsPending(e, v)
          /\ Load(r, [Idle EXCEPT !.step = "cancelCode", !.lane = lane, !.ex = e,
                                  !.code = v])
    BY <1>6 DEF StartCancelCode
  <2>2. exchanges[e].lane = lane /\ verifications[v].ex = e
    BY <2>1 DEF IsCurrent, IsPending
  <2> QED BY <1>0, <1>6, <2>1, <2>2, LoadStep DEF StartCancelCode
<1>7. ASSUME NEW lane \in Lane, StartWithdraw(r, lane) PROVE RowsOK'
  <2>1. PICK e \in DOMAIN exchanges :
          Load(r, [Idle EXCEPT !.step = "withdraw", !.lane = lane, !.ex = e])
    BY <1>7 DEF StartWithdraw
  <2> QED BY <1>0, <1>7, <2>1, LoadStep DEF StartWithdraw
<1>8. CASE EnterDeliveryCode(r)
  <2>1. PICK v \in DOMAIN verifications, step \in {"expireCode", "confirmDelivery"} :
          /\ exchanges[verifications[v].ex].lane \in Claim
          /\ Load(r, [Idle EXCEPT !.lane = exchanges[verifications[v].ex].lane,
                     !.ex = verifications[v].ex, !.code = v, !.step = step])
    BY <1>8 DEF EnterDeliveryCode
  <2> QED BY <1>0, <1>8, <2>1, LoadStep DEF EnterDeliveryCode, Lane
<1>9. CASE StartFailDelivery(r)
  <2>1. PICK e \in DOMAIN exchanges :
          Load(r, [Idle EXCEPT !.step = "failDelivery", !.ex = e])
    BY <1>9 DEF StartFailDelivery
  <2> QED BY <1>0, <1>9, <2>1, LoadStep DEF StartFailDelivery
<1>10. CASE StartReviewCase(r)
  <2>1. PICK step \in {"verifyCase", "rejectCase"} :
          Load(r, [Idle EXCEPT !.step = step])
    BY <1>10 DEF StartReviewCase
  <2> QED BY <1>10, <2>1, LoadStep DEF StartReviewCase
<1>11. CASE SetSubmission(r)
  <2>1. PICK m \in Method \cap InboundMethods :
          \/ Load(r, [Idle EXCEPT !.step = "createExchange", !.lane = Inbound,
                                  !.method = m])
          \/ \E e \in DOMAIN exchanges :
               Load(r, [Idle EXCEPT !.step = "updateSubmission",
                          !.lane = Inbound, !.ex = e, !.method = m])
    BY <1>11 DEF SetSubmission
  <2>2. m \in ExchangeMethods /\ Inbound \in Lane BY DEF ExchangeMethods, Lane
  <2>3. UNCHANGED <<world, money, exchanges, verifications>>
    BY <1>11 DEF SetSubmission
  <2>4. CASE Load(r, [Idle EXCEPT !.step = "createExchange", !.lane = Inbound,
                                  !.method = m])
    BY <2>2, <2>3, <2>4, LoadStep
  <2>5. ASSUME NEW e \in DOMAIN exchanges,
               Load(r, [Idle EXCEPT !.step = "updateSubmission",
                          !.lane = Inbound, !.ex = e, !.method = m])
        PROVE  RowsOK'
    BY <1>0, <2>2, <2>3, <2>5, LoadStep
  <2> QED BY <2>1, <2>4, <2>5
<1> QED BY <1>1, <1>2, <1>3, <1>4, <1>5, <1>6, <1>7, <1>8, <1>9, <1>10, <1>11

-----------------------------------------------------------------------------
(* The writes of each operation *)

LEMMA FeeTypes ==
  \A i \in Invoice : WithFee(i) \in Invoice /\ WithoutFees(i) \in Invoice
BY DEF Invoice, WithFee, WithoutFees

LEMMA WriteSteps ==
  ASSUME RowsOK, ExchangeAssumption, NEW r \in Req,
         \/ CreateExchange(r) \/ AddDeliveryFee(r) \/ UpdateExchange(r)
         \/ UpdateSubmission(r)
         \/ ExpireOldCodes(r) \/ CreateCode(r) \/ MarkInProgress(r)
         \/ ExpireCode(r) \/ CountAttempt(r) \/ CancelCode(r) \/ Withdraw(r)
         \/ FailDelivery(r) \/ Die(r)
  PROVE  RowsOK' /\ RowsKept
<1> USE DEF RowsKept, world, money
<1>0. /\ TypeOK /\ req[r] \in Request /\ SnapshotOK(req[r])
      /\ \A v \in DOMAIN verifications : verifications[v].ex \in DOMAIN exchanges
      /\ \A v \in DOMAIN verifications : verifications[v] \in Verification
      /\ \A e \in DOMAIN exchanges : exchanges[e] \in Exchange
      /\ DOMAIN exchanges \subseteq Nat \ {0}
  BY DEF RowsOK, TypeOK
<1>idle. SnapshotOK(Idle)' BY DEF SnapshotOK, Idle, IssueSteps, CodeSteps
<1>done. ASSUME Done(r) PROVE req' = [req EXCEPT ![r] = Idle]
  BY <1>done DEF Done
<1>goto. ASSUME NEW step \in Step, Goto(r, step)
         PROVE  /\ req' = [req EXCEPT ![r] = [req[r] EXCEPT !.step = step]]
                /\ [req[r] EXCEPT !.step = step] \in Request
  BY <1>0, <1>goto DEF Goto, Request
<1>1. CASE CreateExchange(r)
  <2> DEFINE row == [lane |-> req[r].lane, method |-> req[r].method,
                     status |-> "SCHEDULED", completedBy |-> None]
  <2>1. row \in Exchange
    BY <1>0, <1>1 DEF CreateExchange, At, SnapshotOK, Exchange, ExchangeStatus,
                      ActiveStatus
  <2>2. exchanges' = Append(exchanges, row) BY <1>1 DEF CreateExchange
  <2>3. exchanges \in Seq(Exchange) BY <1>0 DEF TypeOK
  <2>4. /\ exchanges' \in Seq(Exchange) /\ DOMAIN exchanges \subseteq DOMAIN exchanges'
        /\ \A e \in DOMAIN exchanges : exchanges'[e] = exchanges[e]
    BY <2>1, <2>2, <2>3, AppendRows
  <2>5. RowsKept BY <1>1, <2>4 DEF CreateExchange
  <2>6. PICK s \in {Idle, [req[r] EXCEPT !.step = "addDeliveryFee"]} :
          req' = [req EXCEPT ![r] = s] /\ s \in Request
    BY <1>1, <1>done, <1>goto, IdleIsRequest DEF CreateExchange, Step
  <2>7. SnapshotOK(s)'
    BY <1>0, <2>6, <1>idle DEF SnapshotOK, IssueSteps, CodeSteps, Request
  <2> QED BY <1>0, <1>1, <2>4, <2>5, <2>6, <2>7, CommitStep DEF CreateExchange, TypeOK
<1>2. CASE AddDeliveryFee(r)
  <2>1. invoice' \in [Claim -> Invoice]
    BY <1>0, <1>2, FeeTypes DEF AddDeliveryFee, TypeOK
  <2> QED BY <1>0, <1>2, <2>1, <1>done, <1>idle, IdleIsRequest, CommitStep
          DEF AddDeliveryFee, TypeOK
<1>3. CASE UpdateExchange(r)
  <2> DEFINE row == [exchanges[req[r].ex] EXCEPT !.method = req[r].method]
  <2>1. exchanges' = [exchanges EXCEPT ![req[r].ex] = row]
    BY <1>3 DEF UpdateExchange
  <2>2. req[r].ex \in DOMAIN exchanges =>
          row \in Exchange /\ row.lane = exchanges[req[r].ex].lane
    BY <1>0, <1>3 DEF UpdateExchange, At, SnapshotOK, Exchange
  <2>3. /\ exchanges' \in Seq(Exchange) /\ DOMAIN exchanges' = DOMAIN exchanges
        /\ \A e \in DOMAIN exchanges : exchanges'[e].lane = exchanges[e].lane
    BY <2>1, <2>2, UpdateExchangeRow
  <2>4. invoice' \in [Claim -> Invoice]
    BY <1>0, <1>3, FeeTypes DEF UpdateExchange, TypeOK
  <2> QED BY <1>0, <1>3, <2>3, <2>4, <1>done, <1>idle, IdleIsRequest, CommitStep
          DEF UpdateExchange, TypeOK
<1>4. CASE ExpireOldCodes(r)
  <2>1. /\ verifications' \in Seq(Verification)
        /\ DOMAIN verifications' = DOMAIN verifications
        /\ \A v \in DOMAIN verifications :
             /\ verifications'[v].ex = verifications[v].ex
             /\ verifications[v].confirmed => verifications'[v].confirmed
    BY <1>4, ResolveCodeRows DEF ExpireOldCodes, CodeStatus
  <2>2. PICK s \in {[req[r] EXCEPT !.step = "createCode"]} :
          req' = [req EXCEPT ![r] = s] /\ s \in Request
    BY <1>4, <1>goto DEF ExpireOldCodes, Step
  <2>3. SnapshotOK(s)'
    BY <1>0, <1>4, <2>1, <2>2
       DEF ExpireOldCodes, At, SnapshotOK, IssueSteps, CodeSteps, Request
  <2> QED BY <1>0, <1>4, <2>1, <2>2, <2>3, CommitStep
          DEF ExpireOldCodes, TypeOK
<1>5. CASE CreateCode(r)
  <2> DEFINE row == [ex |-> req[r].ex, status |-> "PENDING", attempts |-> 0,
                     lapsed |-> FALSE, confirmed |-> FALSE]
  <2>1. row \in Verification /\ req[r].ex \in DOMAIN exchanges
    BY <1>0, <1>5 DEF CreateCode, At, SnapshotOK, IssueSteps, Verification, CodeStatus
  <2>2. verifications' = Append(verifications, row) BY <1>5 DEF CreateCode
  <2>3. verifications \in Seq(Verification) BY <1>0 DEF TypeOK
  <2>3a. /\ DOMAIN verifications' = DOMAIN verifications \cup {Len(verifications) + 1}
         /\ verifications'[Len(verifications) + 1] = row
    BY <2>1, <2>2, <2>3, AppendRows
  <2>4. /\ verifications' \in Seq(Verification)
        /\ DOMAIN verifications \subseteq DOMAIN verifications'
        /\ \A v \in DOMAIN verifications : verifications'[v] = verifications[v]
        /\ \A v \in DOMAIN verifications' :
             v \in DOMAIN verifications \/ verifications'[v] = row
    BY <2>1, <2>2, <2>3, <2>3a, AppendRows
  <2>5. RowsKept BY <1>5, <2>4 DEF CreateCode
  <2>6. PICK s \in {Idle, [req[r] EXCEPT !.step = "markInProgress"]} :
          req' = [req EXCEPT ![r] = s] /\ s \in Request
    BY <1>5, <1>done, <1>goto, IdleIsRequest DEF CreateCode, Step
  <2>7. SnapshotOK(s)'
    BY <1>0, <1>5, <2>6, <1>idle
       DEF CreateCode, At, SnapshotOK, IssueSteps, CodeSteps, Request
  <2>8. \A v \in DOMAIN verifications' : verifications'[v].ex \in DOMAIN exchanges'
    BY <1>0, <1>5, <2>1, <2>4 DEF CreateCode
  <2> QED BY <1>0, <1>5, <2>4, <2>5, <2>6, <2>7, <2>8, CommitStep
          DEF CreateCode, TypeOK
<1>6. CASE MarkInProgress(r)
  <2> DEFINE row == [exchanges[req[r].ex] EXCEPT !.status = "IN_PROGRESS"]
  <2>1. exchanges' = [exchanges EXCEPT ![req[r].ex] = row]
    BY <1>6 DEF MarkInProgress
  <2>2. req[r].ex \in DOMAIN exchanges =>
          row \in Exchange /\ row.lane = exchanges[req[r].ex].lane
    BY <1>0 DEF Exchange, ExchangeStatus, ActiveStatus
  <2>3. /\ exchanges' \in Seq(Exchange) /\ DOMAIN exchanges' = DOMAIN exchanges
        /\ \A e \in DOMAIN exchanges : exchanges'[e].lane = exchanges[e].lane
    BY <2>1, <2>2, UpdateExchangeRow
  <2> QED BY <1>0, <1>6, <2>3, <1>done, <1>idle, IdleIsRequest, CommitStep
          DEF MarkInProgress, TypeOK
<1>7. CASE ExpireCode(r)
  <2> DEFINE row == [verifications[req[r].code] EXCEPT !.status = "EXPIRED"]
  <2>1. verifications' = [verifications EXCEPT ![req[r].code] = row]
    BY <1>7 DEF ExpireCode
  <2>2. req[r].code \in DOMAIN verifications =>
          /\ row \in Verification /\ row.ex = verifications[req[r].code].ex
          /\ verifications[req[r].code].confirmed => row.confirmed
    BY <1>0 DEF Verification, CodeStatus
  <2>3. /\ verifications' \in Seq(Verification)
        /\ DOMAIN verifications' = DOMAIN verifications
        /\ \A v \in DOMAIN verifications :
             /\ verifications'[v].ex = verifications[v].ex
             /\ verifications[v].confirmed => verifications'[v].confirmed
    BY <2>1, <2>2, UpdateCodeRow
  <2> QED BY <1>0, <1>7, <2>3, <1>done, <1>idle, IdleIsRequest, CommitStep
          DEF ExpireCode, TypeOK
<1>8. CASE CountAttempt(r)
  <2> DEFINE row == [verifications[req[r].code] EXCEPT !.attempts = req[r].attempts]
  <2>1. verifications' = [verifications EXCEPT ![req[r].code] = row]
    BY <1>8 DEF CountAttempt
  <2>2. req[r].code \in DOMAIN verifications =>
          /\ row \in Verification /\ row.ex = verifications[req[r].code].ex
          /\ verifications[req[r].code].confirmed => row.confirmed
    BY <1>0 DEF Verification, Request
  <2>3. /\ verifications' \in Seq(Verification)
        /\ DOMAIN verifications' = DOMAIN verifications
        /\ \A v \in DOMAIN verifications :
             /\ verifications'[v].ex = verifications[v].ex
             /\ verifications[v].confirmed => verifications'[v].confirmed
    BY <2>1, <2>2, UpdateCodeRow
  <2> QED BY <1>0, <1>8, <2>3, <1>done, <1>idle, IdleIsRequest, CommitStep
          DEF CountAttempt, TypeOK
<1>9. CASE CancelCode(r)
  <2> DEFINE row == [verifications[req[r].code] EXCEPT !.status = "CANCELLED"]
             xrow == [exchanges[req[r].ex] EXCEPT !.status = "SCHEDULED"]
  <2>1. /\ verifications' = [verifications EXCEPT ![req[r].code] = row]
        /\ exchanges' = [exchanges EXCEPT ![req[r].ex] = xrow]
    BY <1>9 DEF CancelCode
  <2>2. req[r].code \in DOMAIN verifications =>
          /\ row \in Verification /\ row.ex = verifications[req[r].code].ex
          /\ verifications[req[r].code].confirmed => row.confirmed
    BY <1>0 DEF Verification, CodeStatus
  <2>3. req[r].ex \in DOMAIN exchanges =>
          xrow \in Exchange /\ xrow.lane = exchanges[req[r].ex].lane
    BY <1>0 DEF Exchange, ExchangeStatus, ActiveStatus
  <2>4. /\ verifications' \in Seq(Verification)
        /\ DOMAIN verifications' = DOMAIN verifications
        /\ \A v \in DOMAIN verifications :
             /\ verifications'[v].ex = verifications[v].ex
             /\ verifications[v].confirmed => verifications'[v].confirmed
    BY <2>1, <2>2, UpdateCodeRow
  <2>5. /\ exchanges' \in Seq(Exchange) /\ DOMAIN exchanges' = DOMAIN exchanges
        /\ \A e \in DOMAIN exchanges : exchanges'[e].lane = exchanges[e].lane
    BY <2>1, <2>3, UpdateExchangeRow
  <2> QED BY <1>0, <1>9, <2>4, <2>5, <1>done, <1>idle, IdleIsRequest, CommitStep
          DEF CancelCode, TypeOK
<1>10. ASSUME NEW xs \in ExchangeStatus, NEW cs \in CodeStatus, Done(r),
              exchanges' = [exchanges EXCEPT ![req[r].ex].status = xs],
              verifications' = ResolvePending(req[r].ex, cs),
              UNCHANGED <<world, money>>
       PROVE  RowsOK' /\ RowsKept
  <2> DEFINE xrow == [exchanges[req[r].ex] EXCEPT !.status = xs]
  <2>1. exchanges' = [exchanges EXCEPT ![req[r].ex] = xrow] BY <1>10
  <2>2. req[r].ex \in DOMAIN exchanges =>
          xrow \in Exchange /\ xrow.lane = exchanges[req[r].ex].lane
    BY <1>0 DEF Exchange
  <2>3. /\ exchanges' \in Seq(Exchange) /\ DOMAIN exchanges' = DOMAIN exchanges
        /\ \A e \in DOMAIN exchanges : exchanges'[e].lane = exchanges[e].lane
    BY <2>1, <2>2, UpdateExchangeRow
  <2>4. /\ verifications' \in Seq(Verification)
        /\ DOMAIN verifications' = DOMAIN verifications
        /\ \A v \in DOMAIN verifications :
             /\ verifications'[v].ex = verifications[v].ex
             /\ verifications[v].confirmed => verifications'[v].confirmed
    BY <1>10, ResolveCodeRows
  <2> QED BY <1>0, <1>10, <2>3, <2>4, <1>done, <1>idle, IdleIsRequest, CommitStep
          DEF TypeOK
<1>11. CASE Withdraw(r)
  BY <1>10, <1>11 DEF Withdraw, ExchangeStatus, CodeStatus
<1>12. CASE FailDelivery(r)
  BY <1>10, <1>12 DEF FailDelivery, ExchangeStatus, CodeStatus
<1>13. CASE Die(r)
  BY <1>0, <1>13, <1>done, <1>idle, IdleIsRequest, CommitStep DEF Die, TypeOK
<1>14. CASE UpdateSubmission(r)
  <2> DEFINE row == [exchanges[req[r].ex] EXCEPT !.method = req[r].method]
  <2>1. exchanges' = [exchanges EXCEPT ![req[r].ex] = row]
    BY <1>14 DEF UpdateSubmission
  <2>2. req[r].ex \in DOMAIN exchanges =>
          row \in Exchange /\ row.lane = exchanges[req[r].ex].lane
    BY <1>0, <1>14 DEF UpdateSubmission, At, SnapshotOK, Exchange
  <2>3. /\ exchanges' \in Seq(Exchange) /\ DOMAIN exchanges' = DOMAIN exchanges
        /\ \A e \in DOMAIN exchanges : exchanges'[e].lane = exchanges[e].lane
    BY <2>1, <2>2, UpdateExchangeRow
  <2> QED BY <1>0, <1>14, <2>3, <1>done, <1>idle, IdleIsRequest, CommitStep
          DEF UpdateSubmission, TypeOK
<1> QED BY <1>1, <1>2, <1>3, <1>4, <1>5, <1>6, <1>7, <1>8, <1>9, <1>11, <1>12,
           <1>13, <1>14

\* What the shared part of the two completions does to the rows and the case.
LEMMA CompleteRows ==
  ASSUME RowsOK, ExchangeAssumption, NEW r \in Req, NEW by \in {"staff", "claimant"},
         NEW n \in Nat, req[r].step \in CodeSteps, Complete(r, by, n)
  PROVE  /\ exchanges' \in Seq(Exchange) /\ verifications' \in Seq(Verification)
         /\ RowsKept
         /\ \A v \in DOMAIN verifications' : verifications'[v].ex \in DOMAIN exchanges'
         /\ found' \in [status: FoundStatus, custody: CustodyStatus,
                        station: Station \cup {None}]
         /\ caseLog' \in Seq(FoundStatus \X FoundStatus)
         /\ lost' \in [Claim -> {"SUBMITTED", "COMPLETED"}]
         /\ verifications'[req[r].code].confirmed
         /\ operated' \in BOOLEAN
<1> DEFINE row  == [verifications[req[r].code] EXCEPT
                      !.status = "CONFIRMED", !.confirmed = TRUE, !.attempts = n]
           xrow == [exchanges[req[r].ex] EXCEPT
                      !.status = "COMPLETED", !.completedBy = by]
<1>0. /\ TypeOK /\ req[r] \in Request /\ SnapshotOK(req[r])
      /\ req[r].ex \in DOMAIN exchanges /\ req[r].code \in DOMAIN verifications
      /\ verifications[req[r].code] \in Verification
      /\ exchanges[req[r].ex] \in Exchange
      /\ \A v \in DOMAIN verifications : verifications[v].ex \in DOMAIN exchanges
  BY DEF RowsOK, TypeOK, SnapshotOK
<1>1. /\ verifications' = [verifications EXCEPT ![req[r].code] = row]
      /\ exchanges' = [exchanges EXCEPT ![req[r].ex] = xrow]
  BY DEF Complete
<1>2. /\ row \in Verification /\ row.ex = verifications[req[r].code].ex
      /\ row.confirmed
  BY <1>0 DEF Verification, CodeStatus
<1>3. xrow \in Exchange /\ xrow.lane = exchanges[req[r].ex].lane
  BY <1>0 DEF Exchange, ExchangeStatus
<1>4. /\ verifications' \in Seq(Verification)
      /\ DOMAIN verifications' = DOMAIN verifications
      /\ \A v \in DOMAIN verifications :
           /\ verifications'[v].ex = verifications[v].ex
           /\ verifications[v].confirmed => verifications'[v].confirmed
  BY <1>1, <1>2, UpdateCodeRow
<1>5. /\ exchanges' \in Seq(Exchange) /\ DOMAIN exchanges' = DOMAIN exchanges
      /\ \A e \in DOMAIN exchanges : exchanges'[e].lane = exchanges[e].lane
  BY <1>1, <1>3, UpdateExchangeRow
<1>6. RowsKept BY <1>4, <1>5 DEF RowsKept
<1>7. found' \in [status: FoundStatus, custody: CustodyStatus,
                  station: Station \cup {None}]
  BY DEF Complete, FoundAfter, FoundStatus, CustodyStatus
<1>8. caseLog' \in Seq(FoundStatus \X FoundStatus)
  <2>1. LoggedMove(req[r].lane) \in FoundStatus \X FoundStatus
    BY DEF LoggedMove, FoundStatus
  <2> QED BY <1>0, <2>1, AppendProperties DEF Complete, TypeOK
<1>9. lost' \in [Claim -> {"SUBMITTED", "COMPLETED"}]
  BY <1>0 DEF Complete, LostAfter, TypeOK
<1>10. verifications'[req[r].code].confirmed
  BY <1>0, <1>1, <1>2
<1>11. operated' \in BOOLEAN BY DEF Complete
<1> QED BY <1>0, <1>4, <1>5, <1>6, <1>7, <1>8, <1>9, <1>10, <1>11

LEMMA CompleteSteps ==
  ASSUME RowsOK, ExchangeAssumption, NEW r \in Req,
         ConfirmExchange(r) \/ ConfirmDelivery(r)
  PROVE  RowsOK' /\ RowsKept
<1>0. /\ TypeOK /\ req[r] \in Request /\ SnapshotOK(req[r])
      /\ \A v \in DOMAIN verifications : verifications[v] \in Verification
  BY DEF RowsOK, TypeOK
<1>idle. SnapshotOK(Idle)' BY DEF SnapshotOK, Idle, IssueSteps, CodeSteps
<1>done. ASSUME Done(r) PROVE req' = [req EXCEPT ![r] = Idle]
  BY <1>done DEF Done
<1>1. CASE ConfirmExchange(r)
  <2>1. req[r].attempts \in Nat /\ req[r].step \in CodeSteps
    BY <1>0, <1>1 DEF Request, ConfirmExchange, At, CodeSteps
  <2>2. Complete(r, "staff", req[r].attempts) BY <1>1 DEF ConfirmExchange
  <2>3. disbursed' \in [Claim -> Nat] BY <1>0, <1>1 DEF ConfirmExchange, TypeOK
  <2> QED BY <1>0, <1>1, <2>1, <2>2, <2>3, <1>done, <1>idle, IdleIsRequest,
             CompleteRows, CommitStep DEF ConfirmExchange, money, TypeOK
<1>2. CASE ConfirmDelivery(r)
  <2>1. verifications[req[r].code].attempts + 1 \in Nat /\ req[r].step \in CodeSteps
    BY <1>0, <1>2 DEF SnapshotOK, Verification, ConfirmDelivery, At, CodeSteps
  <2>2. Complete(r, "claimant", verifications[req[r].code].attempts + 1)
    BY <1>2 DEF ConfirmDelivery
  <2> QED BY <1>0, <1>2, <2>1, <2>2, <1>done, <1>idle, IdleIsRequest,
             CompleteRows, CommitStep DEF ConfirmDelivery, money, TypeOK
<1> QED BY <1>1, <1>2

LEMMA ReviewStep ==
  ASSUME RowsOK, NEW r \in Req, ReviewCase(r)
  PROVE  RowsOK' /\ RowsKept
<1> DEFINE to == IF At(r, "verifyCase") THEN "VERIFIED" ELSE "REJECTED"
<1>1. /\ found' = [found EXCEPT !.status = to]
      /\ caseLog' = Append(caseLog, <<"SUBMITTED", to>>)
      /\ req' = [req EXCEPT ![r] = Idle]
      /\ UNCHANGED <<money, lost, disbursed, operated, exchanges, verifications>>
  BY DEF ReviewCase, Done
<1>2. RowsKept BY <1>1 DEF RowsKept
<1>3. to \in FoundStatus BY DEF FoundStatus
<1>4. found' \in [status: FoundStatus, custody: CustodyStatus,
                  station: Station \cup {None}]
  BY <1>1, <1>3 DEF RowsOK, TypeOK
<1>5. <<"SUBMITTED", to>> \in FoundStatus \X FoundStatus BY <1>3 DEF FoundStatus
<1>6. caseLog' \in Seq(FoundStatus \X FoundStatus)
  BY <1>1, <1>5, AppendProperties DEF RowsOK, TypeOK
<1>7. SnapshotOK(Idle)' BY DEF SnapshotOK, Idle, IssueSteps, CodeSteps
<1> QED BY <1>1, <1>2, <1>4, <1>6, <1>7, IdleIsRequest, CommitStep
        DEF RowsOK, TypeOK, money

\* A batch operation moves the document and nothing else, and never to its finder.
Operates == \E type \in Operation, s \in Station \cup {None} : ExecuteOperation(type, s)

LEMMA OperationMoves ==
  ASSUME ExchangeAssumption, RowsOK, Operates
  PROVE  /\ found' \in [status: FoundStatus, custody: CustodyStatus,
                         station: Station \cup {None}]
         /\ found'.status = found.status /\ found'.custody # "WITH_FINDER"
         /\ operated' = TRUE
         /\ UNCHANGED <<caseLog, lost, disbursed, money, exchanges, verifications, req>>
<1>1. PICK type \in Operation, s \in Station \cup {None} : ExecuteOperation(type, s)
  BY DEF Operates
<1>2. type \in MovingOperation BY ExchangeAssumption DEF ExchangeAssumption
<1>3. found \in [status: FoundStatus, custody: CustodyStatus, station: Station \cup {None}]
  BY DEF RowsOK, TypeOK
<1>4. found' = Operated(type, s) BY <1>1 DEF ExecuteOperation
<1>5. CASE type \in {"TRANSFER_IN", "RETURN"}
  <2>1. found' = [found EXCEPT !.custody = "IN_CUSTODY", !.station = s]
    BY <1>4, <1>5 DEF Operated
  <2> QED BY <1>1, <1>3, <2>1 DEF ExecuteOperation, CustodyStatus
<1>6. CASE type = "TRANSFER_OUT"
  <2>1. found' = [found EXCEPT !.custody = "IN_TRANSIT", !.station = None]
    BY <1>4, <1>6 DEF Operated
  <2> QED BY <1>1, <1>3, <2>1 DEF ExecuteOperation, CustodyStatus
<1>7. CASE type = "HANDOVER"
  <2>1. found' = [found EXCEPT !.custody = "HANDED_OVER"] BY <1>4, <1>7 DEF Operated
  <2> QED BY <1>1, <1>3, <2>1 DEF ExecuteOperation, CustodyStatus
<1>8. CASE type = "DISPOSAL"
  <2>1. found' = [found EXCEPT !.custody = "DISPOSED"] BY <1>4, <1>8 DEF Operated
  <2> QED BY <1>1, <1>3, <2>1 DEF ExecuteOperation, CustodyStatus
<1> QED BY <1>2, <1>5, <1>6, <1>7, <1>8 DEF MovingOperation

LEMMA OperationKeepsRows ==
  ASSUME ExchangeAssumption, RowsOK, Operates PROVE RowsOK' /\ RowsKept
<1>1. TypeOK /\ \A p \in Req : SnapshotOK(req[p]) BY DEF RowsOK
<1>2. TypeOK' BY <1>1, OperationMoves DEF TypeOK, money
<1>3. \A p \in Req : SnapshotOK(req[p])' BY <1>1, OperationMoves DEF SnapshotOK
<1> QED BY <1>2, <1>3, OperationMoves DEF RowsOK, RowsKept

\* Steps outside the handlers keep the rows too.
LEMMA WorldSteps ==
  ASSUME ExchangeAssumption, RowsOK,
         \/ \E v \in DOMAIN verifications : CodeLapses(v)
         \/ \E c \in Claim : VerifyClaim(c) \/ RejectClaim(c) \/ PayInvoice(c)
         \/ Operates
         \/ UNCHANGED vars
  PROVE  RowsOK' /\ RowsKept
<1>0. TypeOK /\ \A p \in Req : SnapshotOK(req[p]) BY DEF RowsOK
<1>1. ASSUME NEW v \in DOMAIN verifications, CodeLapses(v)
      PROVE  RowsOK' /\ RowsKept
  <2> DEFINE row == [verifications[v] EXCEPT !.lapsed = TRUE]
  <2>1. verifications' = [verifications EXCEPT ![v] = row]
    BY <1>1 DEF CodeLapses
  <2>2. verifications[v] \in Verification BY <1>0 DEF TypeOK
  <2>3. /\ row \in Verification /\ row.ex = verifications[v].ex
        /\ verifications[v].confirmed => row.confirmed
    BY <2>2 DEF Verification
  <2>4. /\ verifications' \in Seq(Verification)
        /\ DOMAIN verifications' = DOMAIN verifications
        /\ \A w \in DOMAIN verifications :
             /\ verifications'[w].ex = verifications[w].ex
             /\ verifications[w].confirmed => verifications'[w].confirmed
    BY <2>1, <2>3, UpdateCodeRow
  <2>5. RowsKept BY <1>1, <2>4 DEF CodeLapses, RowsKept
  <2>6. \A p \in Req : SnapshotOK(req[p])'
    BY <1>0, <1>1, <2>4 DEF CodeLapses, SnapshotOK
  <2>7. TypeOK' BY <1>0, <1>1, <2>4 DEF CodeLapses, TypeOK, world, money
  <2> QED BY <1>1, <2>4, <2>5, <2>6, <2>7 DEF RowsOK, CodeLapses
<1>2. ASSUME NEW c \in Claim, VerifyClaim(c) \/ RejectClaim(c) \/ PayInvoice(c)
      PROVE  RowsOK' /\ RowsKept
  <2>1. UNCHANGED <<world, exchanges, verifications, req>>
    BY <1>2 DEF VerifyClaim, RejectClaim, PayInvoice, world
  <2>2. claim' \in [Claim -> {"PENDING", "VERIFIED", "REJECTED"}]
    BY <1>0, <1>2 DEF TypeOK, VerifyClaim, RejectClaim, PayInvoice
  <2>3. invoice[c] \in Invoice /\ invoice \in [Claim -> Invoice] BY <1>0 DEF TypeOK
  <2>4. ASSUME NEW n \in Nat
        PROVE  [invoice EXCEPT ![c].status = "PAID", ![c].paid = n]
                 \in [Claim -> Invoice]
    BY <2>3 DEF Invoice
  <2>5. [invoice EXCEPT ![c].status = "PENDING"] \in [Claim -> Invoice]
        /\ invoice[c].fees \in Nat
    BY <2>3 DEF Invoice
  <2>6. invoice' \in [Claim -> Invoice]
    BY <1>2, <2>3, <2>4, <2>5, Zenon DEF VerifyClaim, RejectClaim, PayInvoice
  <2>7. TypeOK' BY <1>0, <2>1, <2>2, <2>6 DEF TypeOK, world
  <2>8. \A p \in Req : SnapshotOK(req[p])' BY <1>0, <2>1 DEF SnapshotOK
  <2> QED BY <2>1, <2>7, <2>8 DEF RowsOK, RowsKept
<1>3. CASE UNCHANGED vars
  <2>1. TypeOK' BY <1>0, <1>3 DEF TypeOK, vars
  <2>2. \A p \in Req : SnapshotOK(req[p])' BY <1>0, <1>3 DEF SnapshotOK, vars
  <2> QED BY <1>3, <2>1, <2>2 DEF RowsOK, RowsKept, vars
<1> QED BY <1>1, <1>2, <1>3, OperationKeepsRows

LEMMA StartsKeepRows ==
  ASSUME NEW r \in Req,
         \/ ScheduleInbound(r) \/ SetSubmission(r)
         \/ \E c \in Claim : ScheduleOutbound(r, c) \/ UpdateOutbound(r, c)
         \/ \E lane \in Lane : \/ IssueCode(r, lane) \/ VerifyCode(r, lane)
                               \/ StartCancelCode(r, lane)
                               \/ StartWithdraw(r, lane)
         \/ EnterDeliveryCode(r) \/ StartFailDelivery(r) \/ StartReviewCase(r)
  PROVE  RowsKept /\ UNCHANGED <<world, money, exchanges, verifications>>
<1>1. UNCHANGED <<world, money, exchanges, verifications>>
  BY DEF ScheduleInbound, SetSubmission, ScheduleOutbound, UpdateOutbound, IssueCode, VerifyCode,
         StartCancelCode, StartWithdraw, EnterDeliveryCode, StartFailDelivery,
         StartReviewCase
<1> QED BY <1>1 DEF RowsKept

LEMMA NextRows ==
  ASSUME ExchangeAssumption, RowsOK, [Next]_vars
  PROVE  RowsOK' /\ RowsKept
<1>1. ASSUME NEW r \in Req, Handler(r) PROVE RowsOK' /\ RowsKept
  BY <1>1, StartSteps, StartsKeepRows, WriteSteps, CompleteSteps, ReviewStep
     DEF Handler
<1> QED BY <1>1, WorldSteps DEF Next, Operates

LEMMA InitRows == ASSUME ExchangeAssumption, Init PROVE RowsOK
<1>1. TypeOK
  <2>1. Idle \in Request BY IdleIsRequest
  <2>2. invoice \in [Claim -> Invoice]
    <3>1. FALSE \in BOOLEAN /\ 0 \in Nat OBVIOUS
    <3>2. [status |-> "NONE", fees |-> 0, paid |-> 0] \in Invoice
      BY <3>1 DEF Invoice
    <3> QED BY <3>2 DEF Init
  <2>3. exchanges \in Seq(Exchange)
    <3>1. PICK m \in InboundMethods :
            exchanges = <<[lane |-> Inbound, method |-> m, status |-> "SCHEDULED",
                           completedBy |-> None]>>
      BY DEF Init
    <3> QED BY <3>1 DEF Exchange, Lane, ExchangeMethods, ExchangeStatus, ActiveStatus
  <2>4. verifications \in Seq(Verification) /\ caseLog \in Seq(FoundStatus \X FoundStatus)
    BY DEF Init
  <2> QED BY <2>1, <2>2, <2>3, <2>4 DEF Init, TypeOK, FoundStatus, CustodyStatus
<1>2. \A r \in Req : SnapshotOK(req[r]) BY IdleIsRequest DEF Init
<1>3. DOMAIN verifications = {} BY DEF Init
<1> QED BY <1>1, <1>2, <1>3 DEF RowsOK

\* Every state of the system is well typed and every snapshot is sound, with
\* any number of handlers in flight.
THEOREM TypeCorrect == Spec => []TypeOK
<1>1. Init => RowsOK BY InitRows, ExchangeAssumption
<1>2. RowsOK /\ [Next]_vars => RowsOK' BY NextRows, ExchangeAssumption
<1>3. RowsOK => TypeOK BY DEF RowsOK
<1> QED BY <1>1, <1>2, <1>3, PTL DEF Spec

-----------------------------------------------------------------------------
(* What a step can change *)

Completes(r) == ConfirmExchange(r) \/ ConfirmDelivery(r)

\* The lanes a code was ever confirmed in.
ConfirmedLanes ==
  {exchanges[verifications[v].ex].lane :
     v \in {w \in DOMAIN verifications : verifications[w].confirmed}}

\* Only a completion, a review or a batch operation touches the case, the lost cases or
\* the rewards.
LEMMA WorldChanges ==
  ASSUME [Next]_vars
  PROVE  \/ UNCHANGED world
         \/ \E r \in Req : Completes(r) \/ ReviewCase(r)
         \/ Operates
<1>1. ASSUME NEW r \in Req, Handler(r)
      PROVE  UNCHANGED world \/ Completes(r) \/ ReviewCase(r)
  BY <1>1
     DEF Handler, Completes, ScheduleInbound, ScheduleOutbound, CreateExchange,
         SetSubmission, UpdateSubmission, AddDeliveryFee, UpdateOutbound,
         UpdateExchange, IssueCode, ExpireOldCodes,
         CreateCode, MarkInProgress, VerifyCode, ExpireCode, CountAttempt,
         EnterDeliveryCode, StartCancelCode, CancelCode, StartWithdraw, Withdraw,
         StartFailDelivery, FailDelivery, StartReviewCase, Die
<1>2. ASSUME \/ \E v \in DOMAIN verifications : CodeLapses(v)
             \/ \E c \in Claim : VerifyClaim(c) \/ RejectClaim(c) \/ PayInvoice(c)
             \/ UNCHANGED vars
      PROVE  UNCHANGED world
  BY <1>2 DEF CodeLapses, VerifyClaim, RejectClaim, PayInvoice, vars, world
<1> QED BY <1>1, <1>2 DEF Next, Operates

\* A completion confirms a code of the lane it works for.
LEMMA CompletionConfirms ==
  ASSUME RowsOK, NEW r \in Req, Completes(r)
  PROVE  /\ req[r].lane \in Lane /\ req[r].ex \in DOMAIN exchanges
         /\ exchanges[req[r].ex].lane = req[r].lane
         /\ req[r].lane \in ConfirmedLanes'
         /\ \E s \in Station : found' = FoundAfter(req[r].lane, s)
         /\ caseLog' = Append(caseLog, LoggedMove(req[r].lane))
         /\ lost' = LostAfter(req[r].lane)
         /\ operated' = FALSE
<1>0. /\ \A e \in DOMAIN exchanges : exchanges[e] \in Exchange
      /\ \A v \in DOMAIN verifications : verifications[v] \in Verification
  BY DEF RowsOK, TypeOK
<1>1. PICK by \in {"staff", "claimant"}, n \in Nat : Complete(r, by, n)
  <2>1. req[r].attempts \in Nat BY DEF RowsOK, TypeOK, Request
  <2>2. CASE ConfirmExchange(r) BY <2>1, <2>2 DEF ConfirmExchange
  <2>3. CASE ConfirmDelivery(r)
    <3>1. req[r].code \in DOMAIN verifications
      BY <2>3 DEF RowsOK, SnapshotOK, ConfirmDelivery, At, CodeSteps
    <3>2. verifications[req[r].code].attempts + 1 \in Nat
      BY <1>0, <3>1 DEF Verification
    <3> QED BY <2>3, <3>2 DEF ConfirmDelivery
  <2> QED BY <2>2, <2>3 DEF Completes
<1>2. req[r].step \in CodeSteps
  BY DEF Completes, ConfirmExchange, ConfirmDelivery, At, CodeSteps
<1>3. /\ req[r].ex \in DOMAIN exchanges /\ exchanges[req[r].ex].lane = req[r].lane
      /\ req[r].code \in DOMAIN verifications
      /\ verifications[req[r].code].ex = req[r].ex
  BY <1>2 DEF RowsOK, SnapshotOK
<1>4. req[r].lane \in Lane BY <1>0, <1>3 DEF Exchange
<1>5. RowsKept /\ verifications'[req[r].code].confirmed
  BY <1>1, <1>2, CompleteRows, ExchangeAssumption
<1>6. /\ req[r].code \in DOMAIN verifications'
      /\ verifications'[req[r].code].ex = req[r].ex
      /\ exchanges'[req[r].ex].lane = req[r].lane
  BY <1>3, <1>5 DEF RowsKept
<1>7. req[r].lane \in ConfirmedLanes' BY <1>5, <1>6 DEF ConfirmedLanes
<1> QED BY <1>1, <1>3, <1>4, <1>7 DEF Complete

\* A confirmation is never undone.
LEMMA ConfirmedStays ==
  ASSUME RowsOK, RowsKept
  PROVE  ConfirmedLanes \subseteq ConfirmedLanes'
<1> SUFFICES ASSUME NEW v \in DOMAIN verifications, verifications[v].confirmed
             PROVE  exchanges[verifications[v].ex].lane \in ConfirmedLanes'
  BY DEF ConfirmedLanes
<1>1. verifications[v].ex \in DOMAIN exchanges BY DEF RowsOK
<1>2. /\ v \in DOMAIN verifications' /\ verifications'[v].confirmed
      /\ exchanges'[verifications'[v].ex].lane = exchanges[verifications[v].ex].lane
  BY <1>1 DEF RowsKept
<1> QED BY <1>2 DEF ConfirmedLanes

-----------------------------------------------------------------------------
(* The found case's log, hand-over and reward *)

\* The transition log always ends where the found case is, however the
\* transactions of racing handlers are ordered.
THEOREM LogIsComplete == Spec => []LogTracksStatus
<1>1. Init => LogTracksStatus BY DEF Init, LogTracksStatus
<1>2. ASSUME RowsOK, LogTracksStatus, [Next]_vars PROVE LogTracksStatus'
  <2>1. ASSUME NEW x \in FoundStatus \X FoundStatus, caseLog' = Append(caseLog, x),
               found'.status = x[2]
        PROVE  LogTracksStatus'
    <3>1. caseLog \in Seq(FoundStatus \X FoundStatus) BY <1>2 DEF RowsOK, TypeOK
    <3>2. /\ Len(caseLog') = Len(caseLog) + 1 /\ caseLog'[Len(caseLog) + 1] = x
          /\ caseLog' # <<>>
      BY <2>1, <3>1, AppendProperties
    <3> QED BY <2>1, <3>2 DEF LogTracksStatus
  <2>2. CASE UNCHANGED world BY <1>2, <2>2 DEF world, LogTracksStatus
  <2>3. ASSUME NEW r \in Req, Completes(r) PROVE LogTracksStatus'
    <3>a. /\ caseLog' = Append(caseLog, LoggedMove(req[r].lane))
          /\ \E s \in Station : found' = FoundAfter(req[r].lane, s)
      BY <1>2, <2>3, CompletionConfirms
    <3>1. /\ caseLog' = Append(caseLog, LoggedMove(req[r].lane))
          /\ found'.status = LoggedMove(req[r].lane)[2]
      BY <3>a DEF FoundAfter, LoggedMove
    <3>2. LoggedMove(req[r].lane) \in FoundStatus \X FoundStatus
      BY DEF LoggedMove, FoundStatus
    <3> QED BY <2>1, <3>1, <3>2
  <2>4. ASSUME NEW r \in Req, ReviewCase(r) PROVE LogTracksStatus'
    <3> DEFINE to == IF At(r, "verifyCase") THEN "VERIFIED" ELSE "REJECTED"
    <3>1. /\ caseLog' = Append(caseLog, <<"SUBMITTED", to>>)
          /\ found'.status = to
      BY <1>2, <2>4 DEF ReviewCase, RowsOK, TypeOK
    <3>2. <<"SUBMITTED", to>> \in FoundStatus \X FoundStatus BY DEF FoundStatus
    <3> QED BY <2>1, <3>1, <3>2
  <2>5. CASE Operates
    BY <1>2, <2>5, OperationMoves, ExchangeAssumption DEF LogTracksStatus
  <2> QED BY <1>2, <2>2, <2>3, <2>4, <2>5, WorldChanges
<1>3. Init => RowsOK BY InitRows, ExchangeAssumption
<1>4. RowsOK /\ [Next]_vars => RowsOK' BY NextRows, ExchangeAssumption
<1> QED BY <1>1, <1>2, <1>3, <1>4, PTL DEF Spec

\* Whatever handlers overlap and whatever batch operations do to the document: no case
\* is completed without a confirmed code of a claim on it, no finder is rewarded and no
\* lost case is closed without one of that very claim, and only a batch operation hands
\* a document over without.
THEOREM NoHandoverWithoutCode == Spec => []HandedOverByCode
<1> DEFINE Inv ==
      /\ found.status = "COMPLETED" \/ (found.custody = "HANDED_OVER" /\ ~operated) =>
           \E c \in Claim : c \in ConfirmedLanes
      /\ \A c \in Claim : disbursed[c] > 0 \/ lost[c] = "COMPLETED" =>
                            c \in ConfirmedLanes
<1>1. Init => Inv BY DEF Init
<1>2. ASSUME RowsOK, Inv, [Next]_vars PROVE Inv'
  <2>1. ConfirmedLanes \subseteq ConfirmedLanes'
    BY <1>2, NextRows, ConfirmedStays, ExchangeAssumption
  <2>2. CASE UNCHANGED world BY <1>2, <2>1, <2>2 DEF world
  <2>3. ASSUME NEW r \in Req, Completes(r) PROVE Inv'
    <3>1. /\ req[r].lane \in Lane
          /\ req[r].lane \in ConfirmedLanes'
          /\ \E s \in Station : found' = FoundAfter(req[r].lane, s)
          /\ lost' = LostAfter(req[r].lane)
      BY <1>2, <2>3, CompletionConfirms
    <3>2. found'.status = "COMPLETED" \/ found'.custody = "HANDED_OVER" =>
            \E c \in Claim : c \in ConfirmedLanes'
      BY <3>1 DEF FoundAfter, Lane
    <3>3. ASSUME NEW c \in Claim, c # req[r].lane
          PROVE  disbursed'[c] = disbursed[c] /\ lost'[c] = lost[c]
      BY <2>3, <3>1, <3>3 DEF Completes, ConfirmExchange, ConfirmDelivery, LostAfter
    <3> QED BY <1>2, <2>1, <3>1, <3>2, <3>3
  <2>4. ASSUME NEW r \in Req, ReviewCase(r) PROVE Inv'
    <3>1. /\ found'.custody = found.custody /\ found'.status # "COMPLETED"
          /\ UNCHANGED <<lost, disbursed, operated>>
      BY <1>2, <2>4 DEF ReviewCase, RowsOK, TypeOK
    <3> QED BY <1>2, <2>1, <3>1
  <2>5. CASE Operates
    <3>1. found'.status = found.status /\ operated' /\ UNCHANGED <<lost, disbursed>>
      BY <1>2, <2>5, OperationMoves, ExchangeAssumption
    <3> QED BY <1>2, <2>1, <3>1
  <2> QED BY <1>2, <2>2, <2>3, <2>4, <2>5, WorldChanges
<1>3. Inv => HandedOverByCode
  BY DEF HandedOverByCode, EverConfirmed, CodeLane, ConfirmedLanes
<1>4. Init => RowsOK BY InitRows, ExchangeAssumption
<1>5. RowsOK /\ [Next]_vars => RowsOK' BY NextRows, ExchangeAssumption
<1> QED BY <1>1, <1>2, <1>3, <1>4, <1>5, PTL DEF Spec

-----------------------------------------------------------------------------
(* What a handler in flight rests on: a claim that was verified, a case that *)
(* was brought in, an invoice that was paid                                  *)

Reasons == {"expireOldCodes", "createCode", "createExchange", "verifyCase",
            "rejectCase"}

\* Why slot r may turn to the snapshot s, in terms of the state before.
Reasoned(r, s) ==
  /\ s.step = "expireOldCodes" /\ s.lane \in Claim => invoice[s.lane].status = "PAID"
  /\ s.step = "createCode" => req[r].step = "expireOldCodes" /\ s.lane = req[r].lane
  /\ s.step = "createExchange" /\ s.lane \in Claim => \E c \in Claim : claim[c] = "VERIFIED"
  /\ s.step \in {"verifyCase", "rejectCase"} => found.status = "SUBMITTED"

HasReason(r) == Reasoned(r, req'[r])

LEMMA SlotsMove ==
  ASSUME RowsOK, ExchangeAssumption, NEW r \in Req, Handler(r)
  PROVE  HasReason(r) /\ \A p \in Req : p # r => req'[p] = req[p]
<1> DEFINE Justified == HasReason(r) /\ \A p \in Req : p # r => req'[p] = req[p]
<1>0. req \in [Req -> Request] BY DEF RowsOK, TypeOK
<1>turn. ASSUME NEW s, req' = [req EXCEPT ![r] = s], Reasoned(r, s) PROVE Justified
  BY <1>0, <1>turn DEF HasReason
<1>load. ASSUME NEW s, Load(r, s), Reasoned(r, s) PROVE Justified
  BY <1>turn, <1>load DEF Load
<1>quiet. ASSUME NEW s, Load(r, s), s.step \notin Reasons PROVE Justified
  BY <1>load, <1>quiet DEF Reasoned, Reasons
<1>done. ASSUME Done(r) PROVE Justified
  <2>1. Reasoned(r, Idle) BY DEF Reasoned, Idle
  <2> QED BY <1>turn, <1>done, <2>1 DEF Done
<1>goto. ASSUME NEW step, Goto(r, step), step \notin Reasons PROVE Justified
  <2> DEFINE s == [req[r] EXCEPT !.step = step]
  <2>1. s.step = step BY <1>0 DEF Request
  <2>2. req' = [req EXCEPT ![r] = s] BY <1>goto DEF Goto
  <2>3. Reasoned(r, s) BY <1>goto, <2>1 DEF Reasoned, Reasons
  <2> HIDE DEF s
  <2> QED BY <1>turn, <2>2, <2>3
<1> SUFFICES Justified OBVIOUS
<1> HIDE DEF Justified
<1>1. CASE ScheduleInbound(r)
  <2>1. PICK m : Load(r, [Idle EXCEPT !.step = "createExchange", !.lane = Inbound,
                                      !.method = m])
    BY <1>1 DEF ScheduleInbound
  <2> DEFINE s == [Idle EXCEPT !.step = "createExchange", !.lane = Inbound, !.method = m]
  <2>2. Reasoned(r, s) BY ExchangeAssumption DEF Reasoned, Idle
  <2>3. Load(r, s) BY <2>1
  <2> HIDE DEF s
  <2> QED BY <1>load, <2>2, <2>3
<1>2. ASSUME NEW c \in Claim, ScheduleOutbound(r, c) PROVE Justified
  <2>1. PICK m : Load(r, [Idle EXCEPT !.step = "createExchange", !.lane = c, !.method = m,
                                      !.zone = m \in DeliveryMethods /\ ZoneKnown])
    BY <1>2 DEF ScheduleOutbound
  <2> DEFINE s == [Idle EXCEPT !.step = "createExchange", !.lane = c, !.method = m,
                               !.zone = m \in DeliveryMethods /\ ZoneKnown]
  <2>2. s.step = "createExchange" BY DEF Idle
  <2>3. claim[c] = "VERIFIED" BY <1>2 DEF ScheduleOutbound
  <2>4. Reasoned(r, s) BY <2>2, <2>3 DEF Reasoned
  <2>5. Load(r, s) BY <2>1
  <2> HIDE DEF s
  <2> QED BY <1>load, <2>4, <2>5
<1>3. ASSUME NEW c \in Claim, UpdateOutbound(r, c) PROVE Justified
  <2>1. PICK e, m : Load(r, [Idle EXCEPT !.step = "updateExchange", !.lane = c, !.ex = e,
                               !.method = m, !.was = exchanges[e].method,
                               !.zone = m \in DeliveryMethods /\ ZoneKnown])
    BY <1>3 DEF UpdateOutbound
  <2> DEFINE s == [Idle EXCEPT !.step = "updateExchange", !.lane = c, !.ex = e,
                               !.method = m, !.was = exchanges[e].method,
                               !.zone = m \in DeliveryMethods /\ ZoneKnown]
  <2>2. s.step \notin Reasons BY DEF Idle, Reasons
  <2>3. Load(r, s) BY <2>1
  <2> HIDE DEF s
  <2> QED BY <1>quiet, <2>2, <2>3
<1>4. ASSUME NEW lane \in Lane, IssueCode(r, lane) PROVE Justified
  <2>1. PICK e : Load(r, [Idle EXCEPT !.step = "expireOldCodes", !.lane = lane,
                                      !.ex = e, !.was = exchanges[e].status])
    BY <1>4 DEF IssueCode
  <2> DEFINE s == [Idle EXCEPT !.step = "expireOldCodes", !.lane = lane,
                               !.ex = e, !.was = exchanges[e].status]
  <2>2. s.step = "expireOldCodes" /\ s.lane = lane BY DEF Idle
  <2>3. lane \in Claim => invoice[lane].status = "PAID" BY <1>4 DEF IssueCode
  <2>4. Reasoned(r, s) BY <2>2, <2>3 DEF Reasoned
  <2>5. Load(r, s) BY <2>1
  <2> HIDE DEF s
  <2> QED BY <1>load, <2>4, <2>5
<1>5. ASSUME NEW lane \in Lane, VerifyCode(r, lane) PROVE Justified
  <2>1. PICK e \in DOMAIN exchanges, v \in DOMAIN verifications,
             step \in {"expireCode", "countAttempt", "confirmExchange"} :
          Load(r, [Idle EXCEPT !.step = step, !.lane = lane, !.ex = e, !.code = v,
                     !.attempts = verifications[v].attempts + 1])
    BY <1>5 DEF VerifyCode
  <2> DEFINE s == [Idle EXCEPT !.step = step, !.lane = lane, !.ex = e, !.code = v,
                     !.attempts = verifications[v].attempts + 1]
  <2>2. s.step \notin Reasons BY DEF Idle, Reasons
  <2>3. Load(r, s) BY <2>1
  <2> HIDE DEF s
  <2> QED BY <1>quiet, <2>2, <2>3
<1>6. ASSUME NEW lane \in Lane, StartCancelCode(r, lane) PROVE Justified
  <2>1. PICK e, v : Load(r, [Idle EXCEPT !.step = "cancelCode", !.lane = lane, !.ex = e,
                                         !.code = v])
    BY <1>6 DEF StartCancelCode
  <2> DEFINE s == [Idle EXCEPT !.step = "cancelCode", !.lane = lane, !.ex = e, !.code = v]
  <2>2. s.step \notin Reasons BY DEF Idle, Reasons
  <2>3. Load(r, s) BY <2>1
  <2> HIDE DEF s
  <2> QED BY <1>quiet, <2>2, <2>3
<1>7. ASSUME NEW lane \in Lane, StartWithdraw(r, lane) PROVE Justified
  <2>1. PICK e : Load(r, [Idle EXCEPT !.step = "withdraw", !.lane = lane, !.ex = e])
    BY <1>7 DEF StartWithdraw
  <2> DEFINE s == [Idle EXCEPT !.step = "withdraw", !.lane = lane, !.ex = e]
  <2>2. s.step \notin Reasons BY DEF Idle, Reasons
  <2>3. Load(r, s) BY <2>1
  <2> HIDE DEF s
  <2> QED BY <1>quiet, <2>2, <2>3
<1>8. CASE EnterDeliveryCode(r)
  <2>1. PICK v \in DOMAIN verifications, step \in {"expireCode", "confirmDelivery"} :
          Load(r, [Idle EXCEPT !.lane = exchanges[verifications[v].ex].lane,
                     !.ex = verifications[v].ex, !.code = v, !.step = step])
    BY <1>8 DEF EnterDeliveryCode
  <2> DEFINE s == [Idle EXCEPT !.lane = exchanges[verifications[v].ex].lane,
                     !.ex = verifications[v].ex, !.code = v, !.step = step]
  <2>2. s.step \notin Reasons BY DEF Idle, Reasons
  <2>3. Load(r, s) BY <2>1
  <2> HIDE DEF s
  <2> QED BY <1>quiet, <2>2, <2>3
<1>9. CASE StartFailDelivery(r)
  <2>1. PICK e : Load(r, [Idle EXCEPT !.step = "failDelivery", !.ex = e])
    BY <1>9 DEF StartFailDelivery
  <2> DEFINE s == [Idle EXCEPT !.step = "failDelivery", !.ex = e]
  <2>2. s.step \notin Reasons BY DEF Idle, Reasons
  <2>3. Load(r, s) BY <2>1
  <2> HIDE DEF s
  <2> QED BY <1>quiet, <2>2, <2>3
<1>10. CASE StartReviewCase(r)
  <2>1. PICK step \in {"verifyCase", "rejectCase"} : Load(r, [Idle EXCEPT !.step = step])
    BY <1>10 DEF StartReviewCase
  <2> DEFINE s == [Idle EXCEPT !.step = step]
  <2>2. s.step = step BY DEF Idle
  <2>3. found.status = "SUBMITTED" BY <1>10 DEF StartReviewCase
  <2>4. Reasoned(r, s) BY <2>2, <2>3 DEF Reasoned
  <2>5. Load(r, s) BY <2>1
  <2> HIDE DEF s
  <2> QED BY <1>load, <2>4, <2>5
<1>11. CASE ExpireOldCodes(r)
  <2> DEFINE s == [req[r] EXCEPT !.step = "createCode"]
  <2>1. req' = [req EXCEPT ![r] = s] BY <1>11 DEF ExpireOldCodes, Goto
  <2>2. s.step = "createCode" /\ s.lane = req[r].lane BY <1>0 DEF Request
  <2>3. req[r].step = "expireOldCodes" BY <1>11 DEF ExpireOldCodes, At
  <2>4. Reasoned(r, s) BY <2>2, <2>3 DEF Reasoned
  <2> HIDE DEF s
  <2> QED BY <1>turn, <2>1, <2>4
<1>12. CASE CreateExchange(r)
  <2>1. Done(r) \/ Goto(r, "addDeliveryFee") BY <1>12 DEF CreateExchange
  <2>2. "addDeliveryFee" \notin Reasons BY DEF Reasons
  <2> QED BY <1>done, <1>goto, <2>1, <2>2
<1>13. CASE CreateCode(r)
  <2>1. Done(r) \/ Goto(r, "markInProgress") BY <1>13 DEF CreateCode
  <2>2. "markInProgress" \notin Reasons BY DEF Reasons
  <2> QED BY <1>done, <1>goto, <2>1, <2>2
<1>14. ASSUME \/ AddDeliveryFee(r) \/ UpdateExchange(r) \/ MarkInProgress(r)
              \/ UpdateSubmission(r)
              \/ ExpireCode(r) \/ CountAttempt(r) \/ ConfirmExchange(r)
              \/ ConfirmDelivery(r) \/ CancelCode(r) \/ Withdraw(r)
              \/ FailDelivery(r) \/ ReviewCase(r) \/ Die(r)
       PROVE  Justified
  <2>1. Done(r)
    BY <1>14 DEF AddDeliveryFee, UpdateExchange, UpdateSubmission, MarkInProgress, ExpireCode,
           CountAttempt, ConfirmExchange, ConfirmDelivery, CancelCode, Withdraw,
           FailDelivery, ReviewCase, Die
  <2> QED BY <1>done, <2>1
<1>15. CASE SetSubmission(r)
  <2>1. PICK m :
          \/ Load(r, [Idle EXCEPT !.step = "createExchange", !.lane = Inbound,
                                  !.method = m])
          \/ \E e : Load(r, [Idle EXCEPT !.step = "updateSubmission", !.lane = Inbound,
                                         !.ex = e, !.method = m])
    BY <1>15 DEF SetSubmission
  <2>2. CASE Load(r, [Idle EXCEPT !.step = "createExchange", !.lane = Inbound, !.method = m])
    <3> DEFINE s == [Idle EXCEPT !.step = "createExchange", !.lane = Inbound, !.method = m]
    <3>1. Reasoned(r, s) BY ExchangeAssumption DEF Reasoned, Idle
    <3>2. Load(r, s) BY <2>2
    <3> HIDE DEF s
    <3> QED BY <1>load, <3>1, <3>2
  <2>3. ASSUME NEW e, Load(r, [Idle EXCEPT !.step = "updateSubmission", !.lane = Inbound,
                                           !.ex = e, !.method = m])
        PROVE  Justified
    <3> DEFINE s == [Idle EXCEPT !.step = "updateSubmission", !.lane = Inbound,
                                 !.ex = e, !.method = m]
    <3>1. s.step \notin Reasons BY DEF Idle, Reasons
    <3>2. Load(r, s) BY <2>3
    <3> HIDE DEF s
    <3> QED BY <1>quiet, <3>1, <3>2
  <2> QED BY <2>1, <2>2, <2>3
<1> QED BY <1>1, <1>2, <1>3, <1>4, <1>5, <1>6, <1>7, <1>8, <1>9, <1>10, <1>11, <1>12, <1>13,
           <1>14, <1>15 DEF Handler

\* Rows appear only where a row is created.
LEMMA RowsCreated ==
  ASSUME [Next]_vars
  PROVE  /\ DOMAIN exchanges' = DOMAIN exchanges \/ \E r \in Req : CreateExchange(r)
         /\ DOMAIN verifications' = DOMAIN verifications
              \/ \E r \in Req : CreateCode(r)
<1>1. ASSUME NEW r \in Req, Handler(r)
      PROVE  /\ DOMAIN exchanges' = DOMAIN exchanges \/ CreateExchange(r)
             /\ DOMAIN verifications' = DOMAIN verifications \/ CreateCode(r)
  BY <1>1
     DEF Handler, Complete, ScheduleInbound, ScheduleOutbound, CreateExchange,
         SetSubmission, UpdateSubmission, AddDeliveryFee, UpdateOutbound,
         UpdateExchange, IssueCode, ExpireOldCodes,
         CreateCode, MarkInProgress, VerifyCode, ExpireCode, CountAttempt,
         ConfirmExchange, ConfirmDelivery, ResolvePending, ReviewCase,
         EnterDeliveryCode, StartCancelCode, CancelCode, StartWithdraw, Withdraw,
         StartFailDelivery, FailDelivery, StartReviewCase, Die
<1>2. ASSUME \/ \E v \in DOMAIN verifications : CodeLapses(v)
             \/ \E c \in Claim : VerifyClaim(c) \/ RejectClaim(c) \/ PayInvoice(c)
             \/ UNCHANGED vars
      PROVE  /\ DOMAIN exchanges' = DOMAIN exchanges
             /\ DOMAIN verifications' = DOMAIN verifications
  BY <1>2 DEF CodeLapses, VerifyClaim, RejectClaim, PayInvoice, vars
<1> QED BY <1>1, <1>2 DEF Next, ExecuteOperation

\* PAID is never taken back.
LEMMA InvoicesStayPaid ==
  ASSUME RowsOK, [Next]_vars
  PROVE  \A c \in Claim : invoice[c].status = "PAID" => invoice'[c].status = "PAID"
<1> USE DEF money
<1>0. /\ invoice \in [Claim -> Invoice]
      /\ \A c \in Claim : WithFee(invoice[c]).status = invoice[c].status
      /\ \A c \in Claim : /\ WithoutFees(invoice[c]).status = invoice[c].status
                          /\ WithFee(WithoutFees(invoice[c])).status
                               = invoice[c].status
  <2>1. \A i \in Invoice : /\ WithFee(i).status = i.status
                           /\ WithoutFees(i).status = i.status
    BY DEF Invoice, WithFee, WithoutFees
  <2>2. \A i \in Invoice : WithoutFees(i) \in Invoice BY FeeTypes
  <2>3. invoice \in [Claim -> Invoice] BY DEF RowsOK, TypeOK
  <2> QED BY <2>1, <2>2, <2>3
<1>1. ASSUME NEW r \in Req, Handler(r)
      PROVE  UNCHANGED invoice \/ AddDeliveryFee(r) \/ UpdateExchange(r)
  BY <1>1
     DEF Handler, ScheduleInbound, ScheduleOutbound, CreateExchange,
         SetSubmission, UpdateSubmission, UpdateOutbound, IssueCode, ExpireOldCodes,
         CreateCode, MarkInProgress, VerifyCode, ExpireCode, CountAttempt,
         ConfirmExchange, ConfirmDelivery, ReviewCase,
         EnterDeliveryCode, StartCancelCode, CancelCode, StartWithdraw, Withdraw,
         StartFailDelivery, FailDelivery, StartReviewCase, Die
<1>2. ASSUME NEW r \in Req, AddDeliveryFee(r) \/ UpdateExchange(r), NEW c \in Claim
      PROVE  invoice'[c].status = invoice[c].status
  BY <1>0, <1>2 DEF AddDeliveryFee, UpdateExchange
<1>3. ASSUME NEW c \in Claim, VerifyClaim(c) \/ RejectClaim(c) \/ PayInvoice(c),
             NEW d \in Claim, invoice[d].status = "PAID"
      PROVE  invoice'[d].status = "PAID"
  BY <1>0, <1>3 DEF VerifyClaim, RejectClaim, PayInvoice, Invoice
<1>4. ASSUME \/ \E v \in DOMAIN verifications : CodeLapses(v)
             \/ Operates
             \/ UNCHANGED vars
      PROVE  UNCHANGED invoice
  BY <1>4 DEF CodeLapses, Operates, ExecuteOperation, vars
<1> QED BY <1>1, <1>2, <1>3, <1>4 DEF Next, Operates

LEMMA OtherStepsKeepSlots ==
  ASSUME [Next]_vars
  PROVE  UNCHANGED req \/ \E r \in Req : Handler(r)
BY DEF Next, CodeLapses, VerifyClaim, RejectClaim, PayInvoice, ExecuteOperation, vars

\* A collection code exists only for a claim whose invoice was paid: the check
\* issueCode made on its snapshot still holds when the code is written, because
\* nothing takes PAID back.
THEOREM CodesArePaidFor == Spec => []PaidBeforeCode
<1> DEFINE PaidSlots ==
      \A r \in Req :
        req[r].step \in {"expireOldCodes", "createCode"} /\ req[r].lane \in Claim =>
          invoice[req[r].lane].status = "PAID"
<1>1. Init => PaidSlots /\ PaidBeforeCode BY DEF Init, Idle, PaidBeforeCode
<1>2. ASSUME RowsOK, PaidSlots, PaidBeforeCode, [Next]_vars
      PROVE  PaidSlots' /\ PaidBeforeCode'
  <2>1. \A c \in Claim : invoice[c].status = "PAID" => invoice'[c].status = "PAID"
    BY <1>2, InvoicesStayPaid
  <2>2. PaidSlots'
    <3>1. CASE UNCHANGED req BY <1>2, <2>1, <3>1
    <3>2. ASSUME NEW r \in Req, Handler(r) PROVE PaidSlots'
      <4>1. HasReason(r) /\ \A p \in Req : p # r => req'[p] = req[p]
        BY <1>2, <3>2, SlotsMove, ExchangeAssumption
      <4> QED BY <1>2, <2>1, <4>1 DEF HasReason, Reasoned
    <3> QED BY <1>2, <3>1, <3>2, OtherStepsKeepSlots
  <2>3. ASSUME NEW v \in DOMAIN verifications',
               exchanges'[verifications'[v].ex].lane \in Claim
        PROVE  invoice'[exchanges'[verifications'[v].ex].lane].status = "PAID"
    <3>1. CASE v \in DOMAIN verifications
      <4>1. verifications[v].ex \in DOMAIN exchanges BY <1>2, <3>1 DEF RowsOK
      <4>2. RowsKept BY <1>2, NextRows, ExchangeAssumption
      <4>3. exchanges'[verifications'[v].ex].lane = CodeLane(v)
        BY <3>1, <4>1, <4>2 DEF RowsKept, CodeLane
      <4> QED BY <1>2, <2>1, <2>3, <3>1, <4>3 DEF PaidBeforeCode
    <3>2. CASE v \notin DOMAIN verifications
      <4>1. PICK r \in Req : CreateCode(r)
        BY <1>2, <2>3, <3>2, RowsCreated
      <4>2. verifications \in Seq(Verification) BY <1>2 DEF RowsOK, TypeOK
      <4>3. verifications'[v].ex = req[r].ex /\ exchanges' = exchanges
        <5> DEFINE row == [ex |-> req[r].ex, status |-> "PENDING", attempts |-> 0,
                           lapsed |-> FALSE, confirmed |-> FALSE]
        <5>1. verifications' = Append(verifications, row) /\ exchanges' = exchanges
          BY <4>1 DEF CreateCode
        <5>2. DOMAIN verifications = 1..Len(verifications)
              /\ DOMAIN verifications' = 1..(Len(verifications) + 1)
              /\ Len(verifications) \in Nat
          BY <4>2, <5>1
        <5>3. v = Len(verifications) + 1 BY <2>3, <3>2, <5>2
        <5> QED BY <4>2, <5>1, <5>3
      <4>4. exchanges[req[r].ex].lane = req[r].lane /\ req[r].step = "createCode"
        BY <1>2, <4>1 DEF RowsOK, SnapshotOK, CreateCode, At, IssueSteps
      <4> QED BY <1>2, <2>1, <2>3, <4>3, <4>4
    <3> QED BY <3>1, <3>2
  <2> QED BY <2>2, <2>3 DEF PaidBeforeCode, CodeLane
<1>3. Init => RowsOK BY InitRows, ExchangeAssumption
<1>4. RowsOK /\ [Next]_vars => RowsOK' BY NextRows, ExchangeAssumption
<1> QED BY <1>1, <1>2, <1>3, <1>4, PTL DEF Spec

-----------------------------------------------------------------------------
(* The document was brought in before anything else happened to it *)

\* Any trace that the case has left its draft: in its status, custody or log, in a
\* claim, in an outbound exchange, or in a handler that is about to leave one.
Moved ==
  \/ found.status # "DRAFT"
  \/ found.custody # "WITH_FINDER" /\ ~operated
  \/ EverVerified
  \/ \E c \in Claim : claim[c] # "PENDING"
  \/ \E e \in DOMAIN exchanges : exchanges[e].lane \in Claim
  \/ \E r \in Req : \/ req[r].step \in {"verifyCase", "rejectCase"}
                    \/ req[r].step = "createExchange" /\ req[r].lane \in Claim

\* The first such trace is left by confirming an inbound code.
LEMMA FirstMove ==
  ASSUME RowsOK, ~Moved, [Next]_vars
  PROVE  ~Moved' \/ Inbound \in ConfirmedLanes'
<1>1. ASSUME NEW r \in Req, Completes(r) PROVE Inbound \in ConfirmedLanes'
  <2>1. /\ req[r].lane \in Lane /\ req[r].ex \in DOMAIN exchanges
        /\ exchanges[req[r].ex].lane = req[r].lane
        /\ req[r].lane \in ConfirmedLanes'
    BY <1>1, CompletionConfirms
  <2> QED BY <2>1 DEF Moved, Lane
<1>2. ASSUME NEW r \in Req, ReviewCase(r) PROVE FALSE
  BY <1>2 DEF ReviewCase, At, Moved
<1>3. CASE UNCHANGED world \/ Operates
  <2>1. /\ found'.status = "DRAFT" /\ ~EverVerified'
        /\ found'.custody = "WITH_FINDER" \/ operated'
    BY <1>3, OperationMoves, ExchangeAssumption DEF Moved, world, EverVerified
  <2>2. \A c \in Claim : claim'[c] = "PENDING"
    <3>1. ASSUME NEW r \in Req, Handler(r) PROVE claim' = claim
      BY <3>1
         DEF Handler, money, ScheduleInbound, ScheduleOutbound, CreateExchange,
             SetSubmission, UpdateSubmission, AddDeliveryFee, UpdateOutbound,
             UpdateExchange, IssueCode,
             ExpireOldCodes, CreateCode, MarkInProgress, VerifyCode, ExpireCode,
             CountAttempt, ConfirmExchange, ConfirmDelivery, ReviewCase,
             EnterDeliveryCode, StartCancelCode, CancelCode, StartWithdraw,
             Withdraw, StartFailDelivery, FailDelivery, StartReviewCase, Die
    <3>2. claim' = claim
      BY <3>1 DEF Next, CodeLapses, VerifyClaim, RejectClaim, PayInvoice,
                  ExecuteOperation, vars, money, Moved
    <3> QED BY <3>2 DEF Moved
  <2>3. ASSUME NEW e \in DOMAIN exchanges' PROVE exchanges'[e].lane \notin Claim
    <3>1. CASE e \in DOMAIN exchanges
      <4>1. RowsKept BY NextRows, ExchangeAssumption
      <4> QED BY <3>1, <4>1 DEF RowsKept, Moved
    <3>2. CASE e \notin DOMAIN exchanges
      <4>1. PICK r \in Req : CreateExchange(r) BY <2>3, <3>2, RowsCreated
      <4>2. exchanges \in Seq(Exchange) BY DEF RowsOK, TypeOK
      <4>3. exchanges'[e].lane = req[r].lane
        <5> DEFINE row == [lane |-> req[r].lane, method |-> req[r].method,
                           status |-> "SCHEDULED", completedBy |-> None]
        <5>1. exchanges' = Append(exchanges, row) BY <4>1 DEF CreateExchange
        <5>2. /\ DOMAIN exchanges = 1..Len(exchanges)
              /\ DOMAIN exchanges' = 1..(Len(exchanges) + 1)
              /\ Len(exchanges) \in Nat
          BY <4>2, <5>1
        <5>3. e = Len(exchanges) + 1 BY <2>3, <3>2, <5>2
        <5> QED BY <4>2, <5>1, <5>3
      <4> QED BY <4>1, <4>3 DEF CreateExchange, At, Moved
    <3> QED BY <3>1, <3>2
  <2>4. ASSUME NEW p \in Req
        PROVE  /\ req'[p].step \notin {"verifyCase", "rejectCase"}
               /\ req'[p].step = "createExchange" => req'[p].lane \notin Claim
    <3>1. ASSUME NEW r \in Req, Handler(r)
          PROVE  req'[p] = req[p] \/ HasReason(p)
      BY <3>1, SlotsMove, ExchangeAssumption
    <3>2. req'[p] = req[p] \/ HasReason(p) BY <3>1, OtherStepsKeepSlots
    <3>3. found.status = "DRAFT" /\ \A c \in Claim : claim[c] = "PENDING"
      BY DEF Moved
    <3> QED BY <3>2, <3>3 DEF HasReason, Reasoned, Moved
  <2> QED BY <2>1, <2>2, <2>3, <2>4 DEF Moved
<1> QED BY <1>1, <1>2, <1>3, WorldChanges

\* A found case is out of its draft only after an inbound code was confirmed, whatever
\* the overlap of reviews, claims, outbound exchanges and batch operations, and only a
\* batch operation takes the document from its finder without one.
THEOREM CollectionStartsEverything == Spec => []CollectedByCode
<1> DEFINE Inv == Moved => Inbound \in ConfirmedLanes
<1>1. Init => Inv
  BY ExchangeAssumption DEF Init, Idle, Moved, EverVerified
<1>2. ASSUME RowsOK, Inv, [Next]_vars PROVE Inv'
  <2>1. ConfirmedLanes \subseteq ConfirmedLanes'
    BY <1>2, NextRows, ConfirmedStays, ExchangeAssumption
  <2>2. CASE Moved BY <1>2, <2>1, <2>2
  <2>3. CASE ~Moved BY <1>2, <2>3, FirstMove
  <2> QED BY <2>2, <2>3
<1>3. Inv => CollectedByCode
  BY DEF Moved, CollectedByCode, EverConfirmed, CodeLane, ConfirmedLanes
<1>4. Init => RowsOK BY InitRows, ExchangeAssumption
<1>5. RowsOK /\ [Next]_vars => RowsOK' BY NextRows, ExchangeAssumption
<1> QED BY <1>1, <1>2, <1>3, <1>4, <1>5, PTL DEF Spec

\* Payment, code and hand-over in that order, for any number of claims, exchanges and
\* overlapping handlers, and with batch operations that move the document between any two
\* steps: they are the only ones that do so without a code.
THEOREM EverythingMovesByCode == Spec => []MovesByCode
<1>1. PaidBeforeCode /\ CollectedByCode /\ HandedOverByCode => MovesByCode
  BY DEF MovesByCode
<1> QED BY <1>1, CodesArePaidFor, CollectionStartsEverything, NoHandoverWithoutCode, PTL

-----------------------------------------------------------------------------
(* Handlers one after the other: what the handler in flight rests on, with a  *)
(* case, claims and rows that only it changes under it                        *)

OneAtATime == \A r, s \in Req : r = s

OpenSteps == {"expireOldCodes", "createCode", "markInProgress", "withdraw",
              "failDelivery"}

Rests(q) ==
  /\ q.step = "createExchange" =>
       /\ NoActive(q.lane)
       /\ q.lane = Inbound => found.status = "DRAFT"
       /\ q.lane \in Claim => claim[q.lane] # "PENDING"
  /\ q.step \in OpenSteps => q.ex \in DOMAIN exchanges /\ IsActive(q.ex)
  /\ q.step = "createCode" =>
       \A v \in DOMAIN verifications :
         verifications[v].ex = q.ex => verifications[v].status # "PENDING"
  /\ q.step \in CodeSteps => verifications[q.code].status = "PENDING"
  /\ q.step \in {"verifyCase", "rejectCase"} => found.status = "SUBMITTED"

HandlersRest == \A r \in Req : Rests(req[r])

\* A code is confirmed exactly with its exchange, and no second one for it.
ConfirmedOnce ==
  /\ \A v \in DOMAIN verifications : verifications[v].status = "CONFIRMED" =>
       exchanges[verifications[v].ex].status = "COMPLETED"
  /\ \A v, w \in DOMAIN verifications :
       verifications[v].status = "CONFIRMED" /\ verifications[w].status = "CONFIRMED"
         /\ verifications[v].ex = verifications[w].ex => v = w
  /\ \A e \in DOMAIN exchanges : exchanges[e].status = "COMPLETED" =>
       \E v \in DOMAIN verifications :
         verifications[v].ex = e /\ verifications[v].status = "CONFIRMED"

\* Who completed an exchange is known of completed ones only.
CompletedBySomeone ==
  \A e \in DOMAIN exchanges :
    exchanges[e].completedBy # None => exchanges[e].status = "COMPLETED"

SerialRows == OneActiveExchange /\ OneLiveCode /\ ConfirmedOnce /\ CompletedBySomeone

Passed == {"VERIFIED", "COMPLETED"}

\* The log tells of the case what its status says, and so does its custody as long as no
\* batch operation has moved the document.
CaseAgrees ==
  /\ ~operated =>
       /\ found.custody = "WITH_FINDER" <=> found.status = "DRAFT"
       /\ found.custody = "HANDED_OVER" <=> found.status = "COMPLETED"
  /\ Logged("SUBMITTED") <=> found.status # "DRAFT"
  /\ Logged("VERIFIED")  <=> found.status \in Passed
  /\ Logged("REJECTED")  <=> found.status = "REJECTED"

\* What a draft cannot have yet, what only a verified case has.
StagesAgree ==
  /\ \A e \in DOMAIN exchanges :
       /\ exchanges[e].lane = Inbound /\ IsActive(e) => found.status = "DRAFT"
       /\ exchanges[e].lane \in Claim => claim[exchanges[e].lane] # "PENDING"
  /\ \A c \in Claim : claim[c] # "PENDING" => found.status \in Passed

\* The lost case of a claim is closed exactly when an exchange of it is completed,
\* and the found case is completed exactly when some lost case is closed.
ClosedByHandover ==
  /\ \A c \in Claim :
       lost[c] = "COMPLETED" <=> \E e \in DOMAIN exchanges :
         exchanges[e].lane = c /\ exchanges[e].status = "COMPLETED"
  /\ found.status = "COMPLETED" <=> \E c \in Claim : lost[c] = "COMPLETED"

SerialCase == CaseAgrees /\ StagesAgree /\ ClosedByHandover

SerialInv == RowsOK /\ HandlersRest /\ SerialRows /\ SerialCase

-----------------------------------------------------------------------------
(* The kinds of steps *)

\* Rows settle: exchanges stay open or are called off with their codes, codes expire.
Settles ==
  /\ DOMAIN exchanges' = DOMAIN exchanges
  /\ DOMAIN verifications' = DOMAIN verifications
  /\ \A e \in DOMAIN exchanges :
       /\ exchanges'[e].lane = exchanges[e].lane
       /\ exchanges'[e].completedBy = exchanges[e].completedBy
       /\ \/ exchanges'[e].status = exchanges[e].status
          \/ /\ exchanges[e].status \in ActiveStatus
             /\ exchanges'[e].status \in ActiveStatus
          \/ /\ exchanges[e].status \in ActiveStatus
             /\ exchanges'[e].status \in {"CANCELLED", "FAILED"}
             /\ \A v \in DOMAIN verifications :
                  verifications[v].ex = e => verifications'[v].status # "PENDING"
  /\ \A v \in DOMAIN verifications :
       /\ verifications'[v].ex = verifications[v].ex
       /\ \/ verifications'[v].status = verifications[v].status
          \/ /\ verifications[v].status = "PENDING"
             /\ verifications'[v].status \in {"EXPIRED", "CANCELLED"}

LEMMA SettlingKeepsRows ==
  ASSUME RowsOK, SerialRows, Settles PROVE SerialRows'
<1>0. \A v \in DOMAIN verifications : verifications[v].ex \in DOMAIN exchanges
  BY DEF RowsOK
<1>1. \A e \in DOMAIN exchanges : exchanges'[e].status \in ActiveStatus =>
        exchanges[e].status \in ActiveStatus
  BY DEF Settles, ActiveStatus
<1>2. OneActiveExchange'
  BY <1>1 DEF SerialRows, OneActiveExchange, IsActive, Settles
<1>3. \A v \in DOMAIN verifications : verifications'[v].status = "PENDING" =>
        verifications[v].status = "PENDING"
  BY DEF Settles
<1>4. OneLiveCode'
  <2> SUFFICES ASSUME NEW v \in DOMAIN verifications, verifications'[v].status = "PENDING"
               PROVE  /\ exchanges'[verifications'[v].ex].status \in ActiveStatus
                      /\ \A w \in DOMAIN verifications :
                           verifications'[w].status = "PENDING"
                             /\ verifications'[w].ex = verifications'[v].ex => v = w
    BY DEF OneLiveCode, IsActive, Settles
  <2>1. verifications[v].status = "PENDING" BY <1>3
  <2>2. exchanges[verifications[v].ex].status \in ActiveStatus
    BY <2>1 DEF SerialRows, OneLiveCode, IsActive
  <2>3. exchanges'[verifications[v].ex].status \in ActiveStatus
    BY <1>0, <2>2 DEF Settles
  <2>4. \A w \in DOMAIN verifications :
          verifications'[w].status = "PENDING"
            /\ verifications'[w].ex = verifications'[v].ex => v = w
    BY <1>3, <2>1 DEF SerialRows, OneLiveCode, Settles
  <2> QED BY <2>3, <2>4 DEF Settles
<1>5. /\ \A v \in DOMAIN verifications :
           verifications'[v].status = "CONFIRMED" <=> verifications[v].status = "CONFIRMED"
      /\ \A e \in DOMAIN exchanges :
           exchanges'[e].status = "COMPLETED" <=> exchanges[e].status = "COMPLETED"
  BY DEF Settles, ActiveStatus
<1>6. ConfirmedOnce' BY <1>0, <1>5 DEF SerialRows, ConfirmedOnce, Settles
<1>7. CompletedBySomeone' BY <1>5 DEF SerialRows, CompletedBySomeone, Settles
<1> QED BY <1>2, <1>4, <1>6, <1>7 DEF SerialRows

LEMMA NewExchangeKeepsRows ==
  ASSUME RowsOK, SerialRows, NEW r \in Req, Rests(req[r]), CreateExchange(r)
  PROVE  SerialRows'
<1> DEFINE n == Len(exchanges) + 1
           row == [lane |-> req[r].lane, method |-> req[r].method,
                   status |-> "SCHEDULED", completedBy |-> None]
<1>0. /\ \A v \in DOMAIN verifications : verifications[v].ex \in DOMAIN exchanges
      /\ verifications' = verifications
  BY DEF RowsOK, CreateExchange
<1>1. /\ DOMAIN exchanges' = DOMAIN exchanges \cup {n} /\ n \notin DOMAIN exchanges
      /\ \A e \in DOMAIN exchanges : exchanges'[e] = exchanges[e]
      /\ exchanges'[n] = row
  <2>1. row \in Exchange
    BY DEF RowsOK, TypeOK, CreateExchange, At, SnapshotOK, Exchange, ExchangeStatus,
           ActiveStatus
  <2>2. exchanges \in Seq(Exchange) /\ exchanges' = Append(exchanges, row)
    BY DEF RowsOK, TypeOK, CreateExchange
  <2> QED BY <2>1, <2>2, AppendRows
<1>2. \A e \in DOMAIN exchanges :
        exchanges[e].lane = req[r].lane => exchanges[e].status \notin ActiveStatus
  BY DEF Rests, CreateExchange, At, NoActive, IsActive
<1>3. row.lane = req[r].lane /\ row.status = "SCHEDULED" /\ row.completedBy = None
  OBVIOUS
<1> HIDE DEF n, row
<1>4. OneActiveExchange'
  BY <1>1, <1>2, <1>3 DEF SerialRows, OneActiveExchange, IsActive
<1>5. OneLiveCode' BY <1>0, <1>1 DEF SerialRows, OneLiveCode, IsActive
<1>6. ConfirmedOnce' BY <1>0, <1>1, <1>3 DEF SerialRows, ConfirmedOnce
<1>7. CompletedBySomeone' BY <1>1, <1>3 DEF SerialRows, CompletedBySomeone
<1> QED BY <1>4, <1>5, <1>6, <1>7 DEF SerialRows

LEMMA NewCodeKeepsRows ==
  ASSUME RowsOK, SerialRows, NEW r \in Req, Rests(req[r]), CreateCode(r)
  PROVE  SerialRows'
<1> DEFINE n == Len(verifications) + 1
           row == [ex |-> req[r].ex, status |-> "PENDING", attempts |-> 0,
                   lapsed |-> FALSE, confirmed |-> FALSE]
<1>0. exchanges' = exchanges BY DEF CreateCode
<1>1. /\ DOMAIN verifications' = DOMAIN verifications \cup {n}
      /\ n \notin DOMAIN verifications
      /\ \A v \in DOMAIN verifications : verifications'[v] = verifications[v]
      /\ verifications'[n] = row
  <2>1. row \in Verification
    BY DEF RowsOK, TypeOK, CreateCode, At, SnapshotOK, IssueSteps, Verification, CodeStatus
  <2>2. verifications \in Seq(Verification) /\ verifications' = Append(verifications, row)
    BY DEF RowsOK, TypeOK, CreateCode
  <2> QED BY <2>1, <2>2, AppendRows
<1>2. /\ req[r].ex \in DOMAIN exchanges /\ exchanges[req[r].ex].status \in ActiveStatus
      /\ \A v \in DOMAIN verifications :
           verifications[v].ex = req[r].ex => verifications[v].status # "PENDING"
  BY DEF Rests, CreateCode, At, OpenSteps, IsActive
<1>3. row.ex = req[r].ex /\ row.status = "PENDING" OBVIOUS
<1> HIDE DEF n, row
<1>4. OneActiveExchange' BY <1>0 DEF SerialRows, OneActiveExchange, IsActive
<1>5. OneLiveCode' BY <1>0, <1>1, <1>2, <1>3 DEF SerialRows, OneLiveCode, IsActive
<1>6. ConfirmedOnce' BY <1>0, <1>1, <1>3 DEF SerialRows, ConfirmedOnce
<1>7. CompletedBySomeone' BY <1>0 DEF SerialRows, CompletedBySomeone
<1> QED BY <1>4, <1>5, <1>6, <1>7 DEF SerialRows

\* What a completion writes: one code and its exchange.
LEMMA CompletionRows ==
  ASSUME RowsOK, NEW r \in Req, Completes(r)
  PROVE  LET e == req[r].ex  v == req[r].code IN
         /\ e \in DOMAIN exchanges /\ v \in DOMAIN verifications
         /\ verifications[v].ex = e
         /\ DOMAIN exchanges' = DOMAIN exchanges
         /\ DOMAIN verifications' = DOMAIN verifications
         /\ \A f \in DOMAIN exchanges :
              /\ exchanges'[f].lane = exchanges[f].lane
              /\ f # e => exchanges'[f] = exchanges[f]
         /\ exchanges'[e].status = "COMPLETED"
         /\ exchanges'[e].completedBy = IF ConfirmExchange(r) THEN "staff" ELSE "claimant"
         /\ \A w \in DOMAIN verifications :
              /\ verifications'[w].ex = verifications[w].ex
              /\ w # v => verifications'[w] = verifications[w]
         /\ verifications'[v].status = "CONFIRMED"
<1> DEFINE e == req[r].ex  v == req[r].code
           by == IF ConfirmExchange(r) THEN "staff" ELSE "claimant"
<1>1. PICK n : Complete(r, by, n)
  BY DEF Completes, ConfirmExchange, ConfirmDelivery
<1>2. /\ e \in DOMAIN exchanges /\ v \in DOMAIN verifications
      /\ verifications[v].ex = e
  BY DEF RowsOK, SnapshotOK, Completes, ConfirmExchange, ConfirmDelivery, At, CodeSteps
<1>3. exchanges[e] \in Exchange /\ verifications[v] \in Verification
  BY <1>2 DEF RowsOK, TypeOK
<1>4. /\ exchanges' = [exchanges EXCEPT ![e] =
           [@ EXCEPT !.status = "COMPLETED", !.completedBy = by]]
      /\ verifications' = [verifications EXCEPT ![v] =
           [@ EXCEPT !.status = "CONFIRMED", !.confirmed = TRUE, !.attempts = n]]
  BY <1>1 DEF Complete
<1> HIDE DEF by
<1>5. /\ DOMAIN exchanges' = DOMAIN exchanges
      /\ \A f \in DOMAIN exchanges : /\ exchanges'[f].lane = exchanges[f].lane
                                     /\ f # e => exchanges'[f] = exchanges[f]
      /\ exchanges'[e].status = "COMPLETED" /\ exchanges'[e].completedBy = by
  BY <1>2, <1>3, <1>4 DEF Exchange
<1>6. /\ DOMAIN verifications' = DOMAIN verifications
      /\ \A w \in DOMAIN verifications :
           /\ verifications'[w].ex = verifications[w].ex
           /\ w # v => verifications'[w] = verifications[w]
      /\ verifications'[v].status = "CONFIRMED"
  BY <1>2, <1>3, <1>4 DEF Verification
<1> QED BY <1>2, <1>5, <1>6 DEF by

LEMMA CompletionKeepsRows ==
  ASSUME RowsOK, SerialRows, NEW r \in Req, Rests(req[r]), Completes(r)
  PROVE  /\ SerialRows'
         /\ exchanges[req[r].ex].status \in ActiveStatus
         /\ exchanges[req[r].ex].completedBy = None
<1> DEFINE e == req[r].ex  v == req[r].code
<1>1. verifications[v].status = "PENDING"
  BY DEF Rests, Completes, ConfirmExchange, ConfirmDelivery, At, CodeSteps
<1>2. /\ e \in DOMAIN exchanges /\ v \in DOMAIN verifications /\ verifications[v].ex = e
      /\ DOMAIN exchanges' = DOMAIN exchanges
      /\ DOMAIN verifications' = DOMAIN verifications
      /\ \A f \in DOMAIN exchanges :
           /\ exchanges'[f].lane = exchanges[f].lane
           /\ f # e => exchanges'[f] = exchanges[f]
      /\ exchanges'[e].status = "COMPLETED"
      /\ \A w \in DOMAIN verifications :
           /\ verifications'[w].ex = verifications[w].ex
           /\ w # v => verifications'[w] = verifications[w]
      /\ verifications'[v].status = "CONFIRMED"
  BY CompletionRows
<1> HIDE DEF e, v
<1>3. /\ exchanges[e].status \in ActiveStatus
      /\ \A w \in DOMAIN verifications :
           verifications[w].status = "PENDING" /\ verifications[w].ex = e => w = v
  BY <1>1, <1>2 DEF SerialRows, OneLiveCode, IsActive
<1>4. exchanges[e].status # "COMPLETED" BY <1>3 DEF ActiveStatus
<1>5. \A w \in DOMAIN verifications :
        verifications[w].ex = e => verifications[w].status # "CONFIRMED"
  BY <1>4 DEF SerialRows, ConfirmedOnce
<1>6. OneActiveExchange'
  BY <1>2 DEF SerialRows, OneActiveExchange, IsActive, ActiveStatus
<1>7. OneLiveCode'
  <2>1. ASSUME NEW w \in DOMAIN verifications, verifications'[w].status = "PENDING"
        PROVE  /\ verifications[w].status = "PENDING" /\ w # v
               /\ verifications[w].ex # e /\ verifications'[w] = verifications[w]
    BY <1>2, <1>3, <2>1
  <2>2. \A w \in DOMAIN verifications : verifications[w].ex \in DOMAIN exchanges
    BY DEF RowsOK
  <2>3. ASSUME NEW w \in DOMAIN verifications, verifications'[w].status = "PENDING"
        PROVE  exchanges'[verifications'[w].ex].status \in ActiveStatus
    BY <1>2, <2>1, <2>2, <2>3 DEF SerialRows, OneLiveCode, IsActive
  <2>4. ASSUME NEW w \in DOMAIN verifications, NEW x \in DOMAIN verifications,
               verifications'[w].status = "PENDING", verifications'[x].status = "PENDING",
               verifications'[x].ex = verifications'[w].ex
        PROVE  w = x
    BY <1>2, <2>1, <2>4 DEF SerialRows, OneLiveCode
  <2> QED BY <1>2, <2>3, <2>4 DEF OneLiveCode, IsActive
<1>8. ConfirmedOnce'
  <2>1. ASSUME NEW w \in DOMAIN verifications, verifications'[w].status = "CONFIRMED"
        PROVE  \/ w = v
               \/ /\ verifications[w].status = "CONFIRMED" /\ verifications[w].ex # e
                  /\ verifications'[w] = verifications[w]
    BY <1>2, <1>5, <2>1
  <2>2. \A w \in DOMAIN verifications : verifications'[w].status = "CONFIRMED" =>
          exchanges'[verifications'[w].ex].status = "COMPLETED"
    <3>1. \A w \in DOMAIN verifications : verifications[w].ex \in DOMAIN exchanges
      BY DEF RowsOK
    <3> QED BY <1>2, <2>1, <3>1 DEF SerialRows, ConfirmedOnce
  <2>3. \A w, x \in DOMAIN verifications :
          verifications'[w].status = "CONFIRMED" /\ verifications'[x].status = "CONFIRMED"
            /\ verifications'[w].ex = verifications'[x].ex => w = x
    BY <1>2, <2>1 DEF SerialRows, ConfirmedOnce
  <2>4. ASSUME NEW f \in DOMAIN exchanges, exchanges'[f].status = "COMPLETED"
        PROVE  \E w \in DOMAIN verifications :
                 verifications'[w].ex = f /\ verifications'[w].status = "CONFIRMED"
    <3>1. CASE f = e BY <1>2, <3>1
    <3>2. CASE f # e
      <4>1. exchanges[f].status = "COMPLETED" BY <1>2, <2>4, <3>2
      <4>2. PICK w \in DOMAIN verifications :
              verifications[w].ex = f /\ verifications[w].status = "CONFIRMED"
        BY <4>1 DEF SerialRows, ConfirmedOnce
      <4>3. w # v BY <1>2, <3>2, <4>2
      <4> QED BY <1>2, <4>2, <4>3
    <3> QED BY <3>1, <3>2
  <2> QED BY <1>2, <2>2, <2>3, <2>4 DEF ConfirmedOnce
<1>9. CompletedBySomeone' BY <1>2 DEF SerialRows, CompletedBySomeone
<1>10. exchanges[e].completedBy = None
  BY <1>2, <1>4 DEF SerialRows, CompletedBySomeone
<1> QED BY <1>3, <1>6, <1>7, <1>8, <1>9, <1>10 DEF SerialRows, e

\* The other writes of handlers settle rows, or touch none.
LEMMA WritesSettle ==
  ASSUME RowsOK, SerialRows, NEW r \in Req, Rests(req[r]),
         \/ UpdateSubmission(r) \/ UpdateExchange(r) \/ MarkInProgress(r)
         \/ ExpireOldCodes(r) \/ ExpireCode(r) \/ CountAttempt(r)
         \/ CancelCode(r) \/ Withdraw(r) \/ FailDelivery(r)
  PROVE  Settles
<1> DEFINE e == req[r].ex  v == req[r].code
<1>0. /\ \A f \in DOMAIN exchanges : exchanges[f] \in Exchange
      /\ \A w \in DOMAIN verifications : verifications[w] \in Verification
  BY DEF RowsOK, TypeOK
<1>row. ASSUME NEW x, exchanges' = [exchanges EXCEPT ![e] = x]
        PROVE  /\ DOMAIN exchanges' = DOMAIN exchanges
               /\ \A f \in DOMAIN exchanges : exchanges'[f] = IF f = e THEN x ELSE exchanges[f]
  BY <1>row
<1>code. ASSUME NEW x, verifications' = [verifications EXCEPT ![v] = x]
         PROVE  /\ DOMAIN verifications' = DOMAIN verifications
                /\ \A w \in DOMAIN verifications :
                     verifications'[w] = IF w = v THEN x ELSE verifications[w]
  BY <1>code
<1>pending. ASSUME NEW s \in {"EXPIRED", "CANCELLED"}, verifications' = ResolvePending(e, s)
            PROVE  /\ DOMAIN verifications' = DOMAIN verifications
                   /\ \A w \in DOMAIN verifications :
                        /\ verifications'[w].ex = verifications[w].ex
                        /\ verifications[w].ex = e => verifications'[w].status # "PENDING"
                        /\ \/ verifications'[w].status = verifications[w].status
                           \/ /\ verifications[w].status = "PENDING"
                              /\ verifications'[w].status \in {"EXPIRED", "CANCELLED"}
  BY <1>0, <1>pending DEF ResolvePending, Verification
<1>1. CASE UpdateSubmission(r) \/ UpdateExchange(r)
  <2>1. /\ exchanges' = [exchanges EXCEPT ![e] = [exchanges[e] EXCEPT !.method = req[r].method]]
        /\ verifications' = verifications
    BY <1>1 DEF UpdateSubmission, UpdateExchange
  <2> HIDE DEF e
  <2>2. \A f \in DOMAIN exchanges :
          /\ exchanges'[f].lane = exchanges[f].lane
          /\ exchanges'[f].completedBy = exchanges[f].completedBy
          /\ exchanges'[f].status = exchanges[f].status
    BY <1>0, <2>1 DEF Exchange
  <2> QED BY <1>row, <2>1, <2>2 DEF Settles
<1>2. CASE MarkInProgress(r)
  <2>1. /\ exchanges' = [exchanges EXCEPT ![e] = [exchanges[e] EXCEPT !.status = "IN_PROGRESS"]]
        /\ verifications' = verifications
        /\ exchanges[e].status \in ActiveStatus
    BY <1>2 DEF MarkInProgress, Rests, At, OpenSteps, IsActive
  <2> HIDE DEF e
  <2>2. \A f \in DOMAIN exchanges :
          /\ exchanges'[f].lane = exchanges[f].lane
          /\ exchanges'[f].completedBy = exchanges[f].completedBy
          /\ \/ exchanges'[f].status = exchanges[f].status
             \/ f = e /\ exchanges'[f].status = "IN_PROGRESS"
    BY <1>0, <2>1 DEF Exchange
  <2> QED BY <1>row, <2>1, <2>2 DEF Settles, ActiveStatus
<1>3. CASE ExpireOldCodes(r)
  BY <1>3, <1>pending DEF ExpireOldCodes, Settles
<1>4. CASE ExpireCode(r)
  <2>1. /\ verifications' =
             [verifications EXCEPT ![v] = [verifications[v] EXCEPT !.status = "EXPIRED"]]
        /\ exchanges' = exchanges /\ verifications[v].status = "PENDING"
    BY <1>4 DEF ExpireCode, Rests, At, CodeSteps
  <2> HIDE DEF v
  <2>2. \A w \in DOMAIN verifications :
          /\ verifications'[w].ex = verifications[w].ex
          /\ \/ verifications'[w].status = verifications[w].status
             \/ w = v /\ verifications'[w].status = "EXPIRED"
    BY <1>0, <2>1 DEF Verification
  <2> QED BY <1>code, <2>1, <2>2 DEF Settles
<1>5. CASE CountAttempt(r)
  <2>1. /\ verifications' =
             [verifications EXCEPT ![v] = [verifications[v] EXCEPT !.attempts = req[r].attempts]]
        /\ exchanges' = exchanges
    BY <1>5 DEF CountAttempt
  <2> HIDE DEF v
  <2>2. \A w \in DOMAIN verifications :
          /\ verifications'[w].ex = verifications[w].ex
          /\ verifications'[w].status = verifications[w].status
    BY <1>0, <2>1 DEF Verification
  <2> QED BY <1>code, <2>1, <2>2 DEF Settles
<1>6. CASE CancelCode(r)
  <2>1. /\ verifications' =
             [verifications EXCEPT ![v] = [verifications[v] EXCEPT !.status = "CANCELLED"]]
        /\ exchanges' = [exchanges EXCEPT ![e] = [exchanges[e] EXCEPT !.status = "SCHEDULED"]]
        /\ verifications[v].status = "PENDING"
        /\ v \in DOMAIN verifications /\ verifications[v].ex = e
    BY <1>6 DEF CancelCode, Rests, At, CodeSteps, RowsOK, SnapshotOK
  <2> HIDE DEF v, e
  <2>2. \A w \in DOMAIN verifications :
          /\ verifications'[w].ex = verifications[w].ex
          /\ \/ verifications'[w].status = verifications[w].status
             \/ w = v /\ verifications'[w].status = "CANCELLED"
    BY <1>0, <2>1 DEF Verification
  <2>3. exchanges[e].status \in ActiveStatus
    BY <2>1 DEF SerialRows, OneLiveCode, IsActive
  <2>4. \A f \in DOMAIN exchanges :
          /\ exchanges'[f].lane = exchanges[f].lane
          /\ exchanges'[f].completedBy = exchanges[f].completedBy
          /\ \/ exchanges'[f].status = exchanges[f].status
             \/ f = e /\ exchanges'[f].status = "SCHEDULED"
    BY <1>0, <2>1 DEF Exchange
  <2> QED BY <1>row, <1>code, <2>1, <2>2, <2>3, <2>4 DEF Settles, ActiveStatus
<1>7. ASSUME NEW s \in {"CANCELLED", "FAILED"}, NEW t \in {"EXPIRED", "CANCELLED"},
             exchanges' = [exchanges EXCEPT ![e].status = s],
             verifications' = ResolvePending(e, t), exchanges[e].status \in ActiveStatus
      PROVE  Settles
  <2>1. exchanges' = [exchanges EXCEPT ![e] = [exchanges[e] EXCEPT !.status = s]]
    BY <1>7
  <2> HIDE DEF e
  <2>2. \A f \in DOMAIN exchanges :
          /\ exchanges'[f].lane = exchanges[f].lane
          /\ exchanges'[f].completedBy = exchanges[f].completedBy
          /\ \/ exchanges'[f].status = exchanges[f].status
             \/ f = e /\ exchanges'[f].status = s
    BY <1>0, <2>1 DEF Exchange
  <2> QED BY <1>row, <1>pending, <1>7, <2>1, <2>2 DEF Settles
<1>8. CASE Withdraw(r)
  BY <1>7, <1>8 DEF Withdraw, Rests, At, OpenSteps, IsActive
<1>9. CASE FailDelivery(r)
  BY <1>7, <1>9 DEF FailDelivery, Rests, At, OpenSteps, IsActive
<1> QED BY <1>1, <1>2, <1>3, <1>4, <1>5, <1>6, <1>8, <1>9

\* Claims are decided once for all, and only when the case was verified.
ClaimsAdvance ==
  \A c \in Claim : /\ claim[c] # "PENDING" => claim'[c] # "PENDING"
                   /\ claim'[c] # claim[c] => EverVerified

\* Every step is a quiet one, a batch operation, a new row, a completion or a review.
LEMMA KindsOfSteps ==
  ASSUME RowsOK, SerialRows, HandlersRest, [Next]_vars
  PROVE  \/ Settles /\ UNCHANGED world /\ ClaimsAdvance
         \/ Operates /\ Settles /\ UNCHANGED claim
         \/ \E r \in Req : \/ CreateExchange(r) \/ CreateCode(r)
                           \/ Completes(r) \/ ReviewCase(r)
<1> USE DEF world, money
<1>1. ASSUME UNCHANGED <<exchanges, verifications>> PROVE Settles
  BY <1>1 DEF Settles
<1>2. ASSUME claim' = claim PROVE ClaimsAdvance BY <1>2 DEF ClaimsAdvance
<1>3. ASSUME NEW r \in Req, Handler(r)
      PROVE  \/ Settles /\ UNCHANGED world /\ ClaimsAdvance
             \/ CreateExchange(r) \/ CreateCode(r) \/ Completes(r) \/ ReviewCase(r)
  <2>1. CASE \/ ScheduleInbound(r) \/ SetSubmission(r)
             \/ \E c \in Claim : ScheduleOutbound(r, c) \/ UpdateOutbound(r, c)
             \/ \E lane \in Lane : \/ IssueCode(r, lane) \/ VerifyCode(r, lane)
                                   \/ StartCancelCode(r, lane)
                                   \/ StartWithdraw(r, lane)
             \/ EnterDeliveryCode(r) \/ StartFailDelivery(r) \/ StartReviewCase(r)
    <3>1. UNCHANGED <<world, money, exchanges, verifications>>
      BY <2>1, StartsKeepRows
    <3> QED BY <1>1, <1>2, <3>1
  <2>2. CASE AddDeliveryFee(r) \/ Die(r)
    BY <1>1, <1>2, <2>2 DEF AddDeliveryFee, Die
  <2>3. CASE \/ UpdateSubmission(r) \/ UpdateExchange(r) \/ MarkInProgress(r)
             \/ ExpireOldCodes(r) \/ ExpireCode(r) \/ CountAttempt(r)
             \/ CancelCode(r) \/ Withdraw(r) \/ FailDelivery(r)
    <3>1. Settles BY <2>3, WritesSettle DEF HandlersRest
    <3>2. UNCHANGED <<world, claim>>
      BY <2>3 DEF UpdateSubmission, UpdateExchange, MarkInProgress, ExpireOldCodes,
         ExpireCode, CountAttempt, CancelCode, Withdraw, FailDelivery
    <3> QED BY <1>2, <3>1, <3>2
  <2> QED BY <1>3, <2>1, <2>2, <2>3 DEF Handler, Completes
<1>4. ASSUME NEW v \in DOMAIN verifications, CodeLapses(v)
      PROVE  Settles /\ UNCHANGED world /\ ClaimsAdvance
  <2>1. verifications[v] \in Verification BY DEF RowsOK, TypeOK
  <2>2. \A w \in DOMAIN verifications :
          /\ verifications'[w].ex = verifications[w].ex
          /\ verifications'[w].status = verifications[w].status
    BY <1>4, <2>1 DEF CodeLapses, Verification
  <2> QED BY <1>2, <1>4, <2>2 DEF CodeLapses, Settles
<1>5. ASSUME NEW c \in Claim, VerifyClaim(c) \/ RejectClaim(c) \/ PayInvoice(c)
      PROVE  Settles /\ UNCHANGED world /\ ClaimsAdvance
  <2>1. claim \in [Claim -> {"PENDING", "VERIFIED", "REJECTED"}] BY DEF RowsOK, TypeOK
  <2>2. ClaimsAdvance
    BY <1>5, <2>1 DEF VerifyClaim, RejectClaim, PayInvoice, ClaimsAdvance
  <2> QED BY <1>1, <1>5, <2>2 DEF VerifyClaim, RejectClaim, PayInvoice
<1>6. CASE UNCHANGED vars BY <1>1, <1>2, <1>6 DEF vars
<1>7. CASE Operates BY <1>1, <1>7 DEF Operates, ExecuteOperation
<1> QED BY <1>3, <1>4, <1>5, <1>6, <1>7 DEF Next, Operates

LEMMA ReviewTouchesNoRow ==
  ASSUME SerialRows, NEW r \in Req, ReviewCase(r) PROVE SerialRows'
<1>1. UNCHANGED <<exchanges, verifications>> BY DEF ReviewCase
<1> QED BY <1>1 DEF SerialRows, OneActiveExchange, OneLiveCode, ConfirmedOnce,
           CompletedBySomeone, IsActive

LEMMA SerialRowsNext ==
  ASSUME RowsOK, SerialRows, HandlersRest, [Next]_vars PROVE SerialRows'
<1>1. ASSUME NEW r \in Req PROVE Rests(req[r]) BY DEF HandlersRest
<1> QED BY <1>1, KindsOfSteps, SettlingKeepsRows, NewExchangeKeepsRows, NewCodeKeepsRows,
           CompletionKeepsRows, ReviewTouchesNoRow

-----------------------------------------------------------------------------
(* The handler that moves is the only one there is *)

\* The first action of a handler reads what its later ones rest on.
LEMMA StartsRest ==
  ASSUME RowsOK, ExchangeAssumption, NEW r \in Req,
         \/ ScheduleInbound(r) \/ SetSubmission(r)
         \/ \E c \in Claim : ScheduleOutbound(r, c) \/ UpdateOutbound(r, c)
         \/ \E lane \in Lane : \/ IssueCode(r, lane) \/ VerifyCode(r, lane)
                               \/ StartCancelCode(r, lane)
                               \/ StartWithdraw(r, lane)
         \/ EnterDeliveryCode(r) \/ StartFailDelivery(r) \/ StartReviewCase(r)
  PROVE  Rests(req'[r])
<1>0. req \in [Req -> Request] BY DEF RowsOK, TypeOK
<1>load. ASSUME NEW s, Load(r, s), Rests(s) PROVE Rests(req'[r])
  BY <1>0, <1>load DEF Load
<1> USE DEF Idle
<1>1. CASE ScheduleInbound(r)
  <2>1. PICK m : Load(r, [Idle EXCEPT !.step = "createExchange", !.lane = Inbound,
                                      !.method = m])
    BY <1>1 DEF ScheduleInbound
  <2>2. NoActive(Inbound) /\ found.status = "DRAFT" /\ Inbound \notin Claim
    BY <1>1, ExchangeAssumption DEF ScheduleInbound
  <2> QED BY <1>load, <2>1, <2>2 DEF Rests, OpenSteps, CodeSteps
<1>2. ASSUME NEW c \in Claim, ScheduleOutbound(r, c) PROVE Rests(req'[r])
  <2>1. PICK m, z : Load(r, [Idle EXCEPT !.step = "createExchange", !.lane = c,
                                         !.method = m, !.zone = z])
    BY <1>2 DEF ScheduleOutbound
  <2>2. NoActive(c) /\ claim[c] # "PENDING" /\ c # Inbound
    BY <1>2, ExchangeAssumption DEF ScheduleOutbound
  <2> QED BY <1>load, <2>1, <2>2 DEF Rests, OpenSteps, CodeSteps
<1>3. ASSUME NEW c \in Claim, UpdateOutbound(r, c) PROVE Rests(req'[r])
  <2>1. PICK e, m, w, z : Load(r, [Idle EXCEPT !.step = "updateExchange", !.lane = c,
                             !.ex = e, !.method = m, !.was = w, !.zone = z])
    BY <1>3 DEF UpdateOutbound
  <2> QED BY <1>load, <2>1 DEF Rests, OpenSteps, CodeSteps
<1>4. ASSUME NEW lane \in Lane, IssueCode(r, lane) PROVE Rests(req'[r])
  <2>1. PICK e \in DOMAIN exchanges :
          /\ IsCurrent(lane, e)
          /\ Load(r, [Idle EXCEPT !.step = "expireOldCodes", !.lane = lane,
                                  !.ex = e, !.was = exchanges[e].status])
    BY <1>4 DEF IssueCode
  <2>2. IsActive(e) BY <2>1 DEF IsCurrent
  <2> QED BY <1>load, <2>1, <2>2 DEF Rests, OpenSteps, CodeSteps
<1>5. ASSUME NEW lane \in Lane, VerifyCode(r, lane) PROVE Rests(req'[r])
  <2>1. PICK e \in DOMAIN exchanges, v \in DOMAIN verifications,
             step \in {"expireCode", "countAttempt", "confirmExchange"} :
          /\ IsPending(e, v)
          /\ Load(r, [Idle EXCEPT !.step = step, !.lane = lane, !.ex = e,
                       !.code = v, !.attempts = verifications[v].attempts + 1])
    BY <1>5 DEF VerifyCode
  <2>2. verifications[v].status = "PENDING" BY <2>1 DEF IsPending
  <2> QED BY <1>load, <2>1, <2>2 DEF Rests, OpenSteps, CodeSteps
<1>6. ASSUME NEW lane \in Lane, StartCancelCode(r, lane) PROVE Rests(req'[r])
  <2>1. PICK e, v : /\ IsPending(e, v)
                    /\ Load(r, [Idle EXCEPT !.step = "cancelCode", !.lane = lane,
                                            !.ex = e, !.code = v])
    BY <1>6 DEF StartCancelCode
  <2>2. verifications[v].status = "PENDING" BY <2>1 DEF IsPending
  <2> QED BY <1>load, <2>1, <2>2 DEF Rests, OpenSteps, CodeSteps
<1>7. ASSUME NEW lane \in Lane, StartWithdraw(r, lane) PROVE Rests(req'[r])
  <2>1. PICK e \in DOMAIN exchanges :
          /\ IsCurrent(lane, e)
          /\ Load(r, [Idle EXCEPT !.step = "withdraw", !.lane = lane, !.ex = e])
    BY <1>7 DEF StartWithdraw
  <2>2. IsActive(e) BY <2>1 DEF IsCurrent
  <2> QED BY <1>load, <2>1, <2>2 DEF Rests, OpenSteps, CodeSteps
<1>8. CASE EnterDeliveryCode(r)
  <2>1. PICK v \in DOMAIN verifications, step \in {"expireCode", "confirmDelivery"} :
          /\ verifications[v].status = "PENDING"
          /\ Load(r, [Idle EXCEPT !.lane = exchanges[verifications[v].ex].lane,
                     !.ex = verifications[v].ex, !.code = v, !.step = step])
    BY <1>8 DEF EnterDeliveryCode
  <2> QED BY <1>load, <2>1 DEF Rests, OpenSteps, CodeSteps
<1>9. CASE StartFailDelivery(r)
  <2>1. PICK e \in DOMAIN exchanges :
          /\ exchanges[e].status = "IN_PROGRESS"
          /\ Load(r, [Idle EXCEPT !.step = "failDelivery", !.ex = e])
    BY <1>9 DEF StartFailDelivery
  <2> QED BY <1>load, <2>1 DEF Rests, OpenSteps, CodeSteps, IsActive, ActiveStatus
<1>10. CASE StartReviewCase(r)
  <2>1. PICK step \in {"verifyCase", "rejectCase"} : Load(r, [Idle EXCEPT !.step = step])
    BY <1>10 DEF StartReviewCase
  <2>2. found.status = "SUBMITTED" BY <1>10 DEF StartReviewCase
  <2> QED BY <1>load, <2>1, <2>2 DEF Rests, OpenSteps, CodeSteps
<1>11. CASE SetSubmission(r)
  <2>1. PICK m :
          \/ /\ NoActive(Inbound)
             /\ Load(r, [Idle EXCEPT !.step = "createExchange", !.lane = Inbound,
                                     !.method = m])
          \/ \E e : Load(r, [Idle EXCEPT !.step = "updateSubmission",
                               !.lane = Inbound, !.ex = e, !.method = m])
    BY <1>11 DEF SetSubmission
  <2>2. found.status = "DRAFT" /\ Inbound \notin Claim
    BY <1>11, ExchangeAssumption DEF SetSubmission
  <2>3. CASE NoActive(Inbound) /\ Load(r, [Idle EXCEPT !.step = "createExchange",
                                             !.lane = Inbound, !.method = m])
    BY <1>load, <2>2, <2>3 DEF Rests, OpenSteps, CodeSteps
  <2>4. ASSUME NEW e, Load(r, [Idle EXCEPT !.step = "updateSubmission", !.lane = Inbound,
                                           !.ex = e, !.method = m])
        PROVE  Rests(req'[r])
    BY <1>load, <2>4 DEF Rests, OpenSteps, CodeSteps
  <2> QED BY <2>1, <2>3, <2>4
<1> QED BY <1>1, <1>2, <1>3, <1>4, <1>5, <1>6, <1>7, <1>8, <1>9, <1>10, <1>11

LEMMA HandlersRestNext ==
  ASSUME ExchangeAssumption, OneAtATime, RowsOK, SerialRows, HandlersRest, [Next]_vars
  PROVE  HandlersRest'
<1>0. req \in [Req -> Request] BY DEF RowsOK, TypeOK
<1>idle. ASSUME NEW r \in Req, Done(r) PROVE HandlersRest'
  <2>1. \A p \in Req : req'[p].step = "idle"
    BY <1>0, <1>idle DEF OneAtATime, Done, Idle
  <2> QED BY <2>1 DEF HandlersRest, Rests, OpenSteps, CodeSteps
<1>sole. ASSUME NEW r \in Req, Rests(req[r])' PROVE HandlersRest'
  BY <1>sole DEF HandlersRest, OneAtATime
<1>goto. ASSUME NEW r \in Req, NEW step, Goto(r, step)
         PROVE  req'[r].step = step /\ req'[r].ex = req[r].ex
  BY <1>0, <1>goto DEF Goto, Request
<1>1. ASSUME NEW r \in Req, Handler(r) PROVE HandlersRest'
  <2>1. CASE \/ ScheduleInbound(r) \/ SetSubmission(r)
             \/ \E c \in Claim : ScheduleOutbound(r, c) \/ UpdateOutbound(r, c)
             \/ \E lane \in Lane : \/ IssueCode(r, lane) \/ VerifyCode(r, lane)
                                   \/ StartCancelCode(r, lane)
                                   \/ StartWithdraw(r, lane)
             \/ EnterDeliveryCode(r) \/ StartFailDelivery(r) \/ StartReviewCase(r)
    <3>1. UNCHANGED <<world, money, exchanges, verifications>>
      BY <2>1, StartsKeepRows
    <3>2. Rests(req'[r]) BY <2>1, StartsRest, ExchangeAssumption
    <3>3. Rests(req[r])' BY <3>1, <3>2 DEF Rests, NoActive, IsActive, world, money
    <3> QED BY <1>sole, <3>3
  <2>2. CASE ExpireOldCodes(r)
    <3>1. /\ req'[r].step = "createCode" /\ req'[r].ex = req[r].ex
          /\ exchanges' = exchanges
          /\ req[r].ex \in DOMAIN exchanges /\ IsActive(req[r].ex)
      BY <1>goto, <2>2 DEF ExpireOldCodes, HandlersRest, Rests, At, OpenSteps
    <3>2. \A v \in DOMAIN verifications : verifications[v] \in Verification
      BY DEF RowsOK, TypeOK
    <3>3. \A v \in DOMAIN verifications' :
            verifications'[v].ex = req[r].ex => verifications'[v].status # "PENDING"
      BY <2>2, <3>2 DEF ExpireOldCodes, ResolvePending, Verification
    <3>4. Rests(req[r])' BY <3>1, <3>3 DEF Rests, IsActive, OpenSteps, CodeSteps
    <3> QED BY <1>sole, <3>4
  <2>3. CASE CreateCode(r)
    <3>1. CASE Done(r) BY <1>idle, <3>1
    <3>2. CASE Goto(r, "markInProgress")
      <4>1. /\ req'[r].step = "markInProgress" /\ req'[r].ex = req[r].ex
            /\ exchanges' = exchanges
            /\ req[r].ex \in DOMAIN exchanges /\ IsActive(req[r].ex)
        BY <1>goto, <2>3, <3>2 DEF CreateCode, HandlersRest, Rests, At, OpenSteps
      <4>2. Rests(req[r])' BY <4>1 DEF Rests, IsActive, OpenSteps, CodeSteps
      <4> QED BY <1>sole, <4>2
    <3> QED BY <2>3, <3>1, <3>2 DEF CreateCode
  <2>4. CASE CreateExchange(r)
    <3>1. CASE Done(r) BY <1>idle, <3>1
    <3>2. CASE Goto(r, "addDeliveryFee")
      <4>1. req'[r].step = "addDeliveryFee" BY <1>goto, <3>2
      <4>2. Rests(req[r])' BY <4>1 DEF Rests, OpenSteps, CodeSteps
      <4> QED BY <1>sole, <4>2
    <3> QED BY <2>4, <3>1, <3>2 DEF CreateExchange
  <2>5. CASE \/ AddDeliveryFee(r) \/ UpdateExchange(r) \/ MarkInProgress(r)
             \/ UpdateSubmission(r)
             \/ ExpireCode(r) \/ CountAttempt(r) \/ ConfirmExchange(r)
             \/ ConfirmDelivery(r) \/ CancelCode(r) \/ Withdraw(r)
             \/ FailDelivery(r) \/ ReviewCase(r) \/ Die(r)
    <3>1. Done(r)
      BY <2>5 DEF AddDeliveryFee, UpdateExchange, UpdateSubmission, MarkInProgress, ExpireCode,
         CountAttempt, ConfirmExchange, ConfirmDelivery, CancelCode, Withdraw,
         FailDelivery, ReviewCase, Die
    <3> QED BY <1>idle, <3>1
  <2> QED BY <1>1, <2>1, <2>2, <2>3, <2>4, <2>5 DEF Handler
<1>2. ASSUME NEW v \in DOMAIN verifications, CodeLapses(v) PROVE HandlersRest'
  <2>1. verifications[v] \in Verification BY DEF RowsOK, TypeOK
  <2>2. /\ DOMAIN verifications' = DOMAIN verifications
        /\ \A w \in DOMAIN verifications :
             /\ verifications'[w].ex = verifications[w].ex
             /\ verifications'[w].status = verifications[w].status
        /\ UNCHANGED <<world, money, exchanges, req>>
    BY <1>2, <2>1 DEF CodeLapses, Verification
  <2>3. ASSUME NEW r \in Req PROVE Rests(req[r])'
    <3>1. Rests(req[r]) /\ SnapshotOK(req[r]) BY DEF HandlersRest, RowsOK
    <3> QED BY <2>2, <3>1
          DEF Rests, SnapshotOK, NoActive, IsActive, world, money
  <2> QED BY <2>3 DEF HandlersRest
<1>3. ASSUME NEW c \in Claim, VerifyClaim(c) \/ RejectClaim(c) \/ PayInvoice(c)
      PROVE  HandlersRest'
  <2>1. claim \in [Claim -> {"PENDING", "VERIFIED", "REJECTED"}] BY DEF RowsOK, TypeOK
  <2>2. /\ \A d \in Claim : claim[d] # "PENDING" => claim'[d] # "PENDING"
        /\ UNCHANGED <<world, exchanges, verifications, req>>
    BY <1>3, <2>1 DEF VerifyClaim, RejectClaim, PayInvoice
  <2> QED BY <2>2 DEF HandlersRest, Rests, NoActive, IsActive, world
<1>4. CASE UNCHANGED vars
  BY <1>4 DEF vars, HandlersRest, Rests, NoActive, IsActive
<1>5. CASE Operates
  <2>1. found'.status = found.status /\ UNCHANGED <<claim, exchanges, verifications, req>>
    BY <1>5, OperationMoves DEF money
  <2> QED BY <2>1 DEF HandlersRest, Rests, NoActive, IsActive
<1> QED BY <1>1, <1>2, <1>3, <1>4, <1>5 DEF Next, Operates

-----------------------------------------------------------------------------
(* The case *)

LEMMA LogGrows ==
  ASSUME RowsOK, NEW x \in FoundStatus \X FoundStatus, caseLog' = Append(caseLog, x)
  PROVE  \A status : Logged(status)' <=> Logged(status) \/ status = x[2]
<1>1. caseLog \in Seq(FoundStatus \X FoundStatus) BY DEF RowsOK, TypeOK
<1>2. /\ DOMAIN caseLog' = DOMAIN caseLog \cup {Len(caseLog) + 1}
      /\ \A i \in DOMAIN caseLog : caseLog'[i] = caseLog[i]
      /\ caseLog'[Len(caseLog) + 1] = x
  BY <1>1, AppendRows
<1> QED BY <1>2 DEF Logged

LEMMA CompletionKeepsCase ==
  ASSUME RowsOK, SerialRows, SerialCase, NEW r \in Req, Rests(req[r]), Completes(r)
  PROVE  /\ SerialCase'
         /\ req[r].lane = Inbound => found.status = "DRAFT"
         /\ req[r].lane # Inbound => req[r].lane \in Claim /\ found.status \in Passed
<1> DEFINE e == req[r].ex  lane == req[r].lane
<1>1. /\ lane \in Lane /\ e \in DOMAIN exchanges /\ exchanges[e].lane = lane
      /\ caseLog' = Append(caseLog, LoggedMove(lane)) /\ lost' = LostAfter(lane)
  BY CompletionConfirms
<1>2. PICK s \in Station : found' = FoundAfter(lane, s) BY CompletionConfirms
<1>3. /\ DOMAIN exchanges' = DOMAIN exchanges
      /\ \A f \in DOMAIN exchanges : /\ exchanges'[f].lane = exchanges[f].lane
                                     /\ f # e => exchanges'[f] = exchanges[f]
      /\ exchanges'[e].status = "COMPLETED"
  BY CompletionRows
<1>4. exchanges[e].status \in ActiveStatus BY CompletionKeepsRows
<1>5. claim' = claim /\ \A c \in Claim : c # Inbound
  BY ExchangeAssumption DEF Completes, ConfirmExchange, ConfirmDelivery, money
<1>6. /\ lane = Inbound => found.status = "DRAFT"
      /\ lane # Inbound => lane \in Claim /\ claim[lane] # "PENDING" /\ found.status \in Passed
  BY <1>1, <1>4 DEF SerialCase, StagesAgree, IsActive, Lane
<1>7. LoggedMove(lane) \in FoundStatus \X FoundStatus BY DEF LoggedMove, FoundStatus
<1>8. \A status : Logged(status)' <=> Logged(status) \/ status = LoggedMove(lane)[2]
  BY <1>1, <1>7, LogGrows
<1> HIDE DEF e, lane
<1>9. CaseAgrees'
  <2>1. CASE lane = Inbound
    BY <1>2, <1>6, <1>8, <2>1 DEF SerialCase, CaseAgrees, FoundAfter, LoggedMove, Passed
  <2>2. CASE lane # Inbound
    BY <1>2, <1>6, <1>8, <2>2 DEF SerialCase, CaseAgrees, FoundAfter, LoggedMove, Passed
  <2> QED BY <2>1, <2>2
<1>10. StagesAgree'
  <2>1. ASSUME NEW f \in DOMAIN exchanges, exchanges'[f].lane = Inbound,
               exchanges'[f].status \in ActiveStatus
        PROVE  found'.status = "DRAFT"
    <3>1. f # e /\ exchanges[f].lane = Inbound /\ exchanges[f].status \in ActiveStatus
      BY <1>3, <2>1 DEF ActiveStatus
    <3>2. found.status = "DRAFT" BY <3>1 DEF SerialCase, StagesAgree, IsActive
    <3>3. lane = Inbound BY <1>6, <3>2 DEF Passed
    <3> QED BY <1>1, <1>4, <3>1, <3>3 DEF SerialRows, OneActiveExchange, IsActive
  <2>2. ASSUME NEW c \in Claim, claim[c] # "PENDING" PROVE found'.status \in Passed
    <3>1. found.status \in Passed BY <2>2 DEF SerialCase, StagesAgree
    <3>2. lane # Inbound BY <1>6, <3>1 DEF Passed
    <3> QED BY <1>2, <3>2 DEF FoundAfter, Passed
  <2>3. \A f \in DOMAIN exchanges :
          exchanges'[f].lane \in Claim => claim[exchanges'[f].lane] # "PENDING"
    BY <1>3 DEF SerialCase, StagesAgree
  <2> QED BY <1>3, <1>5, <2>1, <2>2, <2>3 DEF StagesAgree, IsActive
<1>11. ClosedByHandover'
  <2>1. ASSUME NEW c \in Claim
        PROVE  lost'[c] = "COMPLETED" <=> \E f \in DOMAIN exchanges :
                 exchanges'[f].lane = c /\ exchanges'[f].status = "COMPLETED"
    <3>1. CASE c = lane
      BY <1>1, <1>3, <3>1 DEF LostAfter
    <3>2. CASE c # lane
      <4>1. \A f \in DOMAIN exchanges : exchanges[f].lane = c => f # e
        BY <1>1, <3>2
      <4>2. lost'[c] = lost[c] BY <1>1, <3>2 DEF LostAfter
      <4>3. lost[c] = "COMPLETED" <=> \E f \in DOMAIN exchanges :
              exchanges[f].lane = c /\ exchanges[f].status = "COMPLETED"
        BY DEF SerialCase, ClosedByHandover
      <4> QED BY <1>3, <4>1, <4>2, <4>3
    <3> QED BY <3>1, <3>2
  <2>2. found'.status = "COMPLETED" <=> \E c \in Claim : lost'[c] = "COMPLETED"
    <3>1. CASE lane = Inbound
      <4>1. \A c \in Claim : lost'[c] = lost[c] BY <1>1, <1>5, <3>1 DEF LostAfter
      <4>2. ~\E c \in Claim : lost[c] = "COMPLETED"
        BY <1>6, <3>1 DEF SerialCase, ClosedByHandover
      <4> QED BY <1>2, <3>1, <4>1, <4>2 DEF FoundAfter
    <3>2. CASE lane # Inbound
      <4>1. lost'[lane] = "COMPLETED" BY <1>1, <1>6, <3>2 DEF LostAfter
      <4> QED BY <1>2, <1>6, <3>2, <4>1 DEF FoundAfter
    <3> QED BY <3>1, <3>2
  <2> QED BY <1>3, <2>1, <2>2 DEF ClosedByHandover
<1> QED BY <1>6, <1>9, <1>10, <1>11 DEF SerialCase, lane

LEMMA ReviewKeepsCase ==
  ASSUME RowsOK, SerialCase, NEW r \in Req, Rests(req[r]), ReviewCase(r)
  PROVE  SerialCase'
<1> DEFINE to == IF At(r, "verifyCase") THEN "VERIFIED" ELSE "REJECTED"
<1>1. found.status = "SUBMITTED" BY DEF Rests, ReviewCase, At
<1>2. /\ found' = [found EXCEPT !.status = to]
      /\ caseLog' = Append(caseLog, <<"SUBMITTED", to>>)
      /\ UNCHANGED <<claim, lost, operated, exchanges>>
  BY DEF ReviewCase, money
<1>3. /\ found'.status = to /\ found'.custody = found.custody
      /\ to \in {"VERIFIED", "REJECTED"}
  BY <1>2 DEF RowsOK, TypeOK
<1>4. \A status : Logged(status)' <=> Logged(status) \/ status = to
  <2>1. <<"SUBMITTED", to>> \in FoundStatus \X FoundStatus BY DEF FoundStatus
  <2> QED BY <1>2, <2>1, LogGrows
<1> HIDE DEF to
<1>5. CaseAgrees' BY <1>1, <1>2, <1>3, <1>4 DEF SerialCase, CaseAgrees, Passed
<1>6. StagesAgree'
  BY <1>1, <1>2, <1>3 DEF SerialCase, StagesAgree, IsActive, Passed
<1>7. ClosedByHandover'
  BY <1>1, <1>2, <1>3 DEF SerialCase, ClosedByHandover
<1> QED BY <1>5, <1>6, <1>7 DEF SerialCase

LEMMA SerialCaseNext ==
  ASSUME ExchangeAssumption, RowsOK, SerialRows, SerialCase, HandlersRest, [Next]_vars
  PROVE  SerialCase'
<1>1. \A r \in Req : Rests(req[r]) BY DEF HandlersRest
<1>same. ASSUME UNCHANGED world
         PROVE  /\ CaseAgrees' /\ UNCHANGED <<found, lost>>
                /\ EverVerified => found.status \in Passed
  BY <1>same DEF world, SerialCase, CaseAgrees, Logged, EverVerified
<1>2. CASE Settles /\ UNCHANGED world /\ ClaimsAdvance
  <2>1. /\ DOMAIN exchanges' = DOMAIN exchanges
        /\ \A e \in DOMAIN exchanges :
             /\ exchanges'[e].lane = exchanges[e].lane
             /\ exchanges'[e].status \in ActiveStatus => exchanges[e].status \in ActiveStatus
             /\ exchanges'[e].status = "COMPLETED" <=> exchanges[e].status = "COMPLETED"
    BY <1>2 DEF Settles, ActiveStatus
  <2>2. StagesAgree'
    BY <1>2, <1>same, <2>1 DEF SerialCase, StagesAgree, IsActive, ClaimsAdvance
  <2>3. ClosedByHandover' BY <1>2, <1>same, <2>1 DEF SerialCase, ClosedByHandover
  <2> QED BY <1>2, <1>same, <2>2, <2>3 DEF SerialCase
<1>3. ASSUME NEW r \in Req, CreateExchange(r) PROVE SerialCase'
  <2> DEFINE n == Len(exchanges) + 1
             row == [lane |-> req[r].lane, method |-> req[r].method,
                     status |-> "SCHEDULED", completedBy |-> None]
  <2>1. row \in Exchange
    BY <1>3 DEF RowsOK, TypeOK, CreateExchange, At, SnapshotOK, Exchange, ExchangeStatus,
           ActiveStatus
  <2>2. exchanges \in Seq(Exchange) /\ exchanges' = Append(exchanges, row)
    BY <1>3 DEF RowsOK, TypeOK, CreateExchange
  <2>3. /\ DOMAIN exchanges' = DOMAIN exchanges \cup {n}
        /\ \A e \in DOMAIN exchanges : exchanges'[e] = exchanges[e]
        /\ exchanges'[n] = row
    BY <2>1, <2>2, AppendRows
  <2>4. /\ req[r].lane = Inbound => found.status = "DRAFT"
        /\ req[r].lane \in Claim => claim[req[r].lane] # "PENDING"
    BY <1>1, <1>3 DEF Rests, CreateExchange, At
  <2>5. row.lane = req[r].lane /\ row.status = "SCHEDULED" OBVIOUS
  <2>6. UNCHANGED <<world, claim>> BY <1>3 DEF CreateExchange, money
  <2> HIDE DEF n, row
  <2>7. StagesAgree'
    BY <1>same, <2>3, <2>4, <2>5, <2>6 DEF SerialCase, StagesAgree, IsActive
  <2>8. ClosedByHandover'
    BY <1>same, <2>3, <2>5, <2>6 DEF SerialCase, ClosedByHandover
  <2> QED BY <1>same, <2>6, <2>7, <2>8 DEF SerialCase
<1>4. ASSUME NEW r \in Req, CreateCode(r) PROVE SerialCase'
  <2>1. UNCHANGED <<world, claim, exchanges>> BY <1>4 DEF CreateCode, money
  <2>2. StagesAgree' BY <1>same, <2>1 DEF SerialCase, StagesAgree, IsActive
  <2>3. ClosedByHandover' BY <1>same, <2>1 DEF SerialCase, ClosedByHandover
  <2> QED BY <1>same, <2>1, <2>2, <2>3 DEF SerialCase
<1>5. CASE Operates /\ Settles /\ UNCHANGED claim
  <2>1. operated' /\ found'.status = found.status /\ UNCHANGED <<caseLog, lost, exchanges>>
    BY <1>5, OperationMoves
  <2>2. CaseAgrees' BY <2>1 DEF SerialCase, CaseAgrees, Logged
  <2>3. StagesAgree' BY <1>5, <2>1 DEF SerialCase, StagesAgree, IsActive
  <2>4. ClosedByHandover' BY <2>1 DEF SerialCase, ClosedByHandover
  <2> QED BY <2>2, <2>3, <2>4 DEF SerialCase
<1> QED BY <1>1, <1>2, <1>3, <1>4, <1>5, CompletionKeepsCase, ReviewKeepsCase, KindsOfSteps

-----------------------------------------------------------------------------
LEMMA InitSerial == ASSUME ExchangeAssumption, Init PROVE SerialInv
<1>1. PICK m : exchanges = <<[lane |-> Inbound, method |-> m, status |-> "SCHEDULED",
                              completedBy |-> None]>>
  BY DEF Init
<1>2. /\ DOMAIN exchanges = {1} /\ exchanges[1].lane = Inbound
      /\ exchanges[1].status = "SCHEDULED" /\ exchanges[1].completedBy = None
      /\ DOMAIN verifications = {} /\ DOMAIN caseLog = {}
      /\ Inbound \notin Claim
  BY <1>1, ExchangeAssumption DEF Init
<1>3. HandlersRest BY DEF Init, Idle, HandlersRest, Rests, OpenSteps, CodeSteps
<1>4. SerialRows
  BY <1>2 DEF SerialRows, OneActiveExchange, OneLiveCode, ConfirmedOnce, CompletedBySomeone
<1>5. SerialCase
  BY <1>2 DEF Init, SerialCase, CaseAgrees, StagesAgree, ClosedByHandover, Logged, Passed
<1> QED BY <1>3, <1>4, <1>5, InitRows DEF SerialInv

LEMMA NextSerial ==
  ASSUME ExchangeAssumption, OneAtATime, SerialInv, [Next]_vars PROVE SerialInv'
BY NextRows, HandlersRestNext, SerialRowsNext, SerialCaseNext DEF SerialInv

LEMMA OneConfirmed ==
  ASSUME RowsOK, SerialRows PROVE CompletedByItsCode
<1> SUFFICES ASSUME NEW e \in DOMAIN exchanges
             PROVE  exchanges[e].status = "COMPLETED" <=>
                      Cardinality({v \in DOMAIN verifications :
                        verifications[v].ex = e /\ verifications[v].status = "CONFIRMED"}) = 1
  BY DEF CompletedByItsCode
<1> DEFINE V == {v \in DOMAIN verifications :
                   verifications[v].ex = e /\ verifications[v].status = "CONFIRMED"}
<1>1. IsFiniteSet(V)
  <2>1. DOMAIN verifications = 1..Len(verifications) /\ Len(verifications) \in Nat
    BY DEF RowsOK, TypeOK
  <2>2. IsFiniteSet(DOMAIN verifications) BY <2>1, FS_Interval
  <2> QED BY <2>2, FS_Subset
<1>2. ASSUME exchanges[e].status = "COMPLETED" PROVE \E v : V = {v}
  <2>1. PICK v \in DOMAIN verifications :
          verifications[v].ex = e /\ verifications[v].status = "CONFIRMED"
    BY <1>2 DEF SerialRows, ConfirmedOnce
  <2>2. \A w \in V : w = v BY <2>1 DEF SerialRows, ConfirmedOnce
  <2>3. v \in V BY <2>1
  <2>4. V = {v} BY <2>2, <2>3
  <2> QED BY <2>4
<1>3. (\E v : V = {v}) => exchanges[e].status = "COMPLETED"
  BY DEF SerialRows, ConfirmedOnce
<1> QED BY <1>1, <1>2, <1>3, FS_Singleton

\* When handlers do not overlap, there is never more than one exchange of a lane to
\* look up nor more than one code to enter, and a completed exchange has exactly one
\* confirmed code, whatever dies or lapses between two statements.
THEOREM SerialCodesAreSound == ASSUME OneAtATime PROVE Spec => []CodesAreSound
<1>1. Init => SerialInv BY InitSerial, ExchangeAssumption
<1>2. SerialInv /\ [Next]_vars => SerialInv' BY NextSerial, ExchangeAssumption, OneAtATime
<1>3. SerialInv => CodesAreSound
  BY OneConfirmed DEF SerialInv, SerialRows, CodesAreSound
<1> QED BY <1>1, <1>2, <1>3, PTL DEF Spec

-----------------------------------------------------------------------------
(* The reward *)

\* The exchanges of a claim that staff completed.
StaffHandovers(c) ==
  {e \in DOMAIN exchanges :
     exchanges[e].lane = c /\ exchanges[e].completedBy = "staff"}

LEMMA HandoversFinite ==
  ASSUME RowsOK, NEW c \in Claim PROVE IsFiniteSet(StaffHandovers(c))
<1>1. DOMAIN exchanges = 1..Len(exchanges) /\ Len(exchanges) \in Nat
  BY DEF RowsOK, TypeOK
<1>2. IsFiniteSet(DOMAIN exchanges) BY <1>1, FS_Interval
<1> QED BY <1>2, FS_Subset DEF StaffHandovers

\* Staff complete an exchange nobody completed, and pay for it in the same transaction.
LEMMA CompletionPaysOnce ==
  ASSUME ExchangeAssumption, RowsOK, SerialRows, RewardPerHandover,
         NEW r \in Req, Rests(req[r]), Completes(r)
  PROVE  RewardPerHandover'
<1> DEFINE e == req[r].ex  lane == req[r].lane
<1>1. /\ e \in DOMAIN exchanges /\ exchanges[e].lane = lane
      /\ DOMAIN exchanges' = DOMAIN exchanges
      /\ \A f \in DOMAIN exchanges : /\ exchanges'[f].lane = exchanges[f].lane
                                     /\ f # e => exchanges'[f] = exchanges[f]
      /\ exchanges'[e].completedBy = IF ConfirmExchange(r) THEN "staff" ELSE "claimant"
  BY CompletionRows, CompletionConfirms
<1>2. exchanges[e].completedBy # "staff"
  BY CompletionKeepsRows, ExchangeAssumption
<1> HIDE DEF e, lane
<1> SUFFICES ASSUME NEW c \in Claim
             PROVE  disbursed'[c] = Cardinality(StaffHandovers(c)')
  BY DEF RewardPerHandover, StaffHandovers
<1>3. disbursed[c] = Cardinality(StaffHandovers(c))
  BY DEF RewardPerHandover, StaffHandovers
<1>4. CASE ConfirmExchange(r) /\ c = lane
  <2>1. StaffHandovers(c)' = StaffHandovers(c) \cup {e}
    BY <1>1, <1>4 DEF StaffHandovers
  <2>2. e \notin StaffHandovers(c) BY <1>2 DEF StaffHandovers
  <2>3. disbursed'[c] = disbursed[c] + 1 BY <1>4 DEF ConfirmExchange, lane
  <2> QED BY <1>3, <2>1, <2>2, <2>3, HandoversFinite, FS_AddElement
<1>5. CASE ~(ConfirmExchange(r) /\ c = lane)
  <2>1. StaffHandovers(c)' = StaffHandovers(c)
    BY <1>1, <1>2, <1>5 DEF StaffHandovers
  <2>2. disbursed'[c] = disbursed[c]
    BY <1>5 DEF Completes, ConfirmExchange, ConfirmDelivery, lane
  <2> QED BY <1>3, <2>1, <2>2
<1> QED BY <1>4, <1>5

LEMMA RewardNext ==
  ASSUME ExchangeAssumption, RowsOK, SerialRows, HandlersRest, RewardPerHandover, [Next]_vars
  PROVE  RewardPerHandover'
<1>rest. \A r \in Req : Rests(req[r]) BY DEF HandlersRest
<1>same. ASSUME disbursed' = disbursed,
                \A c \in Claim : StaffHandovers(c)' = StaffHandovers(c)
         PROVE  RewardPerHandover'
  BY <1>same DEF RewardPerHandover, StaffHandovers
<1>1. CASE Settles /\ UNCHANGED world
  <2>1. \A c \in Claim : StaffHandovers(c)' = StaffHandovers(c)
    BY <1>1 DEF Settles, StaffHandovers
  <2> QED BY <1>1, <1>same, <2>1 DEF world
<1>2. ASSUME NEW r \in Req, CreateExchange(r) PROVE RewardPerHandover'
  <2> DEFINE n == Len(exchanges) + 1
             row == [lane |-> req[r].lane, method |-> req[r].method,
                     status |-> "SCHEDULED", completedBy |-> None]
  <2>1. row \in Exchange
    BY <1>2 DEF RowsOK, TypeOK, CreateExchange, At, SnapshotOK, Exchange, ExchangeStatus,
           ActiveStatus
  <2>2. exchanges \in Seq(Exchange) /\ exchanges' = Append(exchanges, row)
    BY <1>2 DEF RowsOK, TypeOK, CreateExchange
  <2>3. /\ DOMAIN exchanges' = DOMAIN exchanges \cup {n}
        /\ \A e \in DOMAIN exchanges : exchanges'[e] = exchanges[e]
        /\ exchanges'[n] = row
    BY <2>1, <2>2, AppendRows
  <2>4. row.completedBy = None /\ disbursed' = disbursed
    BY <1>2 DEF CreateExchange, world
  <2> HIDE DEF n, row
  <2>5. \A c \in Claim : StaffHandovers(c)' = StaffHandovers(c)
    BY <2>3, <2>4, ExchangeAssumption DEF StaffHandovers
  <2> QED BY <1>same, <2>4, <2>5
<1>3. ASSUME NEW r \in Req, CreateCode(r) \/ ReviewCase(r) PROVE RewardPerHandover'
  <2>1. UNCHANGED <<disbursed, exchanges>> BY <1>3 DEF CreateCode, ReviewCase, world
  <2> QED BY <1>same, <2>1 DEF StaffHandovers
<1>4. CASE Operates
  <2>1. UNCHANGED <<disbursed, exchanges>> BY <1>4, OperationMoves
  <2> QED BY <1>same, <2>1 DEF StaffHandovers
<1> QED BY <1>rest, <1>1, <1>2, <1>3, <1>4, CompletionPaysOnce, KindsOfSteps

\* When handlers do not overlap, the finder is paid once for every hand-over that staff
\* completed and for no other one, whatever dies or lapses in between: the reward is
\* written with the completion, and a completed exchange is never completed again.
THEOREM SerialRewardPerHandover == ASSUME OneAtATime PROVE Spec => []RewardPerHandover
<1>1. Init => SerialInv /\ RewardPerHandover
  <2> SUFFICES ASSUME Init PROVE RewardPerHandover
    BY InitSerial, ExchangeAssumption
  <2>1. DOMAIN exchanges = {1} /\ exchanges[1].completedBy = None BY DEF Init
  <2>2. \A c \in Claim : StaffHandovers(c) = {} BY <2>1, ExchangeAssumption DEF StaffHandovers
  <2> QED BY <2>2, FS_EmptySet DEF Init, RewardPerHandover, StaffHandovers
<1>2. SerialInv /\ RewardPerHandover /\ [Next]_vars => (SerialInv /\ RewardPerHandover)'
  BY NextSerial, RewardNext, ExchangeAssumption, OneAtATime DEF SerialInv
<1> QED BY <1>1, <1>2, PTL DEF Spec

-----------------------------------------------------------------------------
(* The journey *)

\* With the lost case of a claim closed, the claim was decided.
LEMMA ClosedWasDecided ==
  ASSUME SerialCase, NEW c \in Claim, lost[c] = "COMPLETED" PROVE c \in Decided
BY DEF SerialCase, ClosedByHandover, StagesAgree, Decided

\* A document changes hands as the journey says, when no second claim is decided.
LEMMA CompletionJourney ==
  ASSUME ExchangeAssumption, RowsOK, SerialRows, SerialCase, NEW r \in Req, Rests(req[r]),
         Completes(r), rivals' = rivals, ~rivals, \A c, d \in Decided' : c = d
  PROVE  Journey!Next
<1> DEFINE lane == req[r].lane
           Closed == {c \in Claim : ~rivals /\ lost[c] = "COMPLETED"}
           Rewards == [c \in Claim |-> IF rivals THEN 0 ELSE disbursed[c]]
<1>1. /\ lane \in Lane /\ lost' = LostAfter(lane)
      /\ \E s \in Station : found' = FoundAfter(lane, s)
  BY CompletionConfirms
<1>2. /\ SerialCase'
      /\ lane = Inbound => found.status = "DRAFT"
      /\ lane # Inbound => lane \in Claim /\ found.status \in Passed
  BY CompletionKeepsCase
<1>3. \/ /\ ConfirmExchange(r)
         /\ disbursed' = [c \in Claim |-> IF c = lane THEN disbursed[c] + 1 ELSE disbursed[c]]
      \/ ConfirmDelivery(r) /\ disbursed' = disbursed
  BY DEF Completes, ConfirmExchange, ConfirmDelivery
<1> HIDE DEF lane
<1>4. CASE lane = Inbound
  <2>1. /\ found'.custody = "IN_CUSTODY"
        /\ found'.status = "SUBMITTED" /\ found.status = "DRAFT"
    BY <1>1, <1>2, <1>4 DEF FoundAfter
  <2>2. Place' = "station" /\ Stage = "reported" /\ Stage' = "received"
    BY <2>1 DEF Place, Stage
  <2>3. Closed' = Closed
    BY <1>1, <1>4, ExchangeAssumption DEF LostAfter
  <2>4. Rewards' = Rewards BY <1>3, <1>4, ExchangeAssumption
  <2>5. Journey!HandIn BY <2>2, <2>3, <2>4 DEF Journey!HandIn
  <2> QED BY <2>5 DEF Journey!Next
<1>5. CASE lane # Inbound
  <2>1. /\ lane \in Claim /\ found.status \in Passed
        /\ found'.custody = "HANDED_OVER" /\ found'.status = "COMPLETED"
    BY <1>1, <1>2, <1>5 DEF FoundAfter
  <2>2. Place' = "claimant" /\ Stage' = "delivered"
    BY <2>1 DEF Place, Stage
  <2>3. Closed' = Closed \cup {lane}
    BY <1>1, <2>1 DEF LostAfter
  <2>4. \/ Stage = "verified"
        \/ Stage = "delivered" /\ lane \in Closed
    <3>1. CASE found.status = "VERIFIED" BY <3>1 DEF Stage
    <3>2. CASE found.status = "COMPLETED"
      <4>1. PICK d \in Claim : lost[d] = "COMPLETED"
        BY <3>2 DEF SerialCase, ClosedByHandover
      <4>2. lost'[d] = "COMPLETED" /\ lost'[lane] = "COMPLETED"
        BY <1>1, <2>1, <4>1 DEF LostAfter
      <4>3. d \in Decided' /\ lane \in Decided'
        BY <1>2, <2>1, <4>2
           DEF SerialCase, ClosedByHandover, StagesAgree, Decided
      <4>4. lane = d BY <4>3
      <4> QED BY <2>1, <3>2, <4>1, <4>4 DEF Stage
    <3> QED BY <2>1, <3>1, <3>2 DEF Passed
  <2>5. Rewards' = [Rewards EXCEPT ![lane] = @ + 1] \/ Rewards' = Rewards
    <3>1. CASE ConfirmDelivery(r) /\ disbursed' = disbursed BY <3>1
    <3>2. CASE disbursed' = [c \in Claim |-> IF c = lane THEN disbursed[c] + 1
                                             ELSE disbursed[c]]
      BY <2>1, <3>2
    <3> QED BY <1>3, <3>1, <3>2
  <2>6. \E c \in Claim : c = lane BY <2>1
  <2>7. \E c \in Claim : Journey!HandOver(c)
    BY <2>2, <2>3, <2>4, <2>5, <2>6 DEF Journey!HandOver
  <2> QED BY <2>7 DEF Journey!Next
<1> QED BY <1>4, <1>5

LEMMA ReviewJourney ==
  ASSUME RowsOK, SerialCase, NEW r \in Req, Rests(req[r]), ReviewCase(r), rivals' = rivals,
         ~rivals
  PROVE  Journey!Next
<1> DEFINE to == IF At(r, "verifyCase") THEN "VERIFIED" ELSE "REJECTED"
<1>1. found.status = "SUBMITTED" BY DEF Rests, ReviewCase, At
<1>2. /\ found' = [found EXCEPT !.status = to] /\ UNCHANGED <<lost, disbursed>>
  BY DEF ReviewCase
<1>3. /\ found'.status = to /\ found'.custody = found.custody
      /\ to \in {"VERIFIED", "REJECTED"}
  BY <1>2 DEF RowsOK, TypeOK
<1> HIDE DEF to
<1>4. Place' = Place BY <1>3 DEF Place
<1>5. Stage = "received" /\ Stage' \in {"verified", "rejected"}
  BY <1>1, <1>3 DEF Stage
<1>6. Journey!Check BY <1>2, <1>4, <1>5 DEF Journey!Check
<1> QED BY <1>6 DEF Journey!Next

\* A batch operation takes the document elsewhere and leaves the rest of its journey.
LEMMA OperationJourney ==
  ASSUME ExchangeAssumption, RowsOK, Operates, rivals' = rivals, ~rivals
  PROVE  Journey!Next
<1>1. /\ found'.custody \in CustodyStatus \ {"WITH_FINDER"}
      /\ found'.status = found.status /\ UNCHANGED <<lost, disbursed>>
  BY OperationMoves
<1>2. Place' \in {"station", "transit", "claimant", "gone"}
  BY <1>1 DEF Place, CustodyStatus
<1>3. Stage' = Stage BY <1>1 DEF Stage
<1>4. Journey!Operate BY <1>1, <1>2, <1>3 DEF Journey!Operate
<1> QED BY <1>4 DEF Journey!Next

\* When handlers do not overlap, whatever they do, wherever they die and whatever batch
\* operations do to the document in between, it takes the journey DocumentJourney
\* promises: every step is one of its steps or changes nothing that the journey is about.
THEOREM SerialFollowsJourney == ASSUME OneAtATime PROVE RSpec => FollowsJourney
<1> DEFINE Inv == SerialInv /\ rivals \in BOOLEAN
<1>1. RInit => Inv BY InitSerial, ExchangeAssumption DEF RInit
<1>next. ASSUME SerialInv, [RNext]_<<vars, rivals>> PROVE [Next]_vars /\ rivals' = rivals
  BY <1>next DEF RNext
<1>2. Inv /\ [RNext]_<<vars, rivals>> => Inv'
  BY <1>next, NextSerial, ExchangeAssumption, OneAtATime
<1>3. RInit => Journey!Init
  <2> SUFFICES ASSUME RInit PROVE Journey!Init OBVIOUS
  <2>1. /\ found.custody = "WITH_FINDER" /\ found.status = "DRAFT"
        /\ \A c \in Claim : lost[c] = "SUBMITTED" /\ disbursed[c] = 0
    BY DEF RInit, Init
  <2>2. Place = "finder" /\ Stage = "reported" BY <2>1 DEF Place, Stage
  <2> QED BY <2>1, <2>2 DEF Journey!Init
<1>4. Inv /\ [RNext]_<<vars, rivals>> => [Journey!Next]_(Journey!vars)
  <2> SUFFICES ASSUME Inv, [RNext]_<<vars, rivals>> PROVE [Journey!Next]_(Journey!vars)
    OBVIOUS
  <2>0. [Next]_vars /\ rivals' = rivals BY <1>next
  <2>rest. \A r \in Req : Rests(req[r]) BY DEF SerialInv, HandlersRest
  <2>same. ASSUME UNCHANGED world PROVE UNCHANGED Journey!vars
    BY <2>0, <2>same DEF world, Journey!vars, Place, Stage
  <2>1. CASE rivals
    BY <2>0, <2>1 DEF Journey!vars, Place, Stage
  <2>2. CASE ~rivals
    <3>1. CASE UNCHANGED world BY <2>same, <3>1
    <3>2. ASSUME NEW r \in Req, Completes(r) PROVE Journey!Next
      <4>1. ~UNCHANGED vars
        <5>1. caseLog' = Append(caseLog, LoggedMove(req[r].lane))
          BY <3>2, CompletionConfirms DEF SerialInv
        <5>2. caseLog \in Seq(FoundStatus \X FoundStatus)
          BY DEF SerialInv, RowsOK, TypeOK
        <5> QED BY <5>1, <5>2 DEF vars
      <4>2. \A c, d \in Decided' : c = d BY <2>2, <4>1 DEF RNext
      <4> QED BY <2>0, <2>rest, <2>2, <3>2, <4>2, CompletionJourney, ExchangeAssumption
             DEF SerialInv
    <3>3. ASSUME NEW r \in Req, ReviewCase(r) PROVE Journey!Next
      BY <2>0, <2>rest, <2>2, <3>3, ReviewJourney DEF SerialInv
    <3>4. CASE Operates
      BY <2>0, <2>2, <3>4, OperationJourney, ExchangeAssumption DEF SerialInv
    <3> QED BY <2>0, <3>1, <3>2, <3>3, <3>4, WorldChanges
  <2> QED BY <2>1, <2>2
<1> QED BY <1>1, <1>2, <1>3, <1>4, PTL DEF RSpec, FollowsJourney, Journey!Spec

-----------------------------------------------------------------------------
(* What is shown of the case *)

\* There is a claim to follow whenever there are claims.
LEMMA SelectedIsOne ==
  ASSUME RowsOK, NEW order \in ClaimOrders, order # <<>>
  PROVE  Selected(order) \in DOMAIN order /\ order[Selected(order)] \in Claim
<1>1. PICK n \in 0..Cardinality(Claim) : order \in [1..n -> Claim] BY DEF ClaimOrders
<1>2. n \in Nat /\ DOMAIN order = 1..n /\ \A i \in 1..n : order[i] \in Claim BY <1>1
<1>3. 1..n # {}
  <2> SUFFICES ASSUME 1..n = {} PROVE FALSE OBVIOUS
  <2>1. n = 0 BY <1>2
  <2>2. order \in Seq(Claim) /\ Len(order) = 0 BY <1>1, <1>2, <2>1
  <2> QED BY <2>2
<1>4. \A i \in 1..n : claim[order[i]] \in {"PENDING", "VERIFIED", "REJECTED"}
  BY <1>2 DEF RowsOK, TypeOK
<1>5. \A i \in 1..n : Priority(order[i]) \in {0, 1, 2} BY <1>4 DEF Priority
<1>6. PICK p \in {0, 1, 2} : /\ \E i \in 1..n : Priority(order[i]) = p
                             /\ \A i \in 1..n : p <= Priority(order[i])
  <2>1. CASE \E i \in 1..n : Priority(order[i]) = 0 BY <1>5, <2>1
  <2>2. CASE ~(\E i \in 1..n : Priority(order[i]) = 0) /\ \E i \in 1..n : Priority(order[i]) = 1
    BY <1>5, <2>2
  <2>3. CASE \A i \in 1..n : Priority(order[i]) = 2 BY <1>3, <2>3
  <2> QED BY <1>5, <2>1, <2>2, <2>3
<1> DEFINE S == {i \in 1..n : Priority(order[i]) = p}
<1>7. S \in SUBSET (1..n) /\ S # {} BY <1>6
<1>8. PICK m \in S : \A i \in S : i <= m BY <1>2, <1>7, GreatestIndex
<1>9. \A j \in DOMAIN order : \/ Priority(order[m]) < Priority(order[j])
                              \/ Priority(order[m]) = Priority(order[j]) /\ j <= m
  BY <1>2, <1>5, <1>6, <1>8
<1>10. \E i \in DOMAIN order : \A j \in DOMAIN order :
         \/ Priority(order[i]) < Priority(order[j])
         \/ Priority(order[i]) = Priority(order[j]) /\ j <= i
  BY <1>2, <1>8, <1>9
<1>11. Selected(order) \in DOMAIN order BY <1>10 DEF Selected
<1> QED BY <1>2, <1>11

\* A claim that has an exchange has a newest one.
LEMMA NewestExchange ==
  ASSUME RowsOK, NEW c \in Claim, NEW f \in DOMAIN exchanges, exchanges[f].lane = c
  PROVE  \E e \in Handover(c) : f <= e
<1> DEFINE S == {e \in DOMAIN exchanges : exchanges[e].lane = c}
<1>1. DOMAIN exchanges = 1..Len(exchanges) /\ Len(exchanges) \in Nat
  BY DEF RowsOK, TypeOK
<1>2. S \in SUBSET (1..Len(exchanges)) /\ f \in S BY <1>1
<1>3. PICK e \in S : \A g \in S : g <= e BY <1>1, <1>2, GreatestIndex
<1> QED BY <1>2, <1>3 DEF Handover

LEMMA ShownIsSo == ASSUME ExchangeAssumption, RowsOK, SerialCase PROVE TimelineTellsTruth
<1> SUFFICES ASSUME NEW order \in ClaimOrders
             PROVE
      LET c == Followed(order)
          done == DoneEvents(c)
      IN /\ "case_submitted" \in done <=> found.status # "DRAFT"
         /\ "case_rejected" \in done <=> found.status = "REJECTED"
         /\ "case_verified" \in done <=> found.status \in {"VERIFIED", "COMPLETED"}
         /\ "case_completed" \in done =>
              found.status = "COMPLETED" /\ c \in Claim /\ lost[c] = "COMPLETED"
         /\ found.status = "COMPLETED" /\ (\A d \in Claim : claim[d] = "VERIFIED" <=> d = c) =>
              \/ "case_completed" \in done
              \/ \E e \in Handover(c), f \in DOMAIN exchanges :
                   exchanges[f].lane = c /\ exchanges[f].status = "COMPLETED" /\ f < e
              \/ \E d \in Claim \ {c} : lost[d] = "COMPLETED"
         /\ ~operated =>
              /\ "case_submitted" \in done <=> found.custody # "WITH_FINDER"
              /\ "case_completed" \in done => found.custody = "HANDED_OVER"
  BY DEF TimelineTellsTruth
<1> DEFINE c == Followed(order)
           done == DoneEvents(c)
<1>1. c = None \/ c \in Claim BY SelectedIsOne DEF Followed
<1>2. None \notin Claim BY ExchangeAssumption
<1>3. c \in Claim => claim[c] \in {"PENDING", "VERIFIED", "REJECTED"}
  BY DEF RowsOK, TypeOK
<1> HIDE DEF c
<1>4. /\ "case_submitted" \in done <=> Logged("SUBMITTED")
      /\ "case_rejected" \in done <=> Logged("REJECTED")
      /\ "case_verified" \in done <=> ~Logged("REJECTED") /\ Logged("VERIFIED")
      /\ "case_completed" \in done <=>
           c # None /\ \E e \in Handover(c) : exchanges[e].status = "COMPLETED"
  <2>1. CASE c = None BY <2>1 DEF DoneEvents
  <2>2. CASE c \in Claim
    <3>1. CASE claim[c] = "PENDING" BY <1>2, <2>2, <3>1 DEF DoneEvents
    <3>2. CASE claim[c] = "VERIFIED" BY <1>2, <2>2, <3>2 DEF DoneEvents
    <3>3. CASE claim[c] = "REJECTED" BY <1>2, <2>2, <3>3 DEF DoneEvents
    <3> QED BY <1>3, <2>2, <3>1, <3>2, <3>3
  <2> QED BY <1>1, <2>1, <2>2
<1>5. /\ "case_submitted" \in done <=> found.status # "DRAFT"
      /\ "case_rejected" \in done <=> found.status = "REJECTED"
      /\ "case_verified" \in done <=> found.status \in {"VERIFIED", "COMPLETED"}
  BY <1>4 DEF SerialCase, CaseAgrees, Passed
<1> HIDE DEF done
<1>6. ASSUME "case_completed" \in done
      PROVE  found.status = "COMPLETED" /\ c \in Claim /\ lost[c] = "COMPLETED"
  <2>1. c \in Claim /\ \E e \in Handover(c) : exchanges[e].status = "COMPLETED"
    BY <1>1, <1>4, <1>6
  <2>2. lost[c] = "COMPLETED" BY <2>1 DEF Handover, SerialCase, ClosedByHandover
  <2> QED BY <2>1, <2>2 DEF SerialCase, ClosedByHandover
<1>7. ASSUME found.status = "COMPLETED"
      PROVE  \/ "case_completed" \in done
             \/ \E e \in Handover(c), f \in DOMAIN exchanges :
                  exchanges[f].lane = c /\ exchanges[f].status = "COMPLETED" /\ f < e
             \/ \E d \in Claim \ {c} : lost[d] = "COMPLETED"
  <2>1. PICK d \in Claim : lost[d] = "COMPLETED"
    BY <1>7 DEF SerialCase, ClosedByHandover
  <2>2. CASE d # c BY <2>1, <2>2
  <2>3. CASE d = c
    <3>1. PICK f \in DOMAIN exchanges :
            exchanges[f].lane = c /\ exchanges[f].status = "COMPLETED"
      BY <2>1, <2>3 DEF SerialCase, ClosedByHandover
    <3>2. PICK e \in Handover(c) : f <= e BY <2>3, <3>1, NewestExchange
    <3>3. e \in Int /\ f \in Int BY <3>1, <3>2 DEF Handover, RowsOK, TypeOK
    <3>4. CASE f = e BY <1>2, <1>4, <2>3, <3>1, <3>2, <3>4
    <3>5. CASE f < e BY <3>1, <3>2, <3>5
    <3>6. f = e \/ f < e BY <3>2, <3>3
    <3> QED BY <3>4, <3>5, <3>6
  <2> QED BY <2>2, <2>3
<1>8. ASSUME ~operated
      PROVE  /\ "case_submitted" \in done <=> found.custody # "WITH_FINDER"
             /\ "case_completed" \in done => found.custody = "HANDED_OVER"
  BY <1>5, <1>6, <1>8 DEF SerialCase, CaseAgrees
<1> QED BY <1>5, <1>6, <1>7, <1>8 DEF c, done

\* When handlers do not overlap, what the parties are shown of a case is so, however many
\* claims there are and in whatever order they came, and it is also where the document is
\* unless a batch operation has moved that since.
THEOREM SerialTimelineTellsTruth == ASSUME OneAtATime PROVE Spec => []TimelineTellsTruth
<1>1. Init => SerialInv BY InitSerial, ExchangeAssumption
<1>2. SerialInv /\ [Next]_vars => SerialInv' BY NextSerial, ExchangeAssumption, OneAtATime
<1>3. SerialInv => TimelineTellsTruth BY ShownIsSo, ExchangeAssumption DEF SerialInv
<1> QED BY <1>1, <1>2, <1>3, PTL DEF Spec
=============================================================================
