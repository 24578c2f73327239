-------------------------- MODULE DocumentExchange --------------------------
(***************************************************************************)
(* The physical hand-over of ONE found document (src/document-exchange):   *)
(* the finder brings it in (INBOUND), staff check it, a claimant with a    *)
(* verified claim gets it out (OUTBOUND), and each hand-over is proved by a *)
(* one-time code.                                                          *)
(*                                                                         *)
(* Every HTTP handler of these services reads what it needs, awaits, and   *)
(* writes later, with nothing locked in between.  A handler in flight is a *)
(* slot of "req": the first action of an operation takes the snapshot and   *)
(* its guards are the handler's checks, each later action is one statement *)
(* or one Prisma transaction, judged on the SNAPSHOT.  With one slot the    *)
(* handlers run one after the other, with several they overlap; a handler   *)
(* can die between two statements in both cases.                           *)
(*                                                                         *)
(* A lane is where the active exchange is looked up: the inbound lane of    *)
(* the found case, or the outbound lane of one claim on it.  The claim's    *)
(* review, the payment, the staff check of the found case and the batch     *)
(* operations on its document belong to other components and are single     *)
(* steps here.  Not modelled: addresses, labels, notifications, who may     *)
(* call what (guards before the handler), and two codes that happen to be   *)
(* the same six digits.                                                     *)
(***************************************************************************)
EXTENDS Integers, Sequences, FiniteSets

CONSTANTS
  Claim,              \* claims on the found case, each for another lost case
  Station,            \* stations staff work at
  Req,                \* slots for handlers in flight
  Method,             \* exchange methods offered
  Operation,          \* types of batch operations executed on the document
  None,               \* null
  MaxCodeAttempts,    \* setting collection.max_attempts
  MaxCourierAttempts, \* setting delivery.max_attempts
  MaxExchanges,       \* bound: exchanges ever scheduled
  MaxCodes,           \* bound: codes ever issued
  MaxFees             \* bound: delivery fees on one invoice

Inbound == "INBOUND"
Lane    == Claim \cup {Inbound}

InboundMethods  == {"STATION_DROPOFF", "AGENT_PICKUP"}
DeliveryMethods == {"COURIER_DELIVERY", "INHOUSE_DELIVERY"}
OutboundMethods == {"OWNER_PICKUP"} \cup DeliveryMethods
ExchangeMethods == InboundMethods \cup OutboundMethods

ActiveStatus   == {"SCHEDULED", "IN_PROGRESS"}
ExchangeStatus == ActiveStatus \cup {"COMPLETED", "FAILED", "CANCELLED"}
CodeStatus     == {"PENDING", "CONFIRMED", "EXPIRED", "CANCELLED"}
FoundStatus    == {"DRAFT", "SUBMITTED", "VERIFIED", "REJECTED", "COMPLETED"}
CustodyStatus  == {"WITH_FINDER", "IN_CUSTODY", "IN_TRANSIT", "HANDED_OVER",
                   "DISPOSED"}

\* The types that move a document (CUSTODY_TRANSITION).
MovingOperation == {"TRANSFER_IN", "RETURN", "TRANSFER_OUT", "HANDOVER", "DISPOSAL"}

ASSUME ExchangeAssumption ==
  /\ None \notin Claim \cup Station \cup {"staff", "claimant"}
  /\ Inbound \notin Claim
  /\ Method \subseteq ExchangeMethods /\ Operation \subseteq MovingOperation
  /\ MaxCodeAttempts \in Nat /\ MaxCourierAttempts \in Nat
  /\ MaxExchanges \in Nat /\ MaxCodes \in Nat /\ MaxFees \in Nat

VARIABLES
  found,         \* the found case: workflow status, custody, current station
  caseLog,       \* its StatusTransition rows <<fromStatus, toStatus>>, oldest first
  lost,          \* status of the lost case behind each claim
  claim,         \* claim status, as far as exchanges tell it apart
  invoice,       \* per claim: status, delivery fees on it, how many of them it paid
  exchanges,     \* DocumentExchange rows in creation order
  verifications, \* ExchangeVerification rows in creation order
  disbursed,     \* Disbursement rows per claim
  req,           \* handlers in flight
  operated       \* observed: a batch operation has moved the document since a code did

world == <<found, caseLog, lost, disbursed, operated>>
money == <<claim, invoice>>
vars  == <<found, caseLog, lost, claim, invoice, exchanges, verifications,
           disbursed, req, operated>>

Step == {"idle", "updateSubmission", "createExchange", "addDeliveryFee", "updateExchange",
         "expireOldCodes", "createCode", "markInProgress", "expireCode",
         "countAttempt", "confirmExchange", "confirmDelivery", "cancelCode",
         "withdraw", "failDelivery", "verifyCase", "rejectCase"}

\* A handler in flight: its next statement and what it has read so far.
Request == [step: Step, lane: Lane \cup {None}, ex: Nat, code: Nat,
            method: ExchangeMethods \cup {None},
            was: ExchangeStatus \cup ExchangeMethods \cup {None},
            attempts: Nat, zone: BOOLEAN]

Exchange == [lane: Lane, method: ExchangeMethods, status: ExchangeStatus,
             completedBy: {"staff", "claimant", None}]

Verification == [ex: Nat \ {0}, status: CodeStatus, attempts: Nat,
                 lapsed: BOOLEAN, confirmed: BOOLEAN]

Invoice == [status: {"NONE", "PENDING", "PAID"}, fees: Nat, paid: Nat]

Idle == [step |-> "idle", lane |-> None, ex |-> 0, code |-> 0, method |-> None,
         was |-> None, attempts |-> 0, zone |-> FALSE]

TypeOK ==
  /\ found \in [status: FoundStatus, custody: CustodyStatus,
                station: Station \cup {None}]
  /\ caseLog \in Seq(FoundStatus \X FoundStatus)
  /\ lost \in [Claim -> {"SUBMITTED", "COMPLETED"}]
  /\ claim \in [Claim -> {"PENDING", "VERIFIED", "REJECTED"}]
  /\ invoice \in [Claim -> Invoice]
  /\ exchanges \in Seq(Exchange)
  /\ verifications \in Seq(Verification)
  /\ disbursed \in [Claim -> Nat]
  /\ req \in [Req -> Request]
  /\ operated \in BOOLEAN

\* Reporting a found document schedules its inbound exchange at once.
Init ==
  /\ found = [status |-> "DRAFT", custody |-> "WITH_FINDER", station |-> None]
  /\ caseLog = <<>>
  /\ lost = [c \in Claim |-> "SUBMITTED"]
  /\ claim = [c \in Claim |-> "PENDING"]
  /\ invoice = [c \in Claim |-> [status |-> "NONE", fees |-> 0, paid |-> 0]]
  /\ \E m \in Method \cap InboundMethods :
       exchanges = <<[lane |-> Inbound, method |-> m, status |-> "SCHEDULED",
                      completedBy |-> None]>>
  /\ verifications = <<>>
  /\ disbursed = [c \in Claim |-> 0]
  /\ req = [r \in Req |-> Idle]
  /\ operated = FALSE

-----------------------------------------------------------------------------
(* Reads *)

IsActive(e) == exchanges[e].status \in ActiveStatus

NoActive(lane) ==
  \A e \in DOMAIN exchanges : exchanges[e].lane = lane => ~IsActive(e)

\* getActiveExchange: the newest active exchange of the lane.
IsCurrent(lane, e) ==
  /\ exchanges[e].lane = lane
  /\ IsActive(e)
  /\ \A f \in DOMAIN exchanges :
       exchanges[f].lane = lane /\ IsActive(f) => f <= e

\* exchange.verifications.find(PENDING): its newest pending code.
IsPending(e, v) ==
  /\ verifications[v].ex = e
  /\ verifications[v].status = "PENDING"
  /\ \A w \in DOMAIN verifications :
       verifications[w].ex = e /\ verifications[w].status = "PENDING" => w <= v

FailedCourier(c) ==
  {e \in DOMAIN exchanges : /\ exchanges[e].lane = c
                            /\ exchanges[e].method = "COURIER_DELIVERY"
                            /\ exchanges[e].status = "FAILED"}

\* The delivery zone is known when the document's current station is.
ZoneKnown == found.station # None

Load(r, snapshot) == req[r] = Idle /\ req' = [req EXCEPT ![r] = snapshot]
At(r, step)       == req[r].step = step
Done(r)           == req' = [req EXCEPT ![r] = Idle]
Goto(r, step)     == req' = [req EXCEPT ![r].step = step]

-----------------------------------------------------------------------------
(* Scheduling: the checks, then the insert, then (not in one transaction)  *)
(* the delivery fee on the claim's invoice.                                *)

ScheduleInbound(r) ==
  /\ found.status = "DRAFT"
  /\ NoActive(Inbound)
  /\ \E m \in Method \cap InboundMethods :
       Load(r, [Idle EXCEPT !.step = "createExchange", !.lane = Inbound,
                            !.method = m])
  /\ UNCHANGED <<world, money, exchanges, verifications>>

\* updateSubmissionPreference: change the method of the scheduled exchange of a
\* draft, or schedule a new one when none is active.
SetSubmission(r) ==
  /\ found.status = "DRAFT"
  /\ \E m \in Method \cap InboundMethods :
       \/ /\ NoActive(Inbound)
          /\ Load(r, [Idle EXCEPT !.step = "createExchange", !.lane = Inbound,
                                  !.method = m])
       \/ \E e \in DOMAIN exchanges :
            /\ IsCurrent(Inbound, e)
            /\ exchanges[e].status = "SCHEDULED"
            /\ Load(r, [Idle EXCEPT !.step = "updateSubmission",
                          !.lane = Inbound, !.ex = e, !.method = m])
  /\ UNCHANGED <<world, money, exchanges, verifications>>

UpdateSubmission(r) ==
  /\ At(r, "updateSubmission")
  /\ exchanges' = [exchanges EXCEPT ![req[r].ex].method = req[r].method]
  /\ Done(r)
  /\ UNCHANGED <<world, money, verifications>>

ScheduleOutbound(r, c) ==
  /\ claim[c] = "VERIFIED"
  /\ NoActive(c)
  /\ \E m \in Method \cap OutboundMethods :
       /\ m = "COURIER_DELIVERY" =>
            Cardinality(FailedCourier(c)) < MaxCourierAttempts
       /\ Load(r, [Idle EXCEPT !.step = "createExchange", !.lane = c,
                     !.method = m, !.zone = m \in DeliveryMethods /\ ZoneKnown])
  /\ UNCHANGED <<world, money, exchanges, verifications>>

CreateExchange(r) ==
  /\ At(r, "createExchange")
  /\ Len(exchanges) < MaxExchanges
  /\ exchanges' = Append(exchanges,
       [lane |-> req[r].lane, method |-> req[r].method, status |-> "SCHEDULED",
        completedBy |-> None])
  /\ IF req[r].zone THEN Goto(r, "addDeliveryFee") ELSE Done(r)
  /\ UNCHANGED <<world, money, verifications>>

\* addItem: the total grows, the status stays as it is.  Fees are all the same.
WithFee(i) == [i EXCEPT !.fees = @ + 1]

\* removeDeliveryFees takes every delivery fee off, earlier attempts' too.
WithoutFees(i) == [i EXCEPT !.fees = 0]

AddDeliveryFee(r) ==
  /\ At(r, "addDeliveryFee")
  /\ invoice' = [invoice EXCEPT ![req[r].lane] = WithFee(@)]
  /\ invoice'[req[r].lane].fees <= MaxFees
  /\ Done(r)
  /\ UNCHANGED <<world, claim, exchanges, verifications>>

\* The claimant changes a SCHEDULED outbound exchange; the failed courier
\* attempts are not counted here.
UpdateOutbound(r, c) ==
  /\ \E e \in DOMAIN exchanges, m \in Method \cap OutboundMethods :
       /\ exchanges[e].lane = c
       /\ exchanges[e].status = "SCHEDULED"
       /\ Load(r, [Idle EXCEPT !.step = "updateExchange", !.lane = c, !.ex = e,
                     !.method = m, !.was = exchanges[e].method,
                     !.zone = m \in DeliveryMethods /\ ZoneKnown])
  /\ UNCHANGED <<world, money, exchanges, verifications>>

UpdateExchange(r) ==
  /\ At(r, "updateExchange")
  /\ exchanges' = [exchanges EXCEPT ![req[r].ex].method = req[r].method]
  /\ LET kept == IF req[r].was \in DeliveryMethods
                 THEN WithoutFees(invoice[req[r].lane])
                 ELSE invoice[req[r].lane]
     IN  invoice' = [invoice EXCEPT ![req[r].lane] =
                       IF req[r].zone THEN WithFee(kept) ELSE kept]
  /\ invoice'[req[r].lane].fees <= MaxFees
  /\ Done(r)
  /\ UNCHANGED <<world, claim, verifications>>

-----------------------------------------------------------------------------
(* Issuing a code: three statements, no transaction.                       *)

\* Mutant: the invoice is not asked for.
MutIssueCodeUnpaid(r, lane) ==
  /\ \E e \in DOMAIN exchanges :
       /\ IsCurrent(lane, e)
       /\ Load(r, [Idle EXCEPT !.step = "expireOldCodes", !.lane = lane,
                               !.ex = e, !.was = exchanges[e].status])
  /\ UNCHANGED <<world, money, exchanges, verifications>>

\* Mutant: the codes issued before are left alone.
MutIssueCodeKeepsOld(r, lane) ==
  /\ \E e \in DOMAIN exchanges :
       /\ IsCurrent(lane, e)
       /\ lane \in Claim => invoice[lane].status = "PAID"
       /\ Load(r, [Idle EXCEPT !.step = "createCode", !.lane = lane,
                               !.ex = e, !.was = exchanges[e].status])
  /\ UNCHANGED <<world, money, exchanges, verifications>>

IssueCode(r, lane) ==
  /\ \E e \in DOMAIN exchanges :
       /\ IsCurrent(lane, e)
       /\ lane \in Claim => invoice[lane].status = "PAID"
       /\ Load(r, [Idle EXCEPT !.step = "expireOldCodes", !.lane = lane,
                               !.ex = e, !.was = exchanges[e].status])
  /\ UNCHANGED <<world, money, exchanges, verifications>>

\* updateMany over the exchange's PENDING codes.
ResolvePending(e, status) ==
  [v \in DOMAIN verifications |->
     IF verifications[v].ex = e /\ verifications[v].status = "PENDING"
     THEN [verifications[v] EXCEPT !.status = status]
     ELSE verifications[v]]

ExpireOldCodes(r) ==
  /\ At(r, "expireOldCodes")
  /\ verifications' = ResolvePending(req[r].ex, "EXPIRED")
  /\ Goto(r, "createCode")
  /\ UNCHANGED <<world, money, exchanges>>

CreateCode(r) ==
  /\ At(r, "createCode")
  /\ Len(verifications) < MaxCodes
  /\ verifications' = Append(verifications,
       [ex |-> req[r].ex, status |-> "PENDING", attempts |-> 0,
        lapsed |-> FALSE, confirmed |-> FALSE])
  /\ IF req[r].was = "SCHEDULED" THEN Goto(r, "markInProgress") ELSE Done(r)
  /\ UNCHANGED <<world, money, exchanges>>

MarkInProgress(r) ==
  /\ At(r, "markInProgress")
  /\ exchanges' = [exchanges EXCEPT ![req[r].ex].status = "IN_PROGRESS"]
  /\ Done(r)
  /\ UNCHANGED <<world, money, verifications>>

\* expiresAt passes.
CodeLapses(v) ==
  /\ verifications[v].status = "PENDING"
  /\ ~verifications[v].lapsed
  /\ verifications' = [verifications EXCEPT ![v].lapsed = TRUE]
  /\ UNCHANGED <<world, money, exchanges, req>>

-----------------------------------------------------------------------------
(* Entering a code *)

Unusable(v) ==
  verifications[v].lapsed \/ verifications[v].attempts >= MaxCodeAttempts

VerifyCode(r, lane) ==
  /\ \E e \in DOMAIN exchanges, v \in DOMAIN verifications :
       /\ IsCurrent(lane, e)
       /\ IsPending(e, v)
       /\ \E step \in IF Unusable(v) THEN {"expireCode"}
                      ELSE {"countAttempt", "confirmExchange"} :
            Load(r, [Idle EXCEPT !.step = step, !.lane = lane, !.ex = e,
                       !.code = v, !.attempts = verifications[v].attempts + 1])
  /\ UNCHANGED <<world, money, exchanges, verifications>>

ExpireCode(r) ==
  /\ At(r, "expireCode")
  /\ verifications' = [verifications EXCEPT ![req[r].code].status = "EXPIRED"]
  /\ Done(r)
  /\ UNCHANGED <<world, money, exchanges>>

CountAttempt(r) ==
  /\ At(r, "countAttempt")
  /\ verifications' =
       [verifications EXCEPT ![req[r].code].attempts = req[r].attempts]
  /\ Done(r)
  /\ UNCHANGED <<world, money, exchanges>>

\* Mutant: a document that was moved on by a batch operation is left where it is.
MutFoundAfter(lane, s) ==
  IF lane = Inbound
  THEN [found EXCEPT !.status = "SUBMITTED", !.station = s,
          !.custody = IF @ = "WITH_FINDER" THEN "IN_CUSTODY" ELSE @]
  ELSE [found EXCEPT !.status = "COMPLETED", !.station = None,
          !.custody = IF @ = "IN_CUSTODY" THEN "HANDED_OVER" ELSE @]

FoundAfter(lane, s) ==
  IF lane = Inbound
  THEN [status |-> "SUBMITTED", custody |-> "IN_CUSTODY", station |-> s]
  ELSE [status |-> "COMPLETED", custody |-> "HANDED_OVER", station |-> None]

\* The logged transition: its fromStatus is hard-coded, not read.
LoggedMove(lane) ==
  IF lane = Inbound THEN <<"DRAFT", "SUBMITTED">> ELSE <<"VERIFIED", "COMPLETED">>

\* Mutant: the lost cases of all claims on the document are closed.
MutLostAfter(lane) ==
  [c \in Claim |-> IF lane = Inbound THEN lost[c] ELSE "COMPLETED"]

LostAfter(lane) == [c \in Claim |-> IF c = lane THEN "COMPLETED" ELSE lost[c]]

\* The writes both completions share: the code, the exchange, the found case
\* and its log, the lost case.
Complete(r, by, attempts) ==
  /\ verifications' = [verifications EXCEPT ![req[r].code] =
       [@ EXCEPT !.status = "CONFIRMED", !.confirmed = TRUE,
                 !.attempts = attempts]]
  /\ exchanges' = [exchanges EXCEPT ![req[r].ex] =
       [@ EXCEPT !.status = "COMPLETED", !.completedBy = by]]
  /\ \E s \in Station : found' = FoundAfter(req[r].lane, s)
  /\ caseLog' = Append(caseLog, LoggedMove(req[r].lane))
  /\ lost' = LostAfter(req[r].lane)
  /\ operated' = FALSE

\* Mutant: no reward, as on the courier path.
MutConfirmExchange(r) ==
  /\ At(r, "confirmExchange")
  /\ Complete(r, "staff", req[r].attempts)
  /\ Done(r)
  /\ UNCHANGED <<money, disbursed>>

\* verifyCode's transaction; outbound, it also pays the finder's reward.
ConfirmExchange(r) ==
  /\ At(r, "confirmExchange")
  /\ Complete(r, "staff", req[r].attempts)
  /\ disbursed' = [c \in Claim |-> IF c = req[r].lane THEN disbursed[c] + 1
                                   ELSE disbursed[c]]
  /\ Done(r)
  /\ UNCHANGED money

\* The claimant enters the code on a courier package; looked up by the code
\* alone, whatever the status of its exchange.
EnterDeliveryCode(r) ==
  /\ \E v \in DOMAIN verifications :
       LET e == verifications[v].ex IN
       /\ verifications[v].status = "PENDING"
       /\ exchanges[e].lane \in Claim
       /\ exchanges[e].method = "COURIER_DELIVERY"
       /\ Load(r, [Idle EXCEPT !.lane = exchanges[e].lane, !.ex = e, !.code = v,
                     !.step = IF Unusable(v) THEN "expireCode"
                              ELSE "confirmDelivery"])
  /\ UNCHANGED <<world, money, exchanges, verifications>>

\* confirmDelivery's transaction: no reward in it.
ConfirmDelivery(r) ==
  /\ At(r, "confirmDelivery")
  /\ Complete(r, "claimant", verifications[req[r].code].attempts + 1)
  /\ Done(r)
  /\ UNCHANGED <<money, disbursed>>

-----------------------------------------------------------------------------
(* Calling off *)

StartCancelCode(r, lane) ==
  /\ \E e \in DOMAIN exchanges, v \in DOMAIN verifications :
       /\ IsCurrent(lane, e)
       /\ IsPending(e, v)
       /\ Load(r, [Idle EXCEPT !.step = "cancelCode", !.lane = lane, !.ex = e,
                               !.code = v])
  /\ UNCHANGED <<world, money, exchanges, verifications>>

CancelCode(r) ==
  /\ At(r, "cancelCode")
  /\ verifications' = [verifications EXCEPT ![req[r].code].status = "CANCELLED"]
  /\ exchanges' = [exchanges EXCEPT ![req[r].ex].status = "SCHEDULED"]
  /\ Done(r)
  /\ UNCHANGED <<world, money>>

StartWithdraw(r, lane) ==
  /\ \E e \in DOMAIN exchanges :
       /\ IsCurrent(lane, e)
       /\ Load(r, [Idle EXCEPT !.step = "withdraw", !.lane = lane, !.ex = e])
  /\ UNCHANGED <<world, money, exchanges, verifications>>

Withdraw(r) ==
  /\ At(r, "withdraw")
  /\ exchanges' = [exchanges EXCEPT ![req[r].ex].status = "CANCELLED"]
  /\ verifications' = ResolvePending(req[r].ex, "CANCELLED")
  /\ Done(r)
  /\ UNCHANGED <<world, money>>

StartFailDelivery(r) ==
  /\ \E e \in DOMAIN exchanges :
       /\ exchanges[e].method = "COURIER_DELIVERY"
       /\ exchanges[e].status = "IN_PROGRESS"
       /\ Load(r, [Idle EXCEPT !.step = "failDelivery", !.ex = e])
  /\ UNCHANGED <<world, money, exchanges, verifications>>

FailDelivery(r) ==
  /\ At(r, "failDelivery")
  /\ verifications' = ResolvePending(req[r].ex, "EXPIRED")
  /\ exchanges' = [exchanges EXCEPT ![req[r].ex].status = "FAILED"]
  /\ Done(r)
  /\ UNCHANGED <<world, money>>

-----------------------------------------------------------------------------
(* The other components' steps exchanges depend on *)

\* Mutant: a draft can be reviewed.
MutReviewDraft(r) ==
  /\ found.status \in {"DRAFT", "SUBMITTED"}
  /\ \E step \in {"verifyCase", "rejectCase"} :
       Load(r, [Idle EXCEPT !.step = step])
  /\ UNCHANGED <<world, money, exchanges, verifications>>

\* Mutant: a verified case can be reviewed again.
MutReviewAgain(r) ==
  /\ found.status \in {"SUBMITTED", "VERIFIED"}
  /\ \E step \in {"verifyCase", "rejectCase"} :
       Load(r, [Idle EXCEPT !.step = step])
  /\ UNCHANGED <<world, money, exchanges, verifications>>

StartReviewCase(r) ==
  /\ found.status = "SUBMITTED"
  /\ \E step \in {"verifyCase", "rejectCase"} :
       Load(r, [Idle EXCEPT !.step = step])
  /\ UNCHANGED <<world, money, exchanges, verifications>>

\* Mutant: a rejection is not logged.
MutReviewCase(r) ==
  LET to == IF At(r, "verifyCase") THEN "VERIFIED" ELSE "REJECTED"
  IN  /\ At(r, "verifyCase") \/ At(r, "rejectCase")
      /\ found' = [found EXCEPT !.status = to]
      /\ caseLog' = IF to = "REJECTED" THEN caseLog
                    ELSE Append(caseLog, <<"SUBMITTED", to>>)
      /\ Done(r)
      /\ UNCHANGED <<money, lost, disbursed, operated, exchanges, verifications>>

ReviewCase(r) ==
  LET to == IF At(r, "verifyCase") THEN "VERIFIED" ELSE "REJECTED"
  IN  /\ At(r, "verifyCase") \/ At(r, "rejectCase")
      /\ found' = [found EXCEPT !.status = to]
      /\ caseLog' = Append(caseLog, <<"SUBMITTED", to>>)
      /\ Done(r)
      /\ UNCHANGED <<money, lost, disbursed, operated, exchanges, verifications>>

\* A claim rests on a match, and only a verified found case is matched.
EverVerified == \E i \in DOMAIN caseLog : caseLog[i][2] = "VERIFIED"

\* Approval, the first time or after a dispute; the invoice is made once.
VerifyClaim(c) ==
  /\ EverVerified
  /\ claim[c] # "VERIFIED"
  /\ claim' = [claim EXCEPT ![c] = "VERIFIED"]
  /\ invoice' = IF invoice[c].status = "NONE"
                THEN [invoice EXCEPT ![c].status = "PENDING"]
                ELSE invoice
  /\ UNCHANGED <<world, exchanges, verifications, req>>

RejectClaim(c) ==
  /\ EverVerified
  /\ claim[c] # "REJECTED"
  /\ claim' = [claim EXCEPT ![c] = "REJECTED"]
  /\ UNCHANGED <<world, invoice, exchanges, verifications, req>>

\* The payment callback that brings the balance to zero.
PayInvoice(c) ==
  /\ invoice[c].status = "PENDING"
  /\ invoice' = [invoice EXCEPT ![c].status = "PAID", ![c].paid = invoice[c].fees]
  /\ UNCHANGED <<world, claim, exchanges, verifications, req>>

\* What a batch operation makes of the document.  It asks neither where the document
\* is nor for a code, and no exchange asks afterwards what it did; the station is that
\* of the operation, which need not have one.
Operated(type, s) ==
  CASE type \in {"TRANSFER_IN", "RETURN"} ->
         [found EXCEPT !.custody = "IN_CUSTODY", !.station = s]
    [] type = "TRANSFER_OUT" ->
         [found EXCEPT !.custody = "IN_TRANSIT", !.station = None]
    [] type = "HANDOVER" -> [found EXCEPT !.custody = "HANDED_OVER"]
    [] type = "DISPOSAL" -> [found EXCEPT !.custody = "DISPOSED"]

ExecuteOperation(type, s) ==
  /\ found' = Operated(type, s)
  /\ operated' = TRUE
  /\ UNCHANGED <<caseLog, lost, disbursed, money, exchanges, verifications, req>>

-----------------------------------------------------------------------------
\* A handler dies between two statements: a crash, or a statement that fails.
Die(r) == req[r] # Idle /\ Done(r)
          /\ UNCHANGED <<world, money, exchanges, verifications>>

Handler(r) ==
  \/ ScheduleInbound(r)
  \/ SetSubmission(r)
  \/ UpdateSubmission(r)
  \/ \E c \in Claim : ScheduleOutbound(r, c)
  \/ CreateExchange(r)
  \/ AddDeliveryFee(r)
  \/ \E c \in Claim : UpdateOutbound(r, c)
  \/ UpdateExchange(r)
  \/ \E lane \in Lane : IssueCode(r, lane)
  \/ ExpireOldCodes(r)
  \/ CreateCode(r)
  \/ MarkInProgress(r)
  \/ \E lane \in Lane : VerifyCode(r, lane)
  \/ ExpireCode(r)
  \/ CountAttempt(r)
  \/ ConfirmExchange(r)
  \/ EnterDeliveryCode(r)
  \/ ConfirmDelivery(r)
  \/ \E lane \in Lane : StartCancelCode(r, lane)
  \/ CancelCode(r)
  \/ \E lane \in Lane : StartWithdraw(r, lane)
  \/ Withdraw(r)
  \/ StartFailDelivery(r)
  \/ FailDelivery(r)
  \/ StartReviewCase(r)
  \/ ReviewCase(r)
  \/ Die(r)

Next ==
  \/ \E r \in Req : Handler(r)
  \/ \E v \in DOMAIN verifications : CodeLapses(v)
  \/ \E c \in Claim : VerifyClaim(c) \/ RejectClaim(c) \/ PayInvoice(c)
  \/ \E type \in Operation, s \in Station \cup {None} : ExecuteOperation(type, s)

Spec == Init /\ [][Next]_vars

-----------------------------------------------------------------------------
(* What holds however many handlers overlap *)

CodeLane(v) == exchanges[verifications[v].ex].lane

EverConfirmed(lanes) ==
  \E v \in DOMAIN verifications :
    verifications[v].confirmed /\ CodeLane(v) \in lanes

\* No collection code of a claim exists unless its invoice was paid: neither a
\* fee added later nor a payment callback racing issueCode takes PAID back.
PaidBeforeCode ==
  \A v \in DOMAIN verifications :
    CodeLane(v) \in Claim => invoice[CodeLane(v)].status = "PAID"

\* A found case leaves DRAFT only because a code of an inbound exchange was confirmed,
\* and so does the document its finder's hands, unless a batch operation took it.
CollectedByCode ==
  found.status # "DRAFT" \/ (found.custody # "WITH_FINDER" /\ ~operated) =>
    EverConfirmed({Inbound})

\* A case counts as completed, a finder is rewarded and a lost case closed for a claim
\* only after a code of that claim was confirmed; and so does a document as handed
\* over, unless a batch operation handed it over.
HandedOverByCode ==
  /\ found.status = "COMPLETED" \/ (found.custody = "HANDED_OVER" /\ ~operated) =>
       EverConfirmed(Claim)
  /\ \A c \in Claim :
       disbursed[c] > 0 \/ lost[c] = "COMPLETED" => EverConfirmed({c})

\* Payment comes before the code of a collection, the code before anything it lets
\* happen, whatever overlaps, lapses or dies and whatever batch operations do to the
\* document meanwhile: they move nothing but its custody, and only they move that
\* without a code.
MovesByCode == PaidBeforeCode /\ CollectedByCode /\ HandedOverByCode

\* The case's transition log ends where the case is: no handler moves the case
\* without logging it, whichever of two racing transactions commits last.
LogTracksStatus ==
  found.status = IF caseLog = <<>> THEN "DRAFT" ELSE caseLog[Len(caseLog)][2]

-----------------------------------------------------------------------------
(* What holds when handlers do not overlap, crashes between statements and   *)
(* codes lapsing at any time included                                        *)

\* At most one exchange of a lane is active, so the "current" exchange every
\* handler looks up is the only one.
OneActiveExchange ==
  \A e, f \in DOMAIN exchanges :
    exchanges[e].lane = exchanges[f].lane /\ IsActive(e) /\ IsActive(f) => e = f

\* The code a participant can still use is unique and belongs to an active
\* exchange, even when issueCode dies half-way.
OneLiveCode ==
  \A v, w \in DOMAIN verifications :
    verifications[v].status = "PENDING" =>
      /\ IsActive(verifications[v].ex)
      /\ verifications[w].status = "PENDING"
           /\ verifications[w].ex = verifications[v].ex => v = w

\* An exchange is completed exactly when one of its codes is confirmed.
CompletedByItsCode ==
  \A e \in DOMAIN exchanges :
    exchanges[e].status = "COMPLETED" <=>
      Cardinality({v \in DOMAIN verifications :
        verifications[v].ex = e /\ verifications[v].status = "CONFIRMED"}) = 1

\* What every look-up by exchange or by code takes for granted.
CodesAreSound == OneActiveExchange /\ OneLiveCode /\ CompletedByItsCode

\* The finder is paid once for every hand-over staff completed, no more and no
\* less, whatever crashed on the way.
RewardPerHandover ==
  \A c \in Claim :
    disbursed[c] = Cardinality({e \in DOMAIN exchanges :
      exchanges[e].lane = c /\ exchanges[e].completedBy = "staff"})
=============================================================================
