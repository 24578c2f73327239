------------------------------- MODULE Claims -------------------------------
(***************************************************************************)
(* Claims on matches (src/claim), the decision about a match               *)
(* (src/matching/matching.transitions.service.ts) and the editable reasons *)
(* without which no status moves (src/status-transitions).                 *)
(*                                                                         *)
(* A handler in flight is a slot of "req".  It reads in one or two         *)
(* statements and commits in one transaction; only the creation of a claim *)
(* writes in several.  Two statements are one step where the order of      *)
(* other handlers' writes around them makes no difference.                 *)
(*                                                                         *)
(* Not modelled: comments, numbers, the answers to security questions (the *)
(* code compares them with an empty list), the notification sent after a   *)
(* verification, who the caller is, and the reason "code" and "auto" marks. *)
(***************************************************************************)
EXTENDS Integers, Sequences, FiniteSets, SequencesExt

CONSTANTS
  Match,      \* matches; each lies between one lost and one found case
  Req,        \* slots for handlers in flight
  Spare,      \* ids of reasons an administrator may create, change and purge
  Editable,   \* the moves such a reason may be given
  None,       \* no value
  MaxClaims,  \* bound: claims ever created
  MaxMoves,   \* bound: status rows ever logged for claims
  MaxOverlaps \* bound: handlers that begin while another is in flight

ClaimStatus == {"PENDING", "VERIFIED", "REJECTED", "DISPUTED", "UNDER_REVIEW",
                "CANCELLED"}

ASSUME ClaimsAssumption ==
  /\ Editable \subseteq ClaimStatus \X ClaimStatus
  /\ None \notin Editable
  /\ MaxClaims \in Nat /\ MaxMoves \in Nat /\ MaxOverlaps \in Nat

\* The moves of claims that reasons are installed with.
SeededReason ==
  {<<"PENDING", "VERIFIED">>, <<"PENDING", "REJECTED">>,
   <<"PENDING", "CANCELLED">>, <<"VERIFIED", "REJECTED">>,
   <<"REJECTED", "DISPUTED">>, <<"DISPUTED", "UNDER_REVIEW">>,
   <<"DISPUTED", "CANCELLED">>, <<"DISPUTED", "VERIFIED">>,
   <<"UNDER_REVIEW", "REJECTED">>, <<"UNDER_REVIEW", "VERIFIED">>}

Seeded == "seeded"
MatchSeeded == {<<"PENDING", "CLAIMED">>, <<"PENDING", "REJECTED">>}

\* Each operation on a claim: the statuses it accepts and the one it writes.
Operation ==
  [reject         |-> [from |-> {"PENDING", "VERIFIED"}, to |-> "REJECTED"],
   rejectReviewed |-> [from |-> {"UNDER_REVIEW"}, to |-> "REJECTED"],
   verify         |-> [from |-> {"PENDING", "REJECTED"}, to |-> "VERIFIED"],
   verifyReviewed |-> [from |-> {"UNDER_REVIEW"}, to |-> "VERIFIED"],
   cancel         |-> [from |-> {"PENDING", "DISPUTED"}, to |-> "CANCELLED"],
   dispute        |-> [from |-> {"REJECTED"}, to |-> "DISPUTED"],
   reviewDispute  |-> [from |-> {"DISPUTED"}, to |-> "UNDER_REVIEW"]]

OperationName == DOMAIN Operation

VARIABLES
  match,    \* Match.status
  claims,   \* Claim rows, oldest first
  log,      \* StatusTransition rows of claims, oldest first
  matchLog, \* StatusTransition rows of matches, oldest first
  reasons,  \* what each spare reason allows, None when there is no such row
  req,      \* handlers in flight
  overlaps  \* observed: how often a handler began while another was in flight

vars == <<match, claims, log, matchLog, reasons, req, overlaps>>

MatchStatus == {"PENDING", "CLAIMED", "REJECTED"}

Claim == [match: Match, status: ClaimStatus, invoiced: BOOLEAN,
          details: {"none", "answers", "attachments"}]

Row(Subject, Status) == [of: Subject, from: Status, to: Status]

Request ==
  [op: {"none", "create", "rejectMatch"} \cup OperationName,
   step: {"idle", "latest", "insert", "answer", "attach", "claimMatch",
          "read", "commit"},
   match: Match \cup {None}, claim: Nat,
   seen: ClaimStatus \cup MatchStatus \cup {None}, \* the status it read
   reason: Spare \cup {Seeded, None}]              \* the reason it found

Idle == [op |-> "none", step |-> "idle", match |-> None, claim |-> 0,
         seen |-> None, reason |-> None]

TypeOK ==
  /\ match \in [Match -> MatchStatus]
  /\ claims \in Seq(Claim)
  /\ log \in Seq(Row(Nat, ClaimStatus))
  /\ matchLog \in Seq(Row(Match, MatchStatus))
  /\ reasons \in [Spare -> Editable \cup {None}]
  /\ req \in [Req -> Request]
  /\ overlaps \in Nat

Init ==
  /\ match = [m \in Match |-> "PENDING"]
  /\ claims = <<>>
  /\ log = <<>>
  /\ matchLog = <<>>
  /\ reasons = [s \in Spare |-> None]
  /\ req = [r \in Req |-> Idle]
  /\ overlaps = 0

-----------------------------------------------------------------------------
At(r, op, step) == req[r].op = op /\ req[r].step = step
Goto(r, step)   == req' = [req EXCEPT ![r].step = step]
Done(r)         == req' = [req EXCEPT ![r] = Idle]

Begin(r, slot) ==
  /\ req[r] = Idle
  /\ req' = [req EXCEPT ![r] = slot]
  /\ \/ (\A q \in Req : req[q] = Idle) /\ UNCHANGED overlaps
     \/ /\ \E q \in Req : req[q] # Idle
        /\ overlaps < MaxOverlaps
        /\ overlaps' = overlaps + 1

Of(m)     == {c \in DOMAIN claims : claims[c].match = m}
Latest(m) == CHOOSE c \in Of(m) : \A d \in Of(m) : d <= c

-----------------------------------------------------------------------------
(* ClaimService.create *)

\* validateMatch and validateAttachments: the match may have any status.
StartCreate(r, m) ==
  /\ Begin(r, [Idle EXCEPT !.op = "create", !.step = "latest", !.match = m,
                           !.seen = match[m]])
  /\ UNCHANGED <<match, claims, log, matchLog, reasons>>

\* Mutant: a rejected claim is out of the way too.
MutCheckNoOtherClaim(r) ==
  /\ At(r, "create", "latest")
  /\ LET m == req[r].match IN
     IF Of(m) = {} \/ claims[Latest(m)].status \in {"CANCELLED", "REJECTED"}
     THEN Goto(r, "insert")
     ELSE Done(r)
  /\ UNCHANGED <<match, claims, log, matchLog, reasons, overlaps>>

\* assertNoOtherClaimOrLatestClaimIsCancelled
CheckNoOtherClaim(r) ==
  /\ At(r, "create", "latest")
  /\ LET m == req[r].match IN
     IF Of(m) = {} \/ claims[Latest(m)].status = "CANCELLED"
     THEN Goto(r, "insert")
     ELSE Done(r)
  /\ UNCHANGED <<match, claims, log, matchLog, reasons, overlaps>>

InsertClaim(r) ==
  /\ At(r, "create", "insert")
  /\ Len(claims) < MaxClaims
  /\ claims' = Append(claims, [match |-> req[r].match, status |-> "PENDING",
                               invoiced |-> FALSE, details |-> "none"])
  /\ req' = [req EXCEPT ![r].step = "answer", ![r].claim = Len(claims) + 1]
  /\ UNCHANGED <<match, log, matchLog, reasons, overlaps>>

RecordAnswers(r) ==
  /\ At(r, "create", "answer")
  /\ claims' = [claims EXCEPT ![req[r].claim].details = "answers"]
  /\ Goto(r, "attach")
  /\ UNCHANGED <<match, log, matchLog, reasons, overlaps>>

\* The files are moved one by one and then attached; Fail stands for a move
\* that does not succeed.
AttachFiles(r) ==
  /\ At(r, "create", "attach")
  /\ claims' = [claims EXCEPT ![req[r].claim].details = "attachments"]
  /\ IF req[r].seen # "CLAIMED" THEN Goto(r, "claimMatch") ELSE Done(r)
  /\ UNCHANGED <<match, log, matchLog, reasons, overlaps>>

\* The update is rolled back when no reason leads from the status read at the
\* beginning: the claim stays.
ClaimMatch(r) ==
  LET m == req[r].match  seen == req[r].seen IN
  /\ At(r, "create", "claimMatch")
  /\ IF <<seen, "CLAIMED">> \in MatchSeeded
     THEN /\ match' = [match EXCEPT ![m] = "CLAIMED"]
          /\ matchLog' = Append(matchLog,
                            [of |-> m, from |-> seen, to |-> "CLAIMED"])
     ELSE UNCHANGED <<match, matchLog>>
  /\ Done(r)
  /\ UNCHANGED <<claims, log, reasons, overlaps>>

-----------------------------------------------------------------------------
(* The operations of ClaimStatusTransitionService *)

\* isCurrentClaimLatestClaim
StartMove(r, op, c) ==
  /\ c = Latest(claims[c].match)
  /\ Begin(r, [Idle EXCEPT !.op = op, !.step = "read", !.claim = c])
  /\ UNCHANGED <<match, claims, log, matchLog, reasons>>

Allows(reason, move) ==
  IF reason = Seeded THEN move \in SeededReason ELSE reasons[reason] = move

\* Mutant: any status but a cancelled one will do, and any reason.
MutReadClaim(r) ==
  LET op == req[r].op  status == claims[req[r].claim].status IN
  /\ op \in OperationName /\ At(r, op, "read")
  /\ IF status = "CANCELLED" THEN Done(r)
     ELSE req' = [req EXCEPT ![r].step = "commit", ![r].seen = status,
                             ![r].reason = Seeded]
  /\ UNCHANGED <<match, claims, log, matchLog, reasons, overlaps>>

\* The caller names a reason, which must lead from the status just read.
ReadClaim(r) ==
  LET op == req[r].op  status == claims[req[r].claim].status IN
  /\ op \in OperationName /\ At(r, op, "read")
  /\ \/ /\ status \in Operation[op].from
        /\ \E reason \in Spare \cup {Seeded} :
             /\ Allows(reason, <<status, Operation[op].to>>)
             /\ req' = [req EXCEPT ![r].step = "commit", ![r].seen = status,
                                   ![r].reason = reason]
     \/ Done(r)
  /\ UNCHANGED <<match, claims, log, matchLog, reasons, overlaps>>

\* Mutant: the invoice is created when the claim is rejected.
MutMoved(c, to) ==
  [claims EXCEPT ![c].status = to, ![c].invoiced = @ \/ to = "REJECTED"]

\* A verification creates the invoice unless the claim has one.
Invoiced(c, to) == claims[c].invoiced \/ to = "VERIFIED"

Moved(c, to) ==
  [claims EXCEPT ![c].status = to, ![c].invoiced = Invoiced(c, to)]

\* The status is written whatever it has become; the row says what was read.
\* A reason purged meanwhile makes the transaction fail.
CommitMove(r) ==
  LET op == req[r].op  c == req[r].claim IN
  /\ op \in OperationName /\ At(r, op, "commit")
  /\ IF req[r].reason = Seeded \/ reasons[req[r].reason] # None
     THEN /\ Len(log) < MaxMoves
          /\ claims' = Moved(c, Operation[op].to)
          /\ log' = Append(log, [of |-> c, from |-> req[r].seen,
                                 to |-> Operation[op].to])
     ELSE UNCHANGED <<claims, log>>
  /\ Done(r)
  /\ UNCHANGED <<match, matchLog, reasons, overlaps>>

-----------------------------------------------------------------------------
(* The rejection of a match, the reasons, failures *)

\* MatchingStatusTransitionsService.reject
StartRejectMatch(r, m) ==
  /\ match[m] = "PENDING"
  /\ Begin(r, [Idle EXCEPT !.op = "rejectMatch", !.step = "commit",
                           !.match = m, !.seen = match[m]])
  /\ UNCHANGED <<match, claims, log, matchLog, reasons>>

RejectMatch(r) ==
  LET m == req[r].match IN
  /\ At(r, "rejectMatch", "commit")
  /\ match' = [match EXCEPT ![m] = "REJECTED"]
  /\ matchLog' = Append(matchLog, [of |-> m, from |-> req[r].seen,
                                   to |-> "REJECTED"])
  /\ Done(r)
  /\ UNCHANGED <<claims, log, reasons, overlaps>>

\* create, update and purge; voiding a reason changes nothing here, since the
\* look-ups do not ask for it.
EditReason(s) ==
  /\ \E allowed \in (Editable \cup {None}) \ {reasons[s]} :
       reasons' = [reasons EXCEPT ![s] = allowed]
  /\ UNCHANGED <<match, claims, log, matchLog, req, overlaps>>

\* The process dies or a statement fails: what was committed stays.
Fail(r) ==
  /\ req[r] # Idle
  /\ Done(r)
  /\ UNCHANGED <<match, claims, log, matchLog, reasons, overlaps>>

EditReasons == \E s \in Spare : EditReason(s)

Next ==
  \/ \E r \in Req :
       \/ \E m \in Match : StartCreate(r, m) \/ StartRejectMatch(r, m)
       \/ \E op \in OperationName, c \in DOMAIN claims : StartMove(r, op, c)
       \/ CheckNoOtherClaim(r) \/ InsertClaim(r) \/ RecordAnswers(r)
       \/ AttachFiles(r) \/ ClaimMatch(r)
       \/ ReadClaim(r) \/ CommitMove(r) \/ RejectMatch(r) \/ Fail(r)
  \/ EditReasons

Spec == Init /\ [][Next]_vars

-----------------------------------------------------------------------------
(* Whatever overlaps or fails *)

RowsBefore(c, n) == {i \in 1 .. n - 1 : log[i].of = c}

\* What the first n - 1 rows make of a claim.
StatusBefore(c, n) ==
  IF RowsBefore(c, n) = {} THEN "PENDING" ELSE log[Max(RowsBefore(c, n))].to

\* verify: a claim is invoiced once it has been verified and only then, however
\* often it is disputed, rejected and verified again, and a claim that counts
\* as verified has its invoice.
InvoicedWhenVerified ==
  \A c \in DOMAIN claims :
    /\ claims[c].status = "VERIFIED" => claims[c].invoiced
    /\ claims[c].invoiced <=>
         \E i \in DOMAIN log : log[i].of = c /\ log[i].to = "VERIFIED"

-----------------------------------------------------------------------------
(* When handlers do not overlap *)

\* The rows of a claim form a path from PENDING to its status, whatever is
\* edited in the reasons; a claim is reviewed only after it was rejected and
\* disputed, and never moves once it is cancelled.
LogIsPath ==
  overlaps = 0 =>
    /\ \A c \in DOMAIN claims : claims[c].status = StatusBefore(c, Len(log) + 1)
    /\ \A i \in DOMAIN log :
         /\ log[i].from = StatusBefore(log[i].of, i)
         /\ log[i].from # "CANCELLED"
         /\ log[i].to = "UNDER_REVIEW" =>
              \E j, k \in RowsBefore(log[i].of, i) :
                j < k /\ log[j].to = "REJECTED" /\ log[k].to = "DISPUTED"

\* "Only allow new claim if latest previous claim is cancelled": a match has at
\* most one claim that is not cancelled, whatever failed half-way, and is decided
\* at most once, as its row says.
OneOutcomePerMatch ==
  overlaps = 0 => \A m \in Match :
    LET rows == {i \in DOMAIN matchLog : matchLog[i].of = m} IN
    /\ \A c, d \in Of(m) :
         "CANCELLED" \notin {claims[c].status, claims[d].status} => c = d
    /\ IF rows = {} THEN match[m] = "PENDING"
       ELSE \E i \in rows : rows = {i} /\ match[m] = matchLog[i].to
=============================================================================
