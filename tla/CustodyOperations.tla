-------------------------- MODULE CustodyOperations --------------------------
(***************************************************************************)
(* Batch operations of station staff on found documents                    *)
(* (src/document-custody): an operation is drafted with its items,         *)
(* submitted and approved if it needs approval, and executed, which moves  *)
(* the custody of every pending item in one transaction.                   *)
(*                                                                         *)
(* As in DocumentExchange, a handler reads the operation, awaits, and      *)
(* writes later: a handler in flight is a slot of "req" holding the row it  *)
(* read, and execute in particular works on the items of that row.  What    *)
(* the exchanges and the review of the case do to a document is the        *)
(* environment at the end of the module.                                   *)
(*                                                                         *)
(* Not modelled: who may act (a guard before anything is read or written;  *)
(* a refused call is one that never starts), addresses of items, and the   *)
(* FAILED item: the one error its catch can see, a missing row, rolls the   *)
(* transaction back.  An item removed and added again while a handler      *)
(* holds it is taken for the same item.                                    *)
(***************************************************************************)
EXTENDS Integers, Sequences, FiniteSets

CONSTANTS
  Doc,           \* found document cases
  Station,
  Req,           \* slots for handlers in flight
  None,          \* null
  Type,          \* codes of the operation types offered
  Requires,      \* type -> the fields its configuration requires
  HighPrivilege, \* types whose configuration asks for approval
  MaxOps,        \* bound: operations ever created
  MaxLog         \* bound: transitions logged per operation

Text  == {"notes", "area"}
Field == Text \cup {"counterpart"}

\* CUSTODY_TRANSITION has an entry for each of these; an administrator may
\* create types with any other code.
Listed == {"RECEIPT", "TRANSFER_OUT", "TRANSFER_IN", "REQUISITION", "HANDOVER",
           "DISPOSAL", "RETURN"}

OpStatus      == {"DRAFT", "SUBMITTED", "APPROVED", "COMPLETED", "CANCELLED"}
ItemStatus    == {"PENDING", "COMPLETED", "SKIPPED"}
FoundStatus   == {"DRAFT", "SUBMITTED", "VERIFIED", "REJECTED", "COMPLETED"}
CustodyStatus == {"WITH_FINDER", "IN_CUSTODY", "IN_TRANSIT", "HANDED_OVER",
                  "DISPOSED"}

ASSUME CustodyAssumption ==
  /\ None \notin Station
  /\ Requires \in [Type -> SUBSET Field]
  /\ HighPrivilege \subseteq Type
  /\ MaxOps \in Nat /\ MaxLog \in Nat

VARIABLES
  docs, \* found cases: status, custody, station, an exchange IN_PROGRESS?
  ops,  \* DocumentOperation rows in creation order, each with its items and log
  req   \* handlers in flight

vars == <<docs, ops, req>>

Document == [status: FoundStatus, custody: CustodyStatus,
             station: Station \cup {None}, open: BOOLEAN]

Item == [status: ItemStatus \cup {"ABSENT"},
         before: CustodyStatus \cup {None}, after: CustodyStatus \cup {None}]

LogStatus == OpStatus \cup {"REJECTED"}

Operation == [type: Type, status: OpStatus, station: Station \cup {None},
              counterpart: Station \cup {None}, given: SUBSET Text,
              items: [Doc -> Item], log: Seq(LogStatus \X LogStatus)]

Step == {"create", "setStation", "setCounterpart", "setTexts", "addItem",
         "removeItem", "skipItem", "submit", "approve", "reject",
         "countExchanges", "execute", "cancel"}

\* A handler in flight: its next statement, the operation it is about and the
\* row it read (or will create), the item it is about.
Request == [step: Step, o: Nat, row: Operation, doc: Doc \cup {None}]

TypeOK ==
  /\ docs \in [Doc -> Document]
  /\ ops \in Seq(Operation)
  /\ req \in [Req -> Request \cup {None}]

Absent  == [status |-> "ABSENT", before |-> None, after |-> None]
Pending == [Absent EXCEPT !.status = "PENDING"]

Init ==
  /\ docs = [d \in Doc |-> [status |-> "DRAFT", custody |-> "WITH_FINDER",
                            station |-> None, open |-> FALSE]]
  /\ ops = <<>>
  /\ req = [r \in Req |-> None]

-----------------------------------------------------------------------------
ItemsOf(op) == {d \in Doc : op.items[d].status # "ABSENT"}

Todo(op)    == {d \in Doc : op.items[d].status = "PENDING"}

Has(op) == op.given \cup {f \in {"counterpart"} : op.counterpart # None}

\* A call is answered with an error unless it gives every required field.
Complete(type, has) == Requires[type] \subseteq has

Load(r, step, o, row, d) ==
  /\ req[r] = None
  /\ req' = [req EXCEPT ![r] = [step |-> step, o |-> o, row |-> row, doc |-> d]]

At(r, step) == req[r] # None /\ req[r].step = step
Done(r)     == req' = [req EXCEPT ![r] = None]

\* A handler that reads operation o and finds it in one of the statuses.
Read(r, step, statuses, d) ==
  \E o \in DOMAIN ops :
    /\ ops[o].status \in statuses
    /\ Load(r, step, o, ops[o], d)

\* The operation with its new status, and the rows of the log that say so.
Moved(op, rows) == [op EXCEPT !.status = rows[Len(rows)][2], !.log = @ \o rows]

\* The transaction of a handler in its last statement; the fromStatus of the row
\* is what the handler read.
Move(r, rows) ==
  /\ ops' = [ops EXCEPT ![req[r].o] = Moved(@, rows)]
  /\ Len(ops[req[r].o].log) + Len(rows) <= MaxLog
  /\ Done(r)
  /\ UNCHANGED docs

-----------------------------------------------------------------------------
(* Drafting *)

\* validateStationRequirements as create calls it: the notes are not passed.
Accepts(type, has) == Complete(type, has \ {"notes"})

\* create: "currentStationId not equal" is false of a null station.
AtSource(type, s, D) ==
  type = "REQUISITION" => \A d \in D : docs[d].station \in {s, None}

NewOperation(type, s, c, given, D) ==
  [type |-> type, status |-> "DRAFT", station |-> s, counterpart |-> c,
   given |-> given, log |-> <<>>,
   items |-> [d \in Doc |-> IF d \in D THEN Pending ELSE Absent]]

\* Texts the type does not require are never looked at.
StartCreate(r) ==
  /\ Len(ops) < MaxOps
  /\ \E type \in Type, s, c \in Station \cup {None}, D \in SUBSET Doc \ {{}} :
       \E given \in SUBSET (Requires[type] \cap Text) :
         LET op == NewOperation(type, s, c, given, D)
         IN  /\ "counterpart" \notin Requires[type] => c = None
             /\ Accepts(type, Has(op))
             /\ c # None => AtSource(type, c, D)
             /\ Load(r, "create", 0, op, None)
  /\ UNCHANGED <<docs, ops>>

Create(r) ==
  /\ At(r, "create")
  /\ Len(ops) < MaxOps
  /\ ops' = Append(ops, req[r].row)
  /\ Done(r)
  /\ UNCHANGED docs

\* update: the fields of the call are judged together with those it leaves out.
\* One field per call: the fields are judged and written independently.
StartUpdate(r) ==
  /\ \E o \in DOMAIN ops :
       /\ ops[o].status = "DRAFT"
       /\ \/ \E s \in Station \cup {None} :
               Load(r, "setStation", o, [ops[o] EXCEPT !.station = s], None)
          \/ \E c \in Station \cup {None} :
               Load(r, "setCounterpart", o, [ops[o] EXCEPT !.counterpart = c], None)
          \/ \E g \in SUBSET (Requires[ops[o].type] \cap Text) :
               Load(r, "setTexts", o, [ops[o] EXCEPT !.given = g], None)
       /\ Complete(ops[o].type, Has(req'[r].row))
  /\ UNCHANGED <<docs, ops>>

Updated(op, step, new) ==
  CASE step = "setStation"     -> [op EXCEPT !.station = new.station]
    [] step = "setCounterpart" -> [op EXCEPT !.counterpart = new.counterpart]
    [] step = "setTexts"       -> [op EXCEPT !.given = new.given]

Update(r) ==
  /\ At(r, "setStation") \/ At(r, "setCounterpart") \/ At(r, "setTexts")
  /\ ops' = [ops EXCEPT ![req[r].o] = Updated(@, req[r].step, req[r].row)]
  /\ Done(r)
  /\ UNCHANGED docs

WithItem(op, d, item) == [op EXCEPT !.items = [@ EXCEPT ![d] = item]]

\* Mutant: documents can be added until the operation is executed.
MutStartAddItem(r) ==
  /\ \E o \in DOMAIN ops, d \in Doc :
       /\ ops[o].status \in {"DRAFT", "APPROVED"}
       /\ d \notin ItemsOf(ops[o])
       /\ Load(r, "addItem", o, ops[o], d)
  /\ UNCHANGED <<docs, ops>>

StartAddItem(r) ==
  /\ \E o \in DOMAIN ops, d \in Doc :
       /\ ops[o].status = "DRAFT"
       /\ d \notin ItemsOf(ops[o])
       /\ Load(r, "addItem", o, ops[o], d)
  /\ UNCHANGED <<docs, ops>>

\* The pair (operation, document) is unique: a second insert is an error.
AddItem(r) ==
  /\ At(r, "addItem")
  /\ req[r].doc \notin ItemsOf(ops[req[r].o])
  /\ ops' = [ops EXCEPT ![req[r].o] = WithItem(@, req[r].doc, Pending)]
  /\ Done(r)
  /\ UNCHANGED docs

StartRemoveItem(r) ==
  /\ \E o \in DOMAIN ops : \E d \in ItemsOf(ops[o]) :
       /\ ops[o].status = "DRAFT"
       /\ Load(r, "removeItem", o, ops[o], d)
  /\ UNCHANGED <<docs, ops>>

RemoveItem(r) ==
  /\ At(r, "removeItem")
  /\ req[r].doc \in ItemsOf(ops[req[r].o])
  /\ ops' = [ops EXCEPT ![req[r].o] = WithItem(@, req[r].doc, Absent)]
  /\ Done(r)
  /\ UNCHANGED docs

StartSkipItem(r) ==
  /\ \E o \in DOMAIN ops : \E d \in Todo(ops[o]) :
       /\ ops[o].status \in {"DRAFT", "APPROVED"}
       /\ Load(r, "skipItem", o, ops[o], d)
  /\ UNCHANGED <<docs, ops>>

SkipItem(r) ==
  /\ At(r, "skipItem")
  /\ req[r].doc \in ItemsOf(ops[req[r].o])
  /\ ops' = [ops EXCEPT ![req[r].o] =
       WithItem(@, req[r].doc, [@.items[req[r].doc] EXCEPT !.status = "SKIPPED"])]
  /\ Done(r)
  /\ UNCHANGED docs

-----------------------------------------------------------------------------
(* The approval cycle *)

StartSubmit(r) ==
  /\ \E o \in DOMAIN ops :
       /\ ops[o].status = "DRAFT"
       /\ ItemsOf(ops[o]) # {}
       /\ Complete(ops[o].type, Has(ops[o]) \cup {"area"})
       /\ Load(r, "submit", o, ops[o], None)
  /\ UNCHANGED <<docs, ops>>

Submit(r) == At(r, "submit") /\ Move(r, <<<<"DRAFT", "SUBMITTED">>>>)

StartApprove(r) == Read(r, "approve", {"SUBMITTED"}, None)
                   /\ UNCHANGED <<docs, ops>>

Approve(r) == At(r, "approve") /\ Move(r, <<<<"SUBMITTED", "APPROVED">>>>)

StartReject(r) == Read(r, "reject", {"SUBMITTED"}, None)
                  /\ UNCHANGED <<docs, ops>>

Reject(r) ==
  At(r, "reject")
    /\ Move(r, <<<<"SUBMITTED", "REJECTED">>, <<"REJECTED", "DRAFT">>>>)

StartCancel(r) == Read(r, "cancel", OpStatus \ {"COMPLETED", "CANCELLED"}, None)
                  /\ UNCHANGED <<docs, ops>>

Cancel(r) == At(r, "cancel") /\ Move(r, <<<<req[r].row.status, "CANCELLED">>>>)

-----------------------------------------------------------------------------
(* Execution *)

\* Mutant: the approval is not asked for.
MutStartExecute(r) ==
  /\ \E o \in DOMAIN ops :
       /\ ops[o].status \in {"DRAFT", "APPROVED"}
       /\ ItemsOf(ops[o]) # {}
       /\ Load(r, IF ops[o].type = "RECEIPT" THEN "countExchanges" ELSE "execute",
               o, ops[o], None)
  /\ UNCHANGED <<docs, ops>>

StartExecute(r) ==
  /\ \E o \in DOMAIN ops :
       /\ ops[o].status \in {"DRAFT", "APPROVED"}
       /\ ~(ops[o].type \in HighPrivilege /\ ops[o].status = "DRAFT")
       /\ ItemsOf(ops[o]) # {}
       /\ Load(r, IF ops[o].type = "RECEIPT" THEN "countExchanges" ELSE "execute",
               o, ops[o], None)
  /\ UNCHANGED <<docs, ops>>

\* A receipt first counts the exchanges IN_PROGRESS, outside the transaction.
CountExchanges(r) ==
  /\ At(r, "countExchanges")
  /\ \A d \in ItemsOf(req[r].row) : ~docs[d].open
  /\ req' = [req EXCEPT ![r].step = "execute"]
  /\ UNCHANGED <<docs, ops>>

\* CUSTODY_TRANSITION: what an operation does to a document, whose custody it
\* does not ask.  A receipt leaves it as the confirmed exchange has put it.
Applied(type, s, d) ==
  CASE type \in {"TRANSFER_IN", "RETURN"} ->
         [docs[d] EXCEPT !.custody = "IN_CUSTODY", !.station = s]
    [] type = "TRANSFER_OUT" ->
         [docs[d] EXCEPT !.custody = "IN_TRANSIT", !.station = None]
    [] type = "HANDOVER" -> [docs[d] EXCEPT !.custody = "HANDED_OVER"]
    [] type = "DISPOSAL" -> [docs[d] EXCEPT !.custody = "DISPOSED"]
    [] OTHER -> docs[d]

\* Mutant: a receipt takes every document for collected.
MutSettledAll(type, s, d) ==
  [status |-> "COMPLETED", before |-> docs[d].custody,
   after |-> Applied(type, s, d).custody]

\* Mutant: a document that was not collected is passed over, its item untouched.
MutSettledPending(type, s, d) ==
  IF type = "RECEIPT" /\ docs[d].status # "SUBMITTED" THEN Pending
  ELSE MutSettledAll(type, s, d)

\* Mutant: the custody before is read after the change.
MutSettledLate(type, s, d) ==
  [status |-> "COMPLETED", before |-> Applied(type, s, d).custody,
   after |-> Applied(type, s, d).custody]

Settled(type, s, d) ==
  CASE type = "RECEIPT" /\ docs[d].status # "SUBMITTED" ->
         [Absent EXCEPT !.status = "SKIPPED"]
    [] type \in Listed \ {"RECEIPT"} ->
         [status |-> "COMPLETED", before |-> docs[d].custody,
          after |-> Applied(type, s, d).custody]
    [] OTHER ->
         [status |-> "COMPLETED", before |-> "WITH_FINDER",
          after |-> IF type = "RECEIPT" THEN "IN_CUSTODY" ELSE "WITH_FINDER"]

Executed(op, row) ==
  [op EXCEPT !.status = "COMPLETED",
             !.log = Append(@, <<row.status, "COMPLETED">>),
             !.items = [d \in Doc |->
                IF d \in Todo(row) THEN Settled(row.type, row.station, d) ELSE @[d]]]

\* The transaction, on the items that were pending when the row was read; one
\* that has been removed since makes it fail as a whole.
Execute(r) ==
  LET row == req[r].row  o == req[r].o IN
  /\ At(r, "execute")
  /\ Todo(row) \subseteq ItemsOf(ops[o])
  /\ Len(ops[o].log) < MaxLog
  /\ ops' = [ops EXCEPT ![o] = Executed(@, row)]
  /\ docs' = [d \in Doc |-> IF d \in Todo(row) THEN Applied(row.type, row.station, d)
                            ELSE docs[d]]
  /\ Done(r)

-----------------------------------------------------------------------------
(* The exchanges and the review of a document *)

OpenExchange(d) ==
  /\ docs[d].status \in {"DRAFT", "VERIFIED"}
  /\ ~docs[d].open
  /\ docs' = [docs EXCEPT ![d].open = TRUE]
  /\ UNCHANGED <<ops, req>>

CloseExchange(d) ==
  /\ docs[d].open
  /\ docs' = [docs EXCEPT ![d].open = FALSE]
  /\ UNCHANGED <<ops, req>>

CompleteExchange(d) ==
  /\ docs[d].open
  /\ \/ /\ docs[d].status = "DRAFT"
        /\ \E s \in Station :
             docs' = [docs EXCEPT ![d] = [status |-> "SUBMITTED",
               custody |-> "IN_CUSTODY", station |-> s, open |-> FALSE]]
     \/ /\ docs[d].status = "VERIFIED"
        /\ docs' = [docs EXCEPT ![d] = [status |-> "COMPLETED",
             custody |-> "HANDED_OVER", station |-> None, open |-> FALSE]]
  /\ UNCHANGED <<ops, req>>

ReviewCase(d) ==
  /\ docs[d].status = "SUBMITTED"
  /\ \E to \in {"VERIFIED", "REJECTED"} : docs' = [docs EXCEPT ![d].status = to]
  /\ UNCHANGED <<ops, req>>

\* A handler dies between two statements: a crash, or a statement that fails.
Die(r) == req[r] # None /\ Done(r) /\ UNCHANGED <<docs, ops>>

\* The statuses of an operation, which the transitions service moves.
Transition(r) ==
  \/ StartSubmit(r)     \/ Submit(r)
  \/ StartApprove(r)    \/ Approve(r)
  \/ StartReject(r)     \/ Reject(r)
  \/ StartCancel(r)     \/ Cancel(r)
  \/ StartExecute(r)    \/ CountExchanges(r) \/ Execute(r)

Handler(r) ==
  \/ StartCreate(r)     \/ Create(r)
  \/ StartUpdate(r)     \/ Update(r)
  \/ StartAddItem(r)    \/ AddItem(r)
  \/ StartRemoveItem(r) \/ RemoveItem(r)
  \/ StartSkipItem(r)   \/ SkipItem(r)
  \/ Transition(r)
  \/ Die(r)

Next ==
  \/ \E r \in Req : Handler(r)
  \/ \E d \in Doc : OpenExchange(d) \/ CloseExchange(d) \/ CompleteExchange(d)
                      \/ ReviewCase(d)

Spec == Init /\ [][Next]_vars

-----------------------------------------------------------------------------
(* What holds however many handlers overlap *)

\* The log of an operation ends where the operation is, whichever of two racing
\* transactions commits last; a rejected operation is back in its draft.
LogTracksStatus ==
  \A o \in DOMAIN ops :
    ops[o].status = IF ops[o].log = <<>> THEN "DRAFT"
                    ELSE ops[o].log[Len(ops[o].log)][2]

\* A high-privilege operation is never executed before a supervisor approved
\* it, however submissions, rejections and executions race.
ApprovedBeforeExecution ==
  \A o \in DOMAIN ops : \A j \in DOMAIN ops[o].log :
    ops[o].type \in HighPrivilege /\ ops[o].log[j][2] = "COMPLETED" =>
      \E i \in 1..(j - 1) : ops[o].log[i] = <<"SUBMITTED", "APPROVED">>

\* A receipt counts a document as received only if its finder's code was
\* confirmed: the case has left its draft.
ReceivedWereCollected ==
  \A o \in DOMAIN ops : \A d \in Doc :
    ops[o].type = "RECEIPT" /\ ops[o].items[d].status = "COMPLETED" =>
      docs[d].status # "DRAFT"

\* Custody that moves without the workflow is written down: the step that moves
\* it completes an operation with an item saying from what to what.
CustodyMovesRecorded ==
  [][\A d \in Doc :
       docs'[d].custody # docs[d].custody /\ docs'[d].status = docs[d].status =>
         \E o \in DOMAIN ops :
           /\ ops'[o].status = "COMPLETED"
           /\ ops'[o].items[d] = [status |-> "COMPLETED",
                before |-> docs[d].custody, after |-> docs'[d].custody]]_vars

-----------------------------------------------------------------------------
(* What holds when handlers do not overlap, crashes included *)

\* "COMPLETED: all items done": none is left pending.
CompletedIsDone ==
  \A o \in DOMAIN ops : \A d \in Doc :
    ops[o].status = "COMPLETED" => ops[o].items[d].status # "PENDING"

\* A skipped item is excluded from execution: it never counts as done.
StaysSkipped(o, d) ==
  ops[o].items[d].status = "SKIPPED" => ops'[o].items[d].status # "COMPLETED"

\* While an operation waits for approval or execution its documents and its
\* stations stay.
KeepsContent(o) ==
  ops[o].status \in {"SUBMITTED", "APPROVED"} =>
    /\ ItemsOf(ops'[o]) = ItemsOf(ops[o])
    /\ ops'[o].station = ops[o].station
    /\ ops'[o].counterpart = ops[o].counterpart
=============================================================================
