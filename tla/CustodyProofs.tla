---------------------------- MODULE CustodyProofs ----------------------------
(***************************************************************************)
(* For any documents, operation types and overlapping handlers: nothing    *)
(* that needs approval is executed without it, and nothing is received     *)
(* that was not collected, and what moves custody is written down.         *)
(* Handlers that run one after the other also keep the content of what was  *)
(* submitted, and leave nothing pending: the row each of them holds is the  *)
(* operation as it is, which is what overlapping handlers lose.             *)
(***************************************************************************)
EXTENDS SerialCustody, RowLemmas

APPROVAL == <<"SUBMITTED", "APPROVED">>

Approved(op) == \E i \in DOMAIN op.log : op.log[i] = APPROVAL

\* The log of an operation tells its status; it is approved by approvals only, and
\* executed after one of them if it needs one.
OpIsSound(op) ==
  /\ op.status = IF op.log = <<>> THEN "DRAFT" ELSE op.log[Len(op.log)][2]
  /\ \A i \in DOMAIN op.log : op.log[i][2] = "APPROVED" => op.log[i] = APPROVAL
  /\ \A j \in DOMAIN op.log :
       op.type \in HighPrivilege /\ op.log[j][2] = "COMPLETED" =>
         \E i \in 1..(j - 1) : op.log[i] = APPROVAL

OpsAreSound == \A o \in DOMAIN ops : OpIsSound(ops[o])

\* What a handler in flight holds: a draft nothing has happened to, or an operation
\* that is there, and if it is to be executed and needs approval, that has been approved.
SlotIsSound(q) ==
  /\ q.step = "create" => /\ q.row.status = "DRAFT" /\ q.row.log = <<>>
                          /\ \A d \in Doc : q.row.items[d].status # "COMPLETED"
  /\ q.step # "create" => q.o \in DOMAIN ops /\ q.row.type = ops[q.o].type
  /\ q.step \in {"addItem", "removeItem", "skipItem"} => q.doc \in Doc
  /\ q.step \in {"countExchanges", "execute"} /\ q.row.type \in HighPrivilege =>
       Approved(ops[q.o])

SlotsAreSound == \A r \in Req : req[r] # None => SlotIsSound(req[r])

IInv == TypeOK /\ OpsAreSound /\ ReceivedWereCollected /\ SlotsAreSound

LogRow == LogStatus \X LogStatus

-----------------------------------------------------------------------------
(* The tables *)

\* The first state.
LEMMA InitIsSound == Init => IInv
<1> SUFFICES ASSUME Init PROVE IInv
  OBVIOUS
<1>1. TypeOK
  BY DEF Init, TypeOK, Document, FoundStatus, CustodyStatus
<1>2. DOMAIN ops = {} /\ \A r \in Req : req[r] = None
  BY DEF Init
<1> QED BY <1>1, <1>2 DEF IInv, OpsAreSound, ReceivedWereCollected, SlotsAreSound

\* A handler ends with the operation o rewritten.
LEMMA OperationIsWritten ==
  ASSUME IInv, NEW r \in Req, Done(r), NEW o \in DOMAIN ops, NEW new \in Operation,
         ops' = [ops EXCEPT ![o] = new], new.type = ops[o].type, OpIsSound(new),
         Approved(ops[o]) => Approved(new), docs' \in [Doc -> Document],
         \A d \in Doc : docs[d].status # "DRAFT" => docs'[d].status # "DRAFT",
         \A d \in Doc : new.type = "RECEIPT" /\ new.items[d].status = "COMPLETED" =>
                          docs'[d].status # "DRAFT"
  PROVE  IInv'
<1>1. ops \in Seq(Operation) /\ req \in [Req -> Request \cup {None}]
  BY DEF IInv, TypeOK
<1>2. /\ ops' \in Seq(Operation) /\ DOMAIN ops' = DOMAIN ops
      /\ \A p \in DOMAIN ops : ops'[p] = IF p = o THEN new ELSE ops[p]
  BY <1>1, UpdateInSeq
<1>3. req' \in [Req -> Request \cup {None}]
      /\ \A q \in Req : req'[q] # None => req'[q] = req[q]
  BY <1>1 DEF Done
<1>4. TypeOK'
  BY <1>2, <1>3 DEF TypeOK
<1>5. \A p \in DOMAIN ops : OpIsSound(ops'[p])
  BY <1>2 DEF IInv, OpsAreSound
<1>6. OpsAreSound'
  BY <1>2, <1>5 DEF OpsAreSound, OpIsSound
<1>7. ReceivedWereCollected'
  BY <1>2 DEF IInv, ReceivedWereCollected
<1>8. ASSUME NEW q \in Req, req'[q] # None PROVE SlotIsSound(req[q])'
  <2>1. req'[q] = req[q] /\ SlotIsSound(req[q])
    BY <1>3, <1>8 DEF IInv, SlotsAreSound
  <2>2. \A p \in DOMAIN ops : ops'[p].type = ops[p].type
                            /\ (Approved(ops[p]) => Approved(ops'[p]))
    BY <1>2
  <2> QED BY <1>2, <2>1, <2>2 DEF SlotIsSound, Approved
<1>9. SlotsAreSound'
  BY <1>8 DEF SlotsAreSound
<1> QED BY <1>4, <1>6, <1>7, <1>9 DEF IInv

\* A handler reads, and what it will do is in its slot.
LEMMA SlotIsFilled ==
  ASSUME IInv, NEW r \in Req, NEW slot \in Request, SlotIsSound(slot),
         req' = [req EXCEPT ![r] = slot], UNCHANGED <<docs, ops>>
  PROVE  IInv'
<1>1. TypeOK'
  BY DEF IInv, TypeOK
<1>2. OpsAreSound' /\ ReceivedWereCollected'
  BY DEF IInv, OpsAreSound, ReceivedWereCollected, OpIsSound
<1>3. \A q \in Req : req'[q] # None => SlotIsSound(req'[q])
  BY DEF IInv, TypeOK, SlotsAreSound
<1>4. SlotsAreSound'
  BY <1>3 DEF SlotsAreSound, SlotIsSound, Approved
<1> QED BY <1>1, <1>2, <1>4 DEF IInv

\* Nothing but the documents changes, none of which goes back to its draft.
LEMMA DocumentsMove ==
  ASSUME IInv, docs' \in [Doc -> Document], UNCHANGED <<ops, req>>,
         \A d \in Doc : docs[d].status # "DRAFT" => docs'[d].status # "DRAFT"
  PROVE  IInv'
<1>1. TypeOK'
  BY DEF IInv, TypeOK
<1>2. OpsAreSound' /\ ReceivedWereCollected'
  BY DEF IInv, OpsAreSound, ReceivedWereCollected, OpIsSound
<1>3. SlotsAreSound'
  BY DEF IInv, SlotsAreSound, SlotIsSound, Approved
<1> QED BY <1>1, <1>2, <1>3 DEF IInv

LEMMA DieIsSound ==
  ASSUME IInv, NEW r \in Req, Die(r) PROVE IInv'
<1>1. TypeOK'
  BY DEF IInv, TypeOK, Die, Done
<1>2. OpsAreSound' /\ ReceivedWereCollected'
  BY DEF IInv, OpsAreSound, ReceivedWereCollected, OpIsSound, Die
<1>3. \A q \in Req : req'[q] # None => req'[q] = req[q]
  BY DEF IInv, TypeOK, Die, Done
<1>4. SlotsAreSound'
  BY <1>3 DEF IInv, SlotsAreSound, SlotIsSound, Approved, Die
<1> QED BY <1>1, <1>2, <1>4 DEF IInv

\* What a slot of this handler says of its operation.
LEMMA SlotInFlight ==
  ASSUME IInv, NEW r \in Req, req[r] # None, req[r].step # "create"
  PROVE  /\ req[r] \in Request /\ SlotIsSound(req[r])
         /\ req[r].o \in DOMAIN ops /\ ops[req[r].o] \in Operation
         /\ OpIsSound(ops[req[r].o]) /\ req[r].row.type = ops[req[r].o].type
<1>1. req[r] \in Request /\ SlotIsSound(req[r])
  BY DEF IInv, TypeOK, SlotsAreSound
<1>2. req[r].o \in DOMAIN ops /\ req[r].row.type = ops[req[r].o].type
  BY <1>1 DEF SlotIsSound
<1> QED BY <1>1, <1>2 DEF IInv, TypeOK, OpsAreSound

-----------------------------------------------------------------------------
(* Drafting *)

\* Loads of an operation that is there, for anything but its execution.
LEMMA ReadIsSound ==
  ASSUME IInv, NEW r \in Req, NEW step \in Step \ {"create", "countExchanges", "execute"},
         NEW o \in DOMAIN ops, NEW row \in Operation, row.type = ops[o].type,
         NEW d \in Doc \cup {None},
         step \in {"addItem", "removeItem", "skipItem"} => d \in Doc,
         Load(r, step, o, row, d), UNCHANGED <<docs, ops>>
  PROVE  IInv'
<1> DEFINE slot == [step |-> step, o |-> o, row |-> row, doc |-> d]
<1>1. slot \in Request
  BY DEF IInv, TypeOK, Request
<1>2. SlotIsSound(slot)
  BY DEF SlotIsSound
<1>3. req' = [req EXCEPT ![r] = slot]
  BY DEF Load
<1> HIDE DEF slot
<1> QED BY <1>1, <1>2, <1>3, SlotIsFilled

LEMMA StartCreateIsSound ==
  ASSUME IInv, NEW r \in Req, StartCreate(r) PROVE IInv'
<1>1. PICK type \in Type, s \in Station \cup {None}, c \in Station \cup {None},
           D \in SUBSET Doc :
        \E given \in SUBSET (Requires[type] \cap Text) :
          Load(r, "create", 0, NewOperation(type, s, c, given, D), None)
  BY DEF StartCreate
<1>0. PICK given \in SUBSET (Requires[type] \cap Text) :
        Load(r, "create", 0, NewOperation(type, s, c, given, D), None)
  BY <1>1
<1> DEFINE op   == NewOperation(type, s, c, given, D)
           slot == [step |-> "create", o |-> 0, row |-> op, doc |-> None]
<1>2. <<>> \in Seq(LogRow)
  OBVIOUS
<1>3. [d \in Doc |-> IF d \in D THEN Pending ELSE Absent] \in [Doc -> Item]
  BY DEF Pending, Absent, Item, ItemStatus
<1>4. op \in Operation
  BY <1>2, <1>3 DEF NewOperation, Operation, OpStatus, LogRow
<1>5. /\ op.status = "DRAFT" /\ op.log = <<>>
      /\ \A d \in Doc : op.items[d].status # "COMPLETED"
  BY DEF NewOperation, Pending, Absent
<1> HIDE DEF op
<1>6. slot \in Request /\ SlotIsSound(slot)
  BY <1>4, <1>5 DEF Request, Step, SlotIsSound
<1>7. req' = [req EXCEPT ![r] = slot] /\ UNCHANGED <<docs, ops>>
  BY <1>0 DEF Load, StartCreate, op
<1> HIDE DEF slot
<1> QED BY <1>6, <1>7, SlotIsFilled

LEMMA CreateIsSound ==
  ASSUME IInv, NEW r \in Req, Create(r) PROVE IInv'
<1> DEFINE new == req[r].row
<1>1. req[r] \in Request /\ SlotIsSound(req[r]) /\ req[r].step = "create"
  BY DEF IInv, TypeOK, SlotsAreSound, Create, At
<1>2. /\ new \in Operation /\ new.status = "DRAFT" /\ new.log = <<>>
      /\ \A d \in Doc : new.items[d].status # "COMPLETED"
  BY <1>1 DEF Request, SlotIsSound
<1>3. ops \in Seq(Operation) /\ ops' = Append(ops, new) /\ Done(r) /\ UNCHANGED docs
  BY DEF IInv, TypeOK, Create
<1> HIDE DEF new
<1>4. /\ ops' \in Seq(Operation) /\ DOMAIN ops' = DOMAIN ops \cup {Len(ops) + 1}
      /\ \A o \in DOMAIN ops : ops'[o] = ops[o]
      /\ ops'[Len(ops) + 1] = new
  BY <1>2, <1>3, AppendRows
<1>5. TypeOK'
  BY <1>3, <1>4 DEF IInv, TypeOK, Done
<1>6. OpIsSound(new)
  BY <1>2 DEF OpIsSound
<1>7. \A o \in DOMAIN ops' : OpIsSound(ops'[o])
  BY <1>4, <1>6 DEF IInv, OpsAreSound
<1>8. OpsAreSound'
  BY <1>7 DEF OpsAreSound, OpIsSound
<1>9. ReceivedWereCollected'
  BY <1>2, <1>3, <1>4 DEF IInv, ReceivedWereCollected
<1>10. \A q \in Req : req'[q] # None => req'[q] = req[q]
  BY <1>3 DEF IInv, TypeOK, Done
<1>11. SlotsAreSound'
  BY <1>4, <1>10 DEF IInv, SlotsAreSound, SlotIsSound, Approved
<1> QED BY <1>5, <1>8, <1>9, <1>11 DEF IInv

LEMMA StartUpdateIsSound ==
  ASSUME IInv, NEW r \in Req, StartUpdate(r) PROVE IInv'
<1>1. PICK o \in DOMAIN ops :
        \/ \E s \in Station \cup {None} :
             Load(r, "setStation", o, [ops[o] EXCEPT !.station = s], None)
        \/ \E c \in Station \cup {None} :
             Load(r, "setCounterpart", o, [ops[o] EXCEPT !.counterpart = c], None)
        \/ \E g \in SUBSET (Requires[ops[o].type] \cap Text) :
             Load(r, "setTexts", o, [ops[o] EXCEPT !.given = g], None)
  BY DEF StartUpdate
<1>2. ops[o] \in Operation /\ UNCHANGED <<docs, ops>>
  BY DEF IInv, TypeOK, StartUpdate
<1>3. ASSUME NEW s \in Station \cup {None},
             Load(r, "setStation", o, [ops[o] EXCEPT !.station = s], None)
      PROVE  IInv'
  <2>1. [ops[o] EXCEPT !.station = s] \in Operation
        /\ [ops[o] EXCEPT !.station = s].type = ops[o].type
    BY <1>2 DEF Operation
  <2> QED BY <1>2, <1>3, <2>1, ReadIsSound DEF Step
<1>4. ASSUME NEW c \in Station \cup {None},
             Load(r, "setCounterpart", o, [ops[o] EXCEPT !.counterpart = c], None)
      PROVE  IInv'
  <2>1. [ops[o] EXCEPT !.counterpart = c] \in Operation
        /\ [ops[o] EXCEPT !.counterpart = c].type = ops[o].type
    BY <1>2 DEF Operation
  <2> QED BY <1>2, <1>4, <2>1, ReadIsSound DEF Step
<1>5. ASSUME NEW g \in SUBSET (Requires[ops[o].type] \cap Text),
             Load(r, "setTexts", o, [ops[o] EXCEPT !.given = g], None)
      PROVE  IInv'
  <2>1. [ops[o] EXCEPT !.given = g] \in Operation
        /\ [ops[o] EXCEPT !.given = g].type = ops[o].type
    BY <1>2 DEF Operation
  <2> QED BY <1>2, <1>5, <2>1, ReadIsSound DEF Step
<1> QED BY <1>1, <1>3, <1>4, <1>5

\* A change that leaves the status and the log alone, and completes no item.
LEMMA ContentIsWritten ==
  ASSUME IInv, NEW r \in Req, req[r] # None, req[r].step # "create", NEW new \in Operation,
         LET op == ops[req[r].o] IN
           /\ new.type = op.type /\ new.status = op.status /\ new.log = op.log
           /\ \A d \in Doc : new.items[d].status = "COMPLETED" => op.items[d].status = "COMPLETED",
         ops' = [ops EXCEPT ![req[r].o] = new], Done(r), UNCHANGED docs
  PROVE  IInv'
<1> DEFINE o == req[r].o
<1>1. o \in DOMAIN ops /\ ops[o] \in Operation /\ OpIsSound(ops[o])
  BY SlotInFlight
<1>2. OpIsSound(new) /\ (Approved(ops[o]) => Approved(new))
  BY <1>1 DEF OpIsSound, Approved
<1>3. \A d \in Doc : new.type = "RECEIPT" /\ new.items[d].status = "COMPLETED" =>
        docs'[d].status # "DRAFT"
  BY <1>1 DEF IInv, ReceivedWereCollected
<1> HIDE DEF o
<1>4. ops' = [ops EXCEPT ![o] = new] /\ new.type = ops[o].type
  BY DEF o
<1> QED BY <1>1, <1>2, <1>3, <1>4, OperationIsWritten DEF IInv, TypeOK

LEMMA UpdateIsSound ==
  ASSUME IInv, NEW r \in Req, Update(r) PROVE IInv'
<1> DEFINE op  == ops[req[r].o]
           new == Updated(op, req[r].step, req[r].row)
<1>1. /\ req[r] # None /\ req[r].step \in {"setStation", "setCounterpart", "setTexts"}
      /\ ops' = [ops EXCEPT ![req[r].o] = new] /\ Done(r) /\ UNCHANGED docs
  BY DEF Update, At
<1>2. req[r] \in Request /\ op \in Operation
  BY <1>1, SlotInFlight
<1>3. req[r].row \in Operation
  BY <1>2 DEF Request
<1>4. /\ new \in Operation
      /\ new.type = op.type /\ new.status = op.status /\ new.log = op.log
      /\ new.items = op.items
  <2>1. CASE req[r].step = "setStation"
    BY <1>2, <1>3, <2>1 DEF Updated, Operation
  <2>2. CASE req[r].step = "setCounterpart"
    BY <1>2, <1>3, <2>2 DEF Updated, Operation
  <2>3. CASE req[r].step = "setTexts"
    BY <1>2, <1>3, <2>3 DEF Updated, Operation
  <2> QED BY <1>1, <2>1, <2>2, <2>3
<1> HIDE DEF new
<1> QED BY <1>1, <1>4, ContentIsWritten

LEMMA StartItemIsSound ==
  ASSUME IInv, NEW r \in Req, StartAddItem(r) \/ StartRemoveItem(r) \/ StartSkipItem(r)
  PROVE  IInv'
<1>1. PICK o \in DOMAIN ops, d \in Doc, step \in {"addItem", "removeItem", "skipItem"} :
        Load(r, step, o, ops[o], d) /\ UNCHANGED <<docs, ops>>
  BY DEF StartAddItem, StartRemoveItem, StartSkipItem, ItemsOf, Todo
<1>2. ops[o] \in Operation
  BY DEF IInv, TypeOK
<1>3. step \in Step \ {"create", "countExchanges", "execute"}
  BY DEF Step
<1> QED BY <1>1, <1>2, <1>3, ReadIsSound

LEMMA ItemIsWritten ==
  ASSUME IInv, NEW r \in Req, req[r] # None, req[r].step \in {"addItem", "removeItem", "skipItem"},
         NEW item \in Item, item.status # "COMPLETED",
         ops' = [ops EXCEPT ![req[r].o] = WithItem(@, req[r].doc, item)],
         Done(r), UNCHANGED docs
  PROVE  IInv'
<1> DEFINE op  == ops[req[r].o]
           d   == req[r].doc
           new == WithItem(op, d, item)
<1>1. op \in Operation /\ d \in Doc
  BY SlotInFlight DEF SlotIsSound
<1>2. op.items \in [Doc -> Item]
  BY <1>1 DEF Operation
<1>3. [op.items EXCEPT ![d] = item] \in [Doc -> Item]
  BY <1>1, <1>2
<1>4. /\ new \in Operation
      /\ new.type = op.type /\ new.status = op.status /\ new.log = op.log
      /\ new.items = [op.items EXCEPT ![d] = item]
  BY <1>1, <1>3 DEF WithItem, Operation
<1>5. \A e \in Doc : new.items[e].status = "COMPLETED" => op.items[e].status = "COMPLETED"
  BY <1>1, <1>2, <1>4
<1>6. ops' = [ops EXCEPT ![req[r].o] = new]
  OBVIOUS
<1> HIDE DEF new
<1> QED BY <1>4, <1>5, <1>6, ContentIsWritten

LEMMA AddItemIsSound ==
  ASSUME IInv, NEW r \in Req, AddItem(r) PROVE IInv'
<1>1. Pending \in Item /\ Pending.status # "COMPLETED"
  BY DEF Pending, Absent, Item, ItemStatus
<1> QED BY <1>1, ItemIsWritten DEF AddItem, At

LEMMA RemoveItemIsSound ==
  ASSUME IInv, NEW r \in Req, RemoveItem(r) PROVE IInv'
<1>1. Absent \in Item /\ Absent.status # "COMPLETED"
  BY DEF Absent, Item
<1> QED BY <1>1, ItemIsWritten DEF RemoveItem, At

LEMMA SkipItemIsSound ==
  ASSUME IInv, NEW r \in Req, SkipItem(r) PROVE IInv'
<1> DEFINE item == [ops[req[r].o].items[req[r].doc] EXCEPT !.status = "SKIPPED"]
<1>1. req[r] # None /\ req[r].step = "skipItem"
  BY DEF SkipItem, At
<1>2. ops[req[r].o] \in Operation /\ req[r].doc \in Doc
  BY <1>1, SlotInFlight DEF SlotIsSound
<1>3. ops[req[r].o].items[req[r].doc] \in Item
  BY <1>2 DEF Operation
<1>4. item \in Item /\ item.status # "COMPLETED"
  BY <1>3 DEF Item, ItemStatus
<1>5. ops' = [ops EXCEPT ![req[r].o] = WithItem(@, req[r].doc, item)] /\ Done(r) /\ UNCHANGED docs
  BY DEF SkipItem
<1> HIDE DEF item
<1> QED BY <1>1, <1>4, <1>5, ItemIsWritten

-----------------------------------------------------------------------------
(* The approval cycle and execution *)

LEMMA StartMoveIsSound ==
  ASSUME IInv, NEW r \in Req, StartSubmit(r) \/ StartApprove(r) \/ StartReject(r) \/ StartCancel(r)
  PROVE  IInv'
<1>1. PICK o \in DOMAIN ops, step \in {"submit", "approve", "reject", "cancel"} :
        Load(r, step, o, ops[o], None) /\ UNCHANGED <<docs, ops>>
  BY DEF StartSubmit, StartApprove, StartReject, StartCancel, Read
<1>2. ops[o] \in Operation
  BY DEF IInv, TypeOK
<1>3. step \in Step \ {"create", "countExchanges", "execute"}
  BY DEF Step
<1> QED BY <1>1, <1>2, <1>3, ReadIsSound

\* Rows other than those of an execution leave an operation sound.
LEMMA MovedIsSound ==
  ASSUME NEW op \in Operation, OpIsSound(op), NEW rows \in Seq(LogRow), rows # <<>>,
         rows[Len(rows)][2] \in OpStatus,
         \A i \in DOMAIN rows : /\ rows[i][2] = "APPROVED" => rows[i] = APPROVAL
                                /\ rows[i][2] # "COMPLETED"
  PROVE  LET new == Moved(op, rows) IN
         /\ new \in Operation /\ OpIsSound(new) /\ (Approved(op) => Approved(new))
         /\ new.type = op.type /\ new.items = op.items
<1> DEFINE new == Moved(op, rows)
           log == op.log \o rows
<1>1. op.log \in Seq(LogRow)
  BY DEF Operation, LogRow
<1>2. /\ log \in Seq(LogRow) /\ Len(log) = Len(op.log) + Len(rows)
      /\ \A i \in 1..Len(op.log) : log[i] = op.log[i]
      /\ \A i \in 1..Len(rows) : log[Len(op.log) + i] = rows[i]
  BY <1>1, ConcatProperties
<1>3. Len(rows) \in Nat /\ Len(rows) >= 1 /\ Len(op.log) \in Nat
  BY <1>1
<1>4. DOMAIN op.log = 1..Len(op.log) /\ DOMAIN log = 1..Len(log) /\ DOMAIN rows = 1..Len(rows)
  BY <1>1, <1>2
<1> HIDE DEF log
<1>5. /\ new.type = op.type /\ new.items = op.items /\ new.log = log
      /\ new.status = rows[Len(rows)][2]
      /\ new \in Operation
  BY <1>2 DEF Moved, Operation, log, LogRow
<1> HIDE DEF new
<1>6. log # <<>> /\ log[Len(log)] = rows[Len(rows)]
  BY <1>2, <1>3
<1>7. \A i \in DOMAIN log : \/ i \in DOMAIN op.log /\ log[i] = op.log[i]
                            \/ \E k \in DOMAIN rows : log[i] = rows[k]
  <2> SUFFICES ASSUME NEW i \in 1..Len(log), i \notin 1..Len(op.log)
               PROVE  \E k \in DOMAIN rows : log[i] = rows[k]
    BY <1>2, <1>4
  <2>1. PICK k \in 1..Len(rows) : i = Len(op.log) + k
    <3>1. i - Len(op.log) \in 1..Len(rows) /\ i = Len(op.log) + (i - Len(op.log))
      BY <1>2, <1>3
    <3> QED BY <3>1
  <2>2. log[Len(op.log) + k] = rows[k]
    BY <1>2
  <2> QED BY <1>4, <2>1, <2>2
<1>8. \A i \in DOMAIN log : log[i][2] = "APPROVED" => log[i] = APPROVAL
  BY <1>7 DEF OpIsSound
<1>9. \A j \in DOMAIN log : op.type \in HighPrivilege /\ log[j][2] = "COMPLETED" =>
        \E i \in 1..(j - 1) : log[i] = APPROVAL
  <2> SUFFICES ASSUME NEW j \in DOMAIN log, op.type \in HighPrivilege, log[j][2] = "COMPLETED"
               PROVE  \E i \in 1..(j - 1) : log[i] = APPROVAL
    OBVIOUS
  <2>1. j \in DOMAIN op.log /\ op.log[j][2] = "COMPLETED"
    BY <1>7
  <2>2. PICK i \in 1..(j - 1) : op.log[i] = APPROVAL
    BY <2>1 DEF OpIsSound
  <2>3. i \in 1..Len(op.log)
    BY <1>3, <1>4, <2>1
  <2> QED BY <1>2, <2>2, <2>3
<1>10. Approved(op) => Approved(new)
  BY <1>2, <1>3, <1>4, <1>5 DEF Approved
<1>11. OpIsSound(new)
  BY <1>5, <1>6, <1>8, <1>9 DEF OpIsSound
<1> QED BY <1>5, <1>10, <1>11 DEF new

LEMMA MoveIsSound ==
  ASSUME IInv, NEW r \in Req, req[r] # None, req[r].step # "create",
         NEW rows \in Seq(LogRow), rows # <<>>, rows[Len(rows)][2] \in OpStatus,
         \A i \in DOMAIN rows : /\ rows[i][2] = "APPROVED" => rows[i] = APPROVAL
                                /\ rows[i][2] # "COMPLETED",
         Move(r, rows)
  PROVE  IInv'
<1> DEFINE o   == req[r].o
           new == Moved(ops[o], rows)
<1>1. o \in DOMAIN ops /\ ops[o] \in Operation /\ OpIsSound(ops[o])
  BY SlotInFlight
<1>2. /\ new \in Operation /\ OpIsSound(new) /\ (Approved(ops[o]) => Approved(new))
      /\ new.type = ops[o].type /\ new.items = ops[o].items
  BY <1>1, MovedIsSound
<1>3. ops' = [ops EXCEPT ![o] = new] /\ Done(r) /\ UNCHANGED docs
  BY DEF Move
<1> HIDE DEF new, o
<1>4. \A d \in Doc : new.type = "RECEIPT" /\ new.items[d].status = "COMPLETED" =>
        docs'[d].status # "DRAFT"
  BY <1>1, <1>2, <1>3 DEF IInv, ReceivedWereCollected
<1> QED BY <1>1, <1>2, <1>3, <1>4, OperationIsWritten DEF IInv, TypeOK

\* A log that grows by one row.
LEMMA OneRow ==
  ASSUME NEW from \in LogStatus, NEW to \in LogStatus
  PROVE  /\ <<<<from, to>>>> \in Seq(LogRow) /\ <<<<from, to>>>> # <<>>
         /\ Len(<<<<from, to>>>>) = 1 /\ DOMAIN <<<<from, to>>>> = 1..1
  BY DEF LogRow

LEMMA OneRowMoves ==
  ASSUME IInv, NEW r \in Req, req[r] # None, req[r].step # "create",
         NEW from \in LogStatus, NEW to \in OpStatus \ {"COMPLETED"},
         to = "APPROVED" => from = "SUBMITTED", Move(r, <<<<from, to>>>>)
  PROVE  IInv'
<1> DEFINE rows == <<<<from, to>>>>
<1>1. to \in LogStatus
  BY DEF LogStatus
<1>2. rows \in Seq(LogRow) /\ rows # <<>> /\ Len(rows) = 1 /\ DOMAIN rows = 1..1
  BY <1>1, OneRow
<1>3. rows[1] = <<from, to>> /\ rows[1][2] = to
  OBVIOUS
<1>4. Move(r, rows)
  OBVIOUS
<1> HIDE DEF rows
<1> QED BY <1>2, <1>3, <1>4, MoveIsSound DEF APPROVAL

LEMMA SubmitIsSound ==
  ASSUME IInv, NEW r \in Req, Submit(r) PROVE IInv'
  BY OneRowMoves DEF Submit, At, LogStatus, OpStatus

LEMMA ApproveIsSound ==
  ASSUME IInv, NEW r \in Req, Approve(r) PROVE IInv'
  BY OneRowMoves DEF Approve, At, LogStatus, OpStatus

LEMMA RejectIsSound ==
  ASSUME IInv, NEW r \in Req, Reject(r) PROVE IInv'
<1> DEFINE rows == <<<<"SUBMITTED", "REJECTED">>, <<"REJECTED", "DRAFT">>>>
<1>1. rows \in Seq(LogRow) /\ rows # <<>> /\ Len(rows) = 2 /\ DOMAIN rows = 1..2
  BY DEF LogRow, LogStatus, OpStatus
<1>2. rows[1][2] = "REJECTED" /\ rows[2][2] = "DRAFT"
  OBVIOUS
<1>3. Move(r, rows) /\ req[r] # None /\ req[r].step = "reject"
  BY DEF Reject, At
<1> HIDE DEF rows
<1>4. rows[Len(rows)][2] \in OpStatus
  BY <1>1, <1>2 DEF OpStatus
<1>5. \A i \in DOMAIN rows : /\ rows[i][2] = "APPROVED" => rows[i] = APPROVAL
                             /\ rows[i][2] # "COMPLETED"
  BY <1>1, <1>2
<1> QED BY <1>1, <1>3, <1>4, <1>5, MoveIsSound

LEMMA CancelIsSound ==
  ASSUME IInv, NEW r \in Req, Cancel(r) PROVE IInv'
<1>1. req[r] # None /\ req[r].step = "cancel" /\ Move(r, <<<<req[r].row.status, "CANCELLED">>>>)
  BY DEF Cancel, At
<1>2. req[r] \in Request
  BY <1>1, SlotInFlight
<1>3. req[r].row.status \in LogStatus
  BY <1>2 DEF Request, Operation, LogStatus
<1> QED BY <1>1, <1>3, OneRowMoves DEF OpStatus

\* An operation that is approved by its status is so by its log.
LEMMA StartExecuteIsSound ==
  ASSUME IInv, NEW r \in Req, StartExecute(r) PROVE IInv'
<1>1. PICK o \in DOMAIN ops, step \in {"countExchanges", "execute"} :
        /\ ops[o].status \in {"DRAFT", "APPROVED"}
        /\ ~(ops[o].type \in HighPrivilege /\ ops[o].status = "DRAFT")
        /\ Load(r, step, o, ops[o], None)
        /\ UNCHANGED <<docs, ops>>
  BY DEF StartExecute
<1> DEFINE op   == ops[o]
           slot == [step |-> step, o |-> o, row |-> op, doc |-> None]
<1>2. op \in Operation /\ OpIsSound(op) /\ o \in Nat
  BY DEF IInv, TypeOK, OpsAreSound
<1>3. ASSUME op.type \in HighPrivilege PROVE Approved(op)
  <2>1. op.status = "APPROVED"
    BY <1>1, <1>3
  <2>2. op.log # <<>> /\ op.log[Len(op.log)][2] = "APPROVED" /\ op.log \in Seq(LogRow)
    BY <1>2, <2>1 DEF OpIsSound, Operation, LogRow
  <2>3. Len(op.log) \in DOMAIN op.log
    BY <2>2
  <2> QED BY <1>2, <2>2, <2>3 DEF OpIsSound, Approved
<1>4. slot \in Request
  BY <1>2 DEF Request, Step
<1>5. SlotIsSound(slot)
  BY <1>3 DEF SlotIsSound
<1>6. req' = [req EXCEPT ![r] = slot]
  BY <1>1 DEF Load
<1> HIDE DEF slot
<1> QED BY <1>1, <1>4, <1>5, <1>6, SlotIsFilled

LEMMA CountExchangesIsSound ==
  ASSUME IInv, NEW r \in Req, CountExchanges(r) PROVE IInv'
<1> DEFINE slot == [req[r] EXCEPT !.step = "execute"]
<1>1. req[r] # None /\ req[r].step = "countExchanges"
  BY DEF CountExchanges, At
<1>2. req[r] \in Request /\ SlotIsSound(req[r])
  BY <1>1, SlotInFlight
<1>3. slot \in Request
  BY <1>2 DEF Request, Step
<1>4. slot.step = "execute" /\ slot.o = req[r].o /\ slot.row = req[r].row
  BY <1>2 DEF Request
<1>5. req' = [req EXCEPT ![r] = slot] /\ UNCHANGED <<docs, ops>>
  BY DEF CountExchanges
<1> HIDE DEF slot
<1>6. SlotIsSound(slot)
  BY <1>1, <1>2, <1>4 DEF SlotIsSound
<1> QED BY <1>3, <1>5, <1>6, SlotIsFilled

\* What is done to a document leaves its status.
LEMMA AppliedIsDocument ==
  ASSUME IInv, NEW type, NEW s \in Station \cup {None}, NEW d \in Doc
  PROVE  Applied(type, s, d) \in Document /\ Applied(type, s, d).status = docs[d].status
<1>1. docs[d] \in Document
  BY DEF IInv, TypeOK
<1> QED BY <1>1 DEF Applied, Document, CustodyStatus

LEMMA SettledIsItem ==
  ASSUME IInv, NEW type, NEW s \in Station \cup {None}, NEW d \in Doc
  PROVE  /\ Settled(type, s, d) \in Item
         /\ type = "RECEIPT" /\ Settled(type, s, d).status = "COMPLETED" =>
              docs[d].status # "DRAFT"
<1>1. docs[d] \in Document /\ Applied(type, s, d) \in Document
  BY AppliedIsDocument DEF IInv, TypeOK
<1>2. docs[d].custody \in CustodyStatus /\ Applied(type, s, d).custody \in CustodyStatus
  BY <1>1 DEF Document
<1> QED BY <1>2 DEF Settled, Item, ItemStatus, Absent, CustodyStatus, Listed

LEMMA ExecuteIsSound ==
  ASSUME IInv, NEW r \in Req, Execute(r) PROVE IInv'
<1> DEFINE o   == req[r].o
           op  == ops[o]
           row == req[r].row
           e   == <<row.status, "COMPLETED">>
           new == Executed(op, row)
<1>1. /\ req[r] # None /\ req[r].step = "execute"
      /\ ops' = [ops EXCEPT ![o] = new] /\ Done(r)
      /\ docs' = [d \in Doc |-> IF d \in Todo(row) THEN Applied(row.type, row.station, d)
                                ELSE docs[d]]
  BY DEF Execute, At
<1>2. /\ req[r] \in Request /\ SlotIsSound(req[r]) /\ o \in DOMAIN ops
      /\ op \in Operation /\ OpIsSound(op) /\ row.type = op.type
  BY <1>1, SlotInFlight
<1>3. row \in Operation
  BY <1>2 DEF Request
<1>4. row.station \in Station \cup {None} /\ e \in LogRow
  BY <1>3 DEF Operation, LogRow, LogStatus, OpStatus
<1>5. docs \in [Doc -> Document]
  BY DEF IInv, TypeOK
<1>6. /\ docs' \in [Doc -> Document]
      /\ \A d \in Doc : docs'[d].status = docs[d].status
  BY <1>1, <1>4, <1>5, AppliedIsDocument
<1> DEFINE items == [d \in Doc |-> IF d \in Todo(row) THEN Settled(row.type, row.station, d)
                                   ELSE op.items[d]]
<1>7. op.items \in [Doc -> Item] /\ op.log \in Seq(LogRow)
  BY <1>2 DEF Operation, LogRow
<1>8. items \in [Doc -> Item]
  BY <1>4, <1>7, SettledIsItem
<1>10. e[2] = "COMPLETED"
  OBVIOUS
<1> HIDE DEF e, op, row, new, o, items
<1>9. /\ Append(op.log, e) \in Seq(LogRow)
      /\ DOMAIN Append(op.log, e) = DOMAIN op.log \cup {Len(op.log) + 1}
      /\ \A i \in DOMAIN op.log : Append(op.log, e)[i] = op.log[i]
      /\ Append(op.log, e)[Len(op.log) + 1] = e
      /\ Len(Append(op.log, e)) = Len(op.log) + 1
  BY <1>4, <1>7, AppendRows, AppendProperties
<1> USE DEF op, row, new, o, items
<1> DEFINE log == Append(op.log, e)
<1> HIDE DEF log
<1>11. /\ new.type = op.type /\ new.status = "COMPLETED" /\ new.log = log
       /\ new.items = items /\ new \in Operation
  <2> HIDE DEF items
  <2>1. new = [op EXCEPT !.status = "COMPLETED", !.log = log, !.items = items]
    BY DEF Executed, items, log, e
  <2> QED BY <1>2, <1>8, <1>9, <2>1 DEF Operation, OpStatus, LogRow, log
<1>12. \A d \in Doc : new.type = "RECEIPT" /\ new.items[d].status = "COMPLETED" =>
         docs'[d].status # "DRAFT"
  <2> SUFFICES ASSUME NEW d \in Doc, op.type = "RECEIPT", items[d].status = "COMPLETED"
               PROVE  docs[d].status # "DRAFT"
    BY <1>6, <1>11
  <2>1. CASE d \in Todo(row)
    BY <1>2, <1>4, <2>1, SettledIsItem
  <2>2. CASE d \notin Todo(row)
    BY <1>2, <2>2 DEF IInv, ReceivedWereCollected
  <2> QED BY <2>1, <2>2
<1> HIDE DEF items, new
<1>13. Approved(op) => Approved(new)
  BY <1>9, <1>11 DEF Approved, log
<1>14. Len(op.log) \in Nat /\ DOMAIN op.log = 1..Len(op.log)
  BY <1>7
<1>15. \A i \in DOMAIN log : log[i][2] = "APPROVED" => log[i] = APPROVAL
  BY <1>2, <1>9, <1>10 DEF OpIsSound, log
<1>16. ASSUME op.type \in HighPrivilege, NEW j \in DOMAIN log, log[j][2] = "COMPLETED"
       PROVE  \E i \in 1..(j - 1) : log[i] = APPROVAL
  <2>1. CASE j \in DOMAIN op.log
    <3>1. PICK i \in 1..(j - 1) : op.log[i] = APPROVAL
      BY <1>2, <1>9, <1>16, <2>1 DEF OpIsSound, log
    <3>2. i \in DOMAIN op.log
      BY <1>14, <2>1
    <3> QED BY <1>9, <3>1, <3>2 DEF log
  <2>2. CASE j = Len(op.log) + 1
    <3>1. Approved(op)
      BY <1>1, <1>2, <1>16 DEF SlotIsSound
    <3>2. PICK i \in DOMAIN op.log : op.log[i] = APPROVAL
      BY <3>1 DEF Approved
    <3>3. i \in 1..(j - 1)
      BY <1>14, <2>2
    <3> QED BY <1>9, <3>2, <3>3 DEF log
  <2> QED BY <1>9, <2>1, <2>2 DEF log
<1>17. log # <<>> /\ log[Len(log)] = e
  BY <1>9, <1>14 DEF log
<1>18. OpIsSound(new)
  BY <1>10, <1>11, <1>15, <1>16, <1>17 DEF OpIsSound
<1> HIDE DEF o, op
<1>19. ops' = [ops EXCEPT ![o] = new] /\ o \in DOMAIN ops /\ new.type = ops[o].type
       /\ (Approved(ops[o]) => Approved(new))
  BY <1>1, <1>2, <1>11, <1>13 DEF op
<1> QED BY <1>1, <1>6, <1>11, <1>12, <1>18, <1>19, OperationIsWritten

-----------------------------------------------------------------------------
LEMMA EnvironmentIsSound ==
  ASSUME IInv, NEW d \in Doc,
         OpenExchange(d) \/ CloseExchange(d) \/ CompleteExchange(d) \/ ReviewCase(d)
  PROVE  IInv'
<1>1. docs \in [Doc -> Document] /\ docs[d] \in Document
  BY DEF IInv, TypeOK
<1>2. PICK new \in Document : /\ docs' = [docs EXCEPT ![d] = new]
                              /\ docs[d].status # "DRAFT" => new.status # "DRAFT"
                              /\ UNCHANGED <<ops, req>>
  <2>1. CASE OpenExchange(d)
    BY <1>1, <2>1 DEF OpenExchange, Document
  <2>2. CASE CloseExchange(d)
    BY <1>1, <2>2 DEF CloseExchange, Document
  <2>3. CASE CompleteExchange(d)
    BY <1>1, <2>3 DEF CompleteExchange, Document, FoundStatus, CustodyStatus
  <2>4. CASE ReviewCase(d)
    BY <1>1, <2>4 DEF ReviewCase, Document, FoundStatus
  <2> QED BY <2>1, <2>2, <2>3, <2>4
<1> QED BY <1>1, <1>2, DocumentsMove

LEMMA NextIsSound == IInv /\ [Next]_vars => IInv'
<1> SUFFICES ASSUME IInv, [Next]_vars PROVE IInv'
  OBVIOUS
<1>1. ASSUME NEW r \in Req, Transition(r) PROVE IInv'
  BY <1>1, StartMoveIsSound, SubmitIsSound, ApproveIsSound, RejectIsSound, CancelIsSound,
     StartExecuteIsSound, CountExchangesIsSound, ExecuteIsSound DEF Transition
<1>2. ASSUME NEW r \in Req, Handler(r) PROVE IInv'
  BY <1>1, <1>2, StartCreateIsSound, CreateIsSound, StartUpdateIsSound, UpdateIsSound,
     StartItemIsSound, AddItemIsSound, RemoveItemIsSound, SkipItemIsSound, DieIsSound
     DEF Handler
<1>3. ASSUME NEW d \in Doc,
             OpenExchange(d) \/ CloseExchange(d) \/ CompleteExchange(d) \/ ReviewCase(d)
      PROVE  IInv'
  BY <1>3, EnvironmentIsSound
<1>4. CASE UNCHANGED vars
  BY <1>4 DEF vars, IInv, TypeOK, OpsAreSound, OpIsSound, ReceivedWereCollected,
     SlotsAreSound, SlotIsSound, Approved
<1> QED BY <1>2, <1>3, <1>4 DEF Next

\* Every row and slot has its type, whatever overlaps.
THEOREM TypeCorrect == Spec => []TypeOK
<1>1. IInv => TypeOK
  BY DEF IInv
<1> QED BY <1>1, InitIsSound, NextIsSound, PTL DEF Spec

\* The log of an operation ends where the operation is, whatever overlaps.
THEOREM LogIsComplete == Spec => []LogTracksStatus
<1>1. IInv => LogTracksStatus
  BY DEF IInv, OpsAreSound, OpIsSound, LogTracksStatus
<1> QED BY <1>1, InitIsSound, NextIsSound, PTL DEF Spec

\* An operation that needs approval is executed after an approval only, however
\* submissions, rejections, cancellations and executions overlap.
THEOREM NothingUnapproved == Spec => []ApprovedBeforeExecution
<1>1. IInv => ApprovedBeforeExecution
  BY DEF IInv, OpsAreSound, OpIsSound, ApprovedBeforeExecution, APPROVAL
<1> QED BY <1>1, InitIsSound, NextIsSound, PTL DEF Spec

\* What a receipt counts as received has been collected from its finder.
THEOREM NothingUncollected == Spec => []ReceivedWereCollected
<1>1. IInv => ReceivedWereCollected
  BY DEF IInv
<1> QED BY <1>1, InitIsSound, NextIsSound, PTL DEF Spec

-----------------------------------------------------------------------------
(* What custody does is written down *)

\* Only an execution moves the custody of a document and leaves its status.
LEMMA ExecuteRecords ==
  ASSUME IInv, NEW r \in Req, Execute(r), NEW d \in Doc,
         docs'[d].custody # docs[d].custody
  PROVE  \E o \in DOMAIN ops :
           /\ ops'[o].status = "COMPLETED"
           /\ ops'[o].items[d] = [status |-> "COMPLETED",
                before |-> docs[d].custody, after |-> docs'[d].custody]
<1> DEFINE o   == req[r].o
           row == req[r].row
           new == Executed(ops[o], row)
<1>1. /\ req[r] # None /\ req[r].step = "execute"
      /\ ops' = [ops EXCEPT ![o] = new]
      /\ docs' = [c \in Doc |-> IF c \in Todo(row) THEN Applied(row.type, row.station, c)
                                ELSE docs[c]]
  BY DEF Execute, At
<1>2. o \in DOMAIN ops /\ ops[o] \in Operation BY <1>1, SlotInFlight
<1>3. d \in Todo(row) /\ docs'[d] = Applied(row.type, row.station, d) BY <1>1
<1>4. row.type \in Listed \ {"RECEIPT"}
  BY <1>3 DEF Applied, Listed
<1>5. Settled(row.type, row.station, d) =
        [status |-> "COMPLETED", before |-> docs[d].custody,
         after |-> docs'[d].custody]
  BY <1>3, <1>4 DEF Settled
<1>6. new.status = "COMPLETED" /\ new.items[d] = Settled(row.type, row.station, d)
  <2> HIDE DEF row, o
  <2> QED BY <1>2, <1>3 DEF Executed, Operation
<1>7. ops'[o] = new BY <1>1, <1>2
<1> HIDE DEF new
<1> QED BY <1>2, <1>5, <1>6, <1>7

\* What CustodyMovesRecorded says of one step.
MovesRecorded ==
  \A d \in Doc :
    docs'[d].custody # docs[d].custody /\ docs'[d].status = docs[d].status =>
      \E o \in DOMAIN ops :
        /\ ops'[o].status = "COMPLETED"
        /\ ops'[o].items[d] = [status |-> "COMPLETED",
             before |-> docs[d].custody, after |-> docs'[d].custody]

LEMMA StepRecords == ASSUME IInv, [Next]_vars PROVE MovesRecorded
<1>1. ASSUME NEW r \in Req, Execute(r) PROVE MovesRecorded
  BY <1>1, ExecuteRecords DEF MovesRecorded
<1>2. CASE UNCHANGED docs BY <1>2 DEF MovesRecorded
<1>3. ASSUME NEW r \in Req, Transition(r), ~Execute(r) PROVE UNCHANGED docs
  BY <1>3 DEF Transition, StartSubmit, Submit, StartApprove, Approve, StartReject,
              Reject, StartCancel, Cancel, StartExecute, CountExchanges, Move
<1>4. ASSUME NEW r \in Req, Handler(r), ~Execute(r) PROVE UNCHANGED docs
  BY <1>3, <1>4 DEF Handler, StartCreate, Create, StartUpdate, Update, StartAddItem,
                    AddItem, StartRemoveItem, RemoveItem, StartSkipItem, SkipItem, Die
<1>5. ASSUME NEW d \in Doc,
             OpenExchange(d) \/ CloseExchange(d) \/ CompleteExchange(d) \/ ReviewCase(d)
      PROVE  MovesRecorded
  <2>1. docs \in [Doc -> Document] BY DEF IInv, TypeOK
  <2>2. \A c \in Doc :
          docs'[c].custody = docs[c].custody \/ docs'[c].status # docs[c].status
    BY <1>5, <2>1 DEF OpenExchange, CloseExchange, CompleteExchange, ReviewCase, Document
  <2> QED BY <2>2 DEF MovesRecorded
<1>6. CASE UNCHANGED vars BY <1>2, <1>6 DEF vars
<1> QED BY <1>1, <1>2, <1>4, <1>5, <1>6 DEF Next

\* execute against the rest of the system: custody that moves while the status of the
\* case stays is an item of an operation completed in the same step, with both ends.
THEOREM MovesAreRecorded == Spec => CustodyMovesRecorded
<1>1. IInv /\ [Next]_vars => MovesRecorded BY StepRecords
<1>2. MovesRecorded <=>
        (\A d \in Doc :
           docs'[d].custody # docs[d].custody /\ docs'[d].status = docs[d].status =>
             \E o \in DOMAIN ops :
               /\ ops'[o].status = "COMPLETED"
               /\ ops'[o].items[d] = [status |-> "COMPLETED",
                    before |-> docs[d].custody, after |-> docs'[d].custody])
  BY DEF MovesRecorded
<1> QED BY <1>1, <1>2, InitIsSound, NextIsSound, PTL DEF Spec, CustodyMovesRecorded

-----------------------------------------------------------------------------
(* Handlers that run one after the other *)

Drafting == {"setStation", "setCounterpart", "setTexts", "addItem", "removeItem"}

\* The row a handler holds is the operation as it is, apart from what it is about
\* to write, and it was read in a status in which its statement is allowed.
RowIsFresh(q) ==
  q.step # "create" =>
    /\ q.row.status = ops[q.o].status
    /\ q.row.items = ops[q.o].items
    /\ q.step \in Drafting => q.row.status = "DRAFT"

OneHandler ==
  /\ \A r, q \in Req : req[r] # None /\ req[q] # None => r = q
  /\ \A r \in Req : req[r] # None => RowIsFresh(req[r])

SerialInv == IInv /\ (alone => OneHandler /\ CompletedIsDone)

\* What SerialContentStands says of one step.
ContentStands ==
  \A o \in DOMAIN ops : KeepsContent(o) /\ \A d \in Doc : StaysSkipped(o, d)

SerialGoal == OneHandler' /\ CompletedIsDone' /\ ContentStands

Others(r) == \A q \in Req \ {r} : req[q] = None

\* The last statement of a handler leaves no handler in flight.
LEMMA HandlerEnds ==
  ASSUME IInv, NEW r \in Req, Others(r), Done(r)
  PROVE  OneHandler'
BY DEF IInv, TypeOK, Others, Done, OneHandler

\* A handler that reads, or goes on to its next statement.
LEMMA HandlerReads ==
  ASSUME IInv, CompletedIsDone, NEW r \in Req, Others(r), NEW slot,
         req' = [req EXCEPT ![r] = slot], RowIsFresh(slot), UNCHANGED ops
  PROVE  SerialGoal
<1>1. req' \in [Req -> Request \cup {None, slot}]
      /\ req'[r] = slot /\ \A q \in Req \ {r} : req'[q] = None
  BY DEF IInv, TypeOK, Others
<1>2. RowIsFresh(slot)' BY DEF RowIsFresh
<1>3. OneHandler' BY <1>1, <1>2 DEF OneHandler, RowIsFresh
<1>4. CompletedIsDone' /\ ContentStands
  BY DEF CompletedIsDone, ContentStands, KeepsContent, StaysSkipped, ItemsOf
<1> QED BY <1>3, <1>4 DEF SerialGoal

LEMMA LoadReads ==
  ASSUME IInv, CompletedIsDone, NEW r \in Req, Others(r), NEW step, NEW o, NEW row,
         NEW d, Load(r, step, o, row, d), UNCHANGED ops,
         step # "create" =>
           /\ row.status = ops[o].status /\ row.items = ops[o].items
           /\ step \in Drafting => row.status = "DRAFT"
  PROVE  SerialGoal
<1> DEFINE slot == [step |-> step, o |-> o, row |-> row, doc |-> d]
<1>1. req' = [req EXCEPT ![r] = slot] BY DEF Load
<1>2. RowIsFresh(slot) BY DEF RowIsFresh
<1> HIDE DEF slot
<1> QED BY <1>1, <1>2, HandlerReads

\* What a statement may make of the operation it is about.
SameItem(new, op, d) ==
  new.items[d].status = "ABSENT" <=> op.items[d].status = "ABSENT"

MayBecome(op, new) ==
  /\ new.status = "COMPLETED" => \A d \in Doc : new.items[d].status # "PENDING"
  /\ op.status \in {"SUBMITTED", "APPROVED"} =>
       /\ \A d \in Doc : SameItem(new, op, d)
       /\ new.station = op.station /\ new.counterpart = op.counterpart
  /\ \A d \in Doc : op.items[d].status = "SKIPPED" => new.items[d].status # "COMPLETED"

\* The last statement of a handler, on the operation it is about.
LEMMA HandlerWrites ==
  ASSUME IInv, CompletedIsDone, NEW r \in Req, Others(r), Done(r),
         NEW o \in DOMAIN ops, NEW new, ops' = [ops EXCEPT ![o] = new],
         MayBecome(ops[o], new)
  PROVE  SerialGoal
<1>1. /\ DOMAIN ops' = DOMAIN ops
      /\ \A p \in DOMAIN ops : ops'[p] = IF p = o THEN new ELSE ops[p]
  BY DEF IInv, TypeOK
<1>2. CompletedIsDone' BY <1>1 DEF CompletedIsDone, MayBecome
<1>3. ASSUME NEW p \in DOMAIN ops
      PROVE  KeepsContent(p) /\ \A d \in Doc : StaysSkipped(p, d)
  <2>1. CASE p = o
    <3>1. KeepsContent(p) BY <1>1, <2>1 DEF KeepsContent, ItemsOf, SameItem, MayBecome
    <3> QED BY <1>1, <2>1, <3>1 DEF StaysSkipped, MayBecome
  <2>2. CASE p # o
    <3>1. ops'[p] = ops[p] BY <1>1, <2>2
    <3>2. KeepsContent(p) BY <3>1 DEF KeepsContent, ItemsOf
    <3>3. \A d \in Doc : StaysSkipped(p, d) BY <3>1 DEF StaysSkipped
    <3> QED BY <3>2, <3>3
  <2> QED BY <2>1, <2>2
<1>4. ContentStands BY <1>3 DEF ContentStands
<1> QED BY <1>2, <1>4, HandlerEnds DEF SerialGoal

\* What the slot of the only handler says of its operation.
LEMMA FreshRow ==
  ASSUME IInv, OneHandler, NEW r \in Req, req[r] # None, req[r].step # "create"
  PROVE  /\ req[r].o \in DOMAIN ops /\ ops[req[r].o] \in Operation
         /\ req[r].row.status = ops[req[r].o].status
         /\ req[r].row.items = ops[req[r].o].items
         /\ req[r].step \in Drafting => ops[req[r].o].status = "DRAFT"
         /\ req[r].row \in Operation
<1>1. RowIsFresh(req[r]) BY DEF OneHandler
<1> QED BY <1>1, SlotInFlight DEF RowIsFresh, Request

LEMMA DraftingIsSerial ==
  ASSUME IInv, OneHandler, CompletedIsDone, NEW r \in Req, Others(r),
         StartCreate(r) \/ StartUpdate(r) \/ StartAddItem(r) \/ StartRemoveItem(r)
           \/ StartSkipItem(r)
  PROVE  SerialGoal
<1>1. CASE StartCreate(r)
  <2>1. PICK row : Load(r, "create", 0, row, None) BY <1>1 DEF StartCreate
  <2> QED BY <1>1, <2>1, LoadReads DEF StartCreate
<1>2. CASE StartUpdate(r)
  <2>1. PICK o \in DOMAIN ops :
          /\ ops[o].status = "DRAFT"
          /\ \/ \E s \in Station \cup {None} :
                   Load(r, "setStation", o, [ops[o] EXCEPT !.station = s], None)
             \/ \E c \in Station \cup {None} :
                   Load(r, "setCounterpart", o, [ops[o] EXCEPT !.counterpart = c], None)
             \/ \E g \in SUBSET (Requires[ops[o].type] \cap Text) :
                   Load(r, "setTexts", o, [ops[o] EXCEPT !.given = g], None)
    BY <1>2 DEF StartUpdate
  <2>2. ops[o] \in Operation /\ UNCHANGED ops BY <1>2 DEF IInv, TypeOK, StartUpdate
  <2>3. \E row : /\ \E step \in Drafting : Load(r, step, o, row, None)
                 /\ row.status = ops[o].status /\ row.items = ops[o].items
    <3>1. ASSUME NEW s \in Station \cup {None},
                 Load(r, "setStation", o, [ops[o] EXCEPT !.station = s], None)
          PROVE  \E row : /\ \E step \in Drafting : Load(r, step, o, row, None)
                          /\ row.status = ops[o].status /\ row.items = ops[o].items
      <4> DEFINE row == [ops[o] EXCEPT !.station = s]
      <4>1. row.status = ops[o].status /\ row.items = ops[o].items
        BY <2>2 DEF Operation
      <4>2. Load(r, "setStation", o, row, None) BY <3>1
      <4> HIDE DEF row
      <4> QED BY <4>1, <4>2 DEF Drafting
    <3>2. ASSUME NEW s \in Station \cup {None},
                 Load(r, "setCounterpart", o, [ops[o] EXCEPT !.counterpart = s], None)
          PROVE  \E row : /\ \E step \in Drafting : Load(r, step, o, row, None)
                          /\ row.status = ops[o].status /\ row.items = ops[o].items
      <4> DEFINE row == [ops[o] EXCEPT !.counterpart = s]
      <4>1. row.status = ops[o].status /\ row.items = ops[o].items
        BY <2>2 DEF Operation
      <4>2. Load(r, "setCounterpart", o, row, None) BY <3>2
      <4> HIDE DEF row
      <4> QED BY <4>1, <4>2 DEF Drafting
    <3>3. ASSUME NEW g \in SUBSET (Requires[ops[o].type] \cap Text),
                 Load(r, "setTexts", o, [ops[o] EXCEPT !.given = g], None)
          PROVE  \E row : /\ \E step \in Drafting : Load(r, step, o, row, None)
                          /\ row.status = ops[o].status /\ row.items = ops[o].items
      <4> DEFINE row == [ops[o] EXCEPT !.given = g]
      <4>1. row.status = ops[o].status /\ row.items = ops[o].items
        BY <2>2 DEF Operation
      <4>2. Load(r, "setTexts", o, row, None) BY <3>3
      <4> HIDE DEF row
      <4> QED BY <4>1, <4>2 DEF Drafting
    <3> QED BY <2>1, <3>1, <3>2, <3>3
  <2> QED BY <2>1, <2>2, <2>3, LoadReads
<1>3. CASE StartAddItem(r) \/ StartRemoveItem(r) \/ StartSkipItem(r)
  <2>1. PICK o \in DOMAIN ops, d \in Doc, step \in {"addItem", "removeItem", "skipItem"} :
          /\ Load(r, step, o, ops[o], d) /\ UNCHANGED ops
          /\ step # "skipItem" => ops[o].status = "DRAFT"
    BY <1>3 DEF StartAddItem, StartRemoveItem, StartSkipItem, ItemsOf, Todo
  <2> QED BY <2>1, LoadReads DEF Drafting
<1> QED BY <1>1, <1>2, <1>3

LEMMA MoveStartIsSerial ==
  ASSUME IInv, OneHandler, CompletedIsDone, NEW r \in Req, Others(r),
         StartSubmit(r) \/ StartApprove(r) \/ StartReject(r) \/ StartCancel(r)
           \/ StartExecute(r)
  PROVE  SerialGoal
<1>1. PICK o \in DOMAIN ops,
           step \in {"submit", "approve", "reject", "cancel", "countExchanges", "execute"} :
        Load(r, step, o, ops[o], None) /\ UNCHANGED ops
  BY DEF StartSubmit, StartApprove, StartReject, StartCancel, StartExecute, Read
<1> QED BY <1>1, LoadReads DEF Drafting

LEMMA CountIsSerial ==
  ASSUME IInv, OneHandler, CompletedIsDone, NEW r \in Req, Others(r), CountExchanges(r)
  PROVE  SerialGoal
<1> DEFINE slot == [req[r] EXCEPT !.step = "execute"]
<1>1. req[r] # None /\ req[r].step = "countExchanges" BY DEF CountExchanges, At
<1>2. req[r] \in Request /\ RowIsFresh(req[r]) BY <1>1, SlotInFlight DEF OneHandler
<1>3. slot.step = "execute" /\ slot.o = req[r].o /\ slot.row = req[r].row
  BY <1>2 DEF Request
<1>4. req' = [req EXCEPT ![r] = slot] /\ UNCHANGED ops BY DEF CountExchanges
<1> HIDE DEF slot
<1>5. RowIsFresh(slot) BY <1>1, <1>2, <1>3 DEF RowIsFresh, Drafting
<1> QED BY <1>4, <1>5, HandlerReads

\* A new operation is a draft.
LEMMA CreateIsSerial ==
  ASSUME IInv, OneHandler, CompletedIsDone, NEW r \in Req, Others(r), Create(r)
  PROVE  SerialGoal
<1> DEFINE new == req[r].row
<1>1. req[r] \in Request /\ SlotIsSound(req[r]) /\ req[r].step = "create"
  BY DEF IInv, TypeOK, SlotsAreSound, Create, At
<1>2. new \in Operation /\ new.status = "DRAFT" BY <1>1 DEF Request, SlotIsSound
<1>3. ops \in Seq(Operation) /\ ops' = Append(ops, new) /\ Done(r)
  BY DEF IInv, TypeOK, Create
<1> HIDE DEF new
<1>4. /\ DOMAIN ops' = DOMAIN ops \cup {Len(ops) + 1}
      /\ \A o \in DOMAIN ops : ops'[o] = ops[o]
      /\ ops'[Len(ops) + 1] = new
  BY <1>2, <1>3, AppendRows
<1>5. CompletedIsDone' BY <1>2, <1>4 DEF CompletedIsDone
<1>6. ContentStands
  BY <1>4 DEF ContentStands, KeepsContent, StaysSkipped, ItemsOf
<1> QED BY <1>3, <1>5, <1>6, HandlerEnds DEF SerialGoal

\* update, and a crash.
LEMMA UpdateIsSerial ==
  ASSUME IInv, OneHandler, CompletedIsDone, NEW r \in Req, Others(r), Update(r)
  PROVE  SerialGoal
<1> DEFINE o   == req[r].o
           new == Updated(ops[o], req[r].step, req[r].row)
<1>1. /\ req[r] # None /\ req[r].step \in {"setStation", "setCounterpart", "setTexts"}
      /\ ops' = [ops EXCEPT ![o] = new] /\ Done(r)
  BY DEF Update, At
<1>2. o \in DOMAIN ops /\ ops[o] \in Operation /\ ops[o].status = "DRAFT"
  BY <1>1, FreshRow DEF Drafting
<1>3. new.status = ops[o].status /\ new.items = ops[o].items
  <2>1. CASE req[r].step = "setStation" BY <1>2, <2>1 DEF Updated, Operation
  <2>2. CASE req[r].step = "setCounterpart" BY <1>2, <2>2 DEF Updated, Operation
  <2>3. CASE req[r].step = "setTexts" BY <1>2, <2>3 DEF Updated, Operation
  <2> QED BY <1>1, <2>1, <2>2, <2>3
<1> HIDE DEF o, new
<1>4. MayBecome(ops[o], new) BY <1>2, <1>3 DEF MayBecome, CompletedIsDone
<1> QED BY <1>1, <1>2, <1>4, HandlerWrites

LEMMA DieIsSerial ==
  ASSUME IInv, OneHandler, CompletedIsDone, NEW r \in Req, Others(r), Die(r)
  PROVE  SerialGoal
<1>1. Done(r) /\ UNCHANGED ops BY DEF Die
<1>2. CompletedIsDone' /\ ContentStands
  BY <1>1 DEF CompletedIsDone, ContentStands, KeepsContent, StaysSkipped, ItemsOf
<1> QED BY <1>1, <1>2, HandlerEnds DEF SerialGoal

\* Items come and go in a draft; one is skipped before the execution.
LEMMA ItemIsSerial ==
  ASSUME IInv, OneHandler, CompletedIsDone, NEW r \in Req, Others(r),
         AddItem(r) \/ RemoveItem(r) \/ SkipItem(r)
  PROVE  SerialGoal
<1> DEFINE o == req[r].o
           d == req[r].doc
<1>1. req[r] # None /\ req[r].step \in {"addItem", "removeItem", "skipItem"} /\ Done(r)
  BY DEF AddItem, RemoveItem, SkipItem, At
<1>2. /\ o \in DOMAIN ops /\ ops[o] \in Operation /\ d \in Doc
      /\ req[r].step # "skipItem" => ops[o].status = "DRAFT"
  BY <1>1, FreshRow, SlotInFlight DEF Drafting, SlotIsSound
<1>3. ops[o].items \in [Doc -> Item] BY <1>2 DEF Operation
<1>4. PICK item : /\ ops' = [ops EXCEPT ![o] = WithItem(ops[o], d, item)]
                  /\ item.status \in {"PENDING", "ABSENT", "SKIPPED"}
                  /\ req[r].step = "skipItem" =>
                       item.status = "SKIPPED" /\ d \in ItemsOf(ops[o])
  <2>1. CASE AddItem(r)
    <3>1. Pending.status = "PENDING" BY DEF Pending, Absent
    <3>2. req[r].step # "skipItem" BY <2>1 DEF AddItem, At
    <3>3. ops' = [ops EXCEPT ![o] = WithItem(ops[o], d, Pending)]
      BY <2>1 DEF AddItem
    <3> HIDE DEF o, d
    <3> QED BY <3>1, <3>2, <3>3
  <2>2. CASE RemoveItem(r)
    <3>1. Absent.status = "ABSENT" BY DEF Absent
    <3>2. req[r].step # "skipItem" BY <2>2 DEF RemoveItem, At
    <3>3. ops' = [ops EXCEPT ![o] = WithItem(ops[o], d, Absent)]
      BY <2>2 DEF RemoveItem
    <3> HIDE DEF o, d
    <3> QED BY <3>1, <3>2, <3>3
  <2>3. CASE SkipItem(r)
    <3> DEFINE item == [ops[o].items[d] EXCEPT !.status = "SKIPPED"]
    <3>1. ops' = [ops EXCEPT ![o] = WithItem(ops[o], d, item)] /\ d \in ItemsOf(ops[o])
      BY <2>3 DEF SkipItem
    <3>2. item.status = "SKIPPED" BY <1>2, <1>3 DEF Item
    <3> HIDE DEF item
    <3> QED BY <3>1, <3>2
  <2> QED BY <2>1, <2>2, <2>3
<1> DEFINE new == WithItem(ops[o], d, item)
<1>5. /\ new.status = ops[o].status /\ new.station = ops[o].station
      /\ new.counterpart = ops[o].counterpart
      /\ \A e \in Doc : new.items[e] = IF e = d THEN item ELSE ops[o].items[e]
  <2> HIDE DEF o, d
  <2> QED BY <1>2, <1>3 DEF WithItem, Operation
<1>6. ops' = [ops EXCEPT ![o] = new] BY <1>4
<1>7. ops[o].status \in {"SUBMITTED", "APPROVED"} =>
        \A e \in Doc : SameItem(new, ops[o], e)
  <2> SUFFICES ASSUME ops[o].status \in {"SUBMITTED", "APPROVED"}
               PROVE  \A e \in Doc : SameItem(new, ops[o], e)
    OBVIOUS
  <2>1. req[r].step = "skipItem" BY <1>1, <1>2
  <2>2. item.status = "SKIPPED" /\ d \in ItemsOf(ops[o]) BY <1>4, <2>1
  <2> HIDE DEF new, o, d
  <2> QED BY <1>5, <2>2 DEF ItemsOf, SameItem
<1>8. new.status = "COMPLETED" => \A e \in Doc : new.items[e].status # "PENDING"
  <2> SUFFICES ASSUME ops[o].status = "COMPLETED", NEW e \in Doc
               PROVE  new.items[e].status # "PENDING"
    BY <1>5
  <2>1. item.status = "SKIPPED" BY <1>1, <1>2, <1>4
  <2>2. ops[o].items[e].status # "PENDING" BY <1>2 DEF CompletedIsDone
  <2> HIDE DEF new, o, d
  <2> QED BY <1>5, <2>1, <2>2
<1>9. \A e \in Doc : ops[o].items[e].status = "SKIPPED" =>
                       new.items[e].status # "COMPLETED"
  <2> HIDE DEF new, o, d
  <2> QED BY <1>4, <1>5
<1> HIDE DEF new, o
<1>10. MayBecome(ops[o], new) BY <1>5, <1>7, <1>8, <1>9 DEF MayBecome
<1> QED BY <1>1, <1>2, <1>6, <1>10, HandlerWrites

\* The approval cycle leaves the content alone and completes nothing.
LEMMA MoveIsSerial ==
  ASSUME IInv, OneHandler, CompletedIsDone, NEW r \in Req, Others(r),
         Submit(r) \/ Approve(r) \/ Reject(r) \/ Cancel(r)
  PROVE  SerialGoal
<1> DEFINE o == req[r].o
<1>1. req[r] # None /\ req[r].step # "create" /\ Done(r)
  BY DEF Submit, Approve, Reject, Cancel, Move, At
<1>2. o \in DOMAIN ops /\ ops[o] \in Operation BY <1>1, SlotInFlight
<1>3. PICK rows : /\ ops' = [ops EXCEPT ![o] = Moved(ops[o], rows)]
                  /\ rows[Len(rows)][2] # "COMPLETED"
  <2>1. CASE Submit(r) \/ Approve(r) \/ Cancel(r)
    <3>1. PICK to \in {"SUBMITTED", "APPROVED", "CANCELLED"} :
            \E from : Move(r, <<<<from, to>>>>)
      BY <2>1 DEF Submit, Approve, Cancel
    <3>4. PICK from : Move(r, <<<<from, to>>>>) BY <3>1
    <3> DEFINE rows == <<<<from, to>>>>
    <3>2. ops' = [ops EXCEPT ![o] = Moved(ops[o], rows)] BY <3>4 DEF Move
    <3>3. rows[Len(rows)][2] = to OBVIOUS
    <3> HIDE DEF rows
    <3> QED BY <3>1, <3>2, <3>3
  <2>2. CASE Reject(r)
    <3> DEFINE rows == <<<<"SUBMITTED", "REJECTED">>, <<"REJECTED", "DRAFT">>>>
    <3>1. ops' = [ops EXCEPT ![o] = Moved(ops[o], rows)] BY <2>2 DEF Reject, Move
    <3>2. rows[Len(rows)][2] = "DRAFT" OBVIOUS
    <3> HIDE DEF rows
    <3> QED BY <3>1, <3>2
  <2> QED BY <2>1, <2>2
<1> DEFINE new == Moved(ops[o], rows)
<1>4. /\ new.status = rows[Len(rows)][2] /\ new.items = ops[o].items
      /\ new.station = ops[o].station /\ new.counterpart = ops[o].counterpart
  <2> HIDE DEF o
  <2> QED BY <1>2 DEF Moved, Operation
<1>5. ops' = [ops EXCEPT ![o] = new] BY <1>3
<1> HIDE DEF new, o
<1>6. \A d \in Doc : SameItem(new, ops[o], d) BY <1>4 DEF SameItem
<1>7. MayBecome(ops[o], new) BY <1>3, <1>4, <1>6 DEF MayBecome
<1> QED BY <1>1, <1>2, <1>5, <1>7, HandlerWrites

\* What execute settles is what is pending, for the row it read is still the operation.
LEMMA ExecuteIsSerial ==
  ASSUME IInv, OneHandler, CompletedIsDone, NEW r \in Req, Others(r), Execute(r)
  PROVE  SerialGoal
<1> DEFINE o   == req[r].o
           row == req[r].row
           new == Executed(ops[o], row)
<1>1. /\ req[r] # None /\ req[r].step = "execute" /\ Done(r)
      /\ ops' = [ops EXCEPT ![o] = new]
  BY DEF Execute, At
<1>2. /\ o \in DOMAIN ops /\ ops[o] \in Operation /\ row.items = ops[o].items
      /\ row \in Operation
  BY <1>1, FreshRow
<1>3. /\ new.station = ops[o].station /\ new.counterpart = ops[o].counterpart
      /\ \A d \in Doc : new.items[d] = IF d \in Todo(row)
                                       THEN Settled(row.type, row.station, d)
                                       ELSE ops[o].items[d]
  <2> HIDE DEF o, row
  <2> QED BY <1>2 DEF Executed, Operation
<1>4. \A d \in Doc : d \in Todo(row) <=> ops[o].items[d].status = "PENDING"
  BY <1>2 DEF Todo
<1>5. \A d \in Doc : Settled(row.type, row.station, d).status \in {"SKIPPED", "COMPLETED"}
  BY DEF Settled, Absent
<1> HIDE DEF new, o, row
<1>6. \A d \in Doc : SameItem(new, ops[o], d) BY <1>3, <1>4, <1>5 DEF SameItem
<1>7. \A d \in Doc : /\ new.items[d].status # "PENDING"
                     /\ ops[o].items[d].status = "SKIPPED" =>
                          new.items[d].status # "COMPLETED"
  BY <1>3, <1>4, <1>5
<1>8. MayBecome(ops[o], new) BY <1>3, <1>6, <1>7 DEF MayBecome
<1> QED BY <1>1, <1>2, <1>8, HandlerWrites

LEMMA HandlerIsSerial ==
  ASSUME IInv, OneHandler, CompletedIsDone, NEW r \in Req, Others(r), Handler(r)
  PROVE  SerialGoal
<1>1. ASSUME Transition(r) PROVE SerialGoal
  BY <1>1, MoveStartIsSerial, CountIsSerial, MoveIsSerial, ExecuteIsSerial DEF Transition
<1> QED BY <1>1, DraftingIsSerial, CreateIsSerial, UpdateIsSerial, ItemIsSerial,
           DieIsSerial DEF Handler

LEMMA SerialStep ==
  ASSUME SerialInv, [SNext]_<<vars, alone>>
  PROVE  SerialInv' /\ (alone => ContentStands)
<1>1. [Next]_vars BY DEF SNext, World, Next
<1>2. IInv /\ IInv' BY <1>1, NextIsSound DEF SerialInv
<1>3. alone' = alone BY DEF SNext
<1>4. ASSUME alone PROVE SerialGoal
  <2>1. OneHandler /\ CompletedIsDone BY <1>4 DEF SerialInv
  <2>2. CASE UNCHANGED <<ops, req>>
    BY <2>1, <2>2 DEF SerialGoal, OneHandler, RowIsFresh, CompletedIsDone, ContentStands,
                      KeepsContent, StaysSkipped, ItemsOf
  <2>3. ASSUME NEW d \in Doc, World(d) PROVE UNCHANGED <<ops, req>>
    BY <2>3 DEF World, OpenExchange, CloseExchange, CompleteExchange, ReviewCase
  <2>4. ASSUME NEW r \in Req, \A q \in Req \ {r} : req[q] = None, Handler(r)
        PROVE  SerialGoal
    <3>1. Others(r) BY <2>4 DEF Others
    <3> QED BY <1>2, <2>1, <2>4, <3>1, HandlerIsSerial
  <2>5. CASE UNCHANGED <<vars, alone>> BY <2>2, <2>5 DEF vars
  <2> QED BY <1>4, <2>2, <2>3, <2>4, <2>5 DEF SNext
<1> QED BY <1>2, <1>3, <1>4 DEF SerialInv, SerialGoal

LEMMA SerialInvariant == SSpec => []SerialInv
<1>1. SInit => SerialInv
  <2> SUFFICES ASSUME SInit PROVE SerialInv OBVIOUS
  <2>1. IInv BY InitIsSound DEF SInit
  <2>2. DOMAIN ops = {} /\ \A r \in Req : req[r] = None BY DEF SInit, Init
  <2> QED BY <2>1, <2>2 DEF SerialInv, OneHandler, CompletedIsDone
<1>2. SerialInv /\ [SNext]_<<vars, alone>> => SerialInv' BY SerialStep
<1> QED BY <1>1, <1>2, PTL DEF SSpec

\* execute, on the items it read: if handlers run one after the other, a completed
\* operation has nothing pending.
THEOREM SerialIsDone == SSpec => []SerialCompletedIsDone
<1>1. SerialInv => SerialCompletedIsDone BY DEF SerialInv, SerialCompletedIsDone
<1> QED BY <1>1, SerialInvariant, PTL

\* If handlers run one after the other, what waits for approval or execution keeps its
\* documents and stations, and a skipped item is never counted as done.
THEOREM SerialContentIsKept == SSpec => SerialContentStands
<1>1. SerialInv /\ [SNext]_<<vars, alone>> =>
        [alone => \A o \in DOMAIN ops :
           KeepsContent(o) /\ \A d \in Doc : StaysSkipped(o, d)]_vars
  BY SerialStep DEF ContentStands
<1> QED BY <1>1, SerialInvariant, PTL DEF SSpec, SerialContentStands
=============================================================================
