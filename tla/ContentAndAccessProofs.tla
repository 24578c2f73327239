----------------------- MODULE ContentAndAccessProofs -----------------------
(***************************************************************************)
(* For any number of keys, files, addresses, roles, users and handlers in  *)
(* flight: what the templates, the settings of the system, the files of    *)
(* cases and claims and the addresses of a user promise, and what the      *)
(* roles and the checks of a request promise.                              *)
(*                                                                         *)
(* Each part has an inductive invariant of its own.  The four of MCContent *)
(* are joined in ContentInvariant; after them come MCAccess's, and that    *)
(* lists are cut into pages without a gap, however long they are.          *)
(***************************************************************************)
EXTENDS MCContent, MCAccess, TLAPS

-----------------------------------------------------------------------------
(* Templates *)
Present(k)    == templates[k].row # "none"
SameRow(k, r) == Present(k) /\ req[r].key = k /\ templates[k].id = req[r].tpl.id

\* Ids are given once.
IdsAreOwn ==
  /\ \A k \in Key : Present(k) => templates[k].id < nextId
  /\ \A k, l \in Key : Present(k) /\ Present(l) /\ templates[k].id = templates[l].id
                         => k = l

\* Nothing is filed of a template that is still to come.
FiledIsKnown == \A f \in files : f.id < nextId

\* Every version below that of a template that is stored, or was read to be edited, is
\* filed.
Below(tpl) ==
  /\ tpl.version > 0
  /\ \A v \in 1..(tpl.version - 1) : \E f \in files : f.id = tpl.id /\ f.version = v

BelowAreFiled ==
  /\ \A k \in Key : Present(k) => Below(templates[k])
  /\ \A r \in Req, k \in Key : req[r].step = "store" /\ SameRow(k, r) => Below(req[r].tpl)

\* A template that was read is the one that is stored, or its version is filed, or a
\* container has started since.
ReadIsStoredOrFiled ==
  \A r \in Req : req[r].step = "store" =>
    /\ req[r].tpl.id < nextId
    /\ \A k \in Key : SameRow(k, r) =>
         \/ Filed(req[r].tpl) = Filed(templates[k])
         \/ ~Unfiled(req[r].tpl)
         \/ AsSeeded(k, templates[k])

IInv == TypeOK /\ IdsAreOwn /\ FiledIsKnown /\ BelowAreFiled /\ ReadIsStoredOrFiled

-----------------------------------------------------------------------------
LEMMA AbsentIsTemplate == Absent \in Template /\ Absent.row = "none"
<1>1. (CHOOSE s \in Complete : TRUE) \in Slots BY TemplatesAssumption
<1> QED BY <1>1 DEF Absent, Template

LEMMA IdleIsRequest == Idle \in Request /\ Idle.step = "idle"
<1>1. (CHOOSE k \in Key : TRUE) \in Key BY TemplatesAssumption
<1> QED BY <1>1, AbsentIsTemplate DEF Idle, Request

LEMMA FiledIsFile ==
  ASSUME NEW tpl \in Template PROVE Filed(tpl) \in File
BY DEF Filed, File, Template

LEMMA InitInv == Init => IInv
<1> SUFFICES ASSUME Init PROVE IInv OBVIOUS
<1>1. TypeOK BY AbsentIsTemplate, IdleIsRequest DEF Init, TypeOK
<1>2. \A k \in Key : ~Present(k)
  <2>1. \A k \in Key : templates[k] = Absent BY Zenon DEF Init
  <2> QED BY <2>1, AbsentIsTemplate, Zenon DEF Present
<1>3. IdsAreOwn /\ FiledIsKnown BY <1>2 DEF Init, IdsAreOwn, FiledIsKnown
<1>4. \A r \in Req : req[r].step # "store" BY IdleIsRequest DEF Init
<1>5. BelowAreFiled /\ ReadIsStoredOrFiled
  BY <1>2, <1>4 DEF BelowAreFiled, ReadIsStoredOrFiled
<1> QED BY <1>1, <1>3, <1>5 DEF IInv

-----------------------------------------------------------------------------
\* A step that leaves the files, and rows but for whether they are voided; one of the
\* handlers may have read a template.
LEMMA ContentsStay ==
  ASSUME IInv, TypeOK', files' = files, nextId' = nextId,
         \A k \in Key : /\ Present(k)' = Present(k)
                        /\ Filed(templates'[k]) = Filed(templates[k])
                        /\ templates'[k].id = templates[k].id
                        /\ templates'[k].version = templates[k].version
                        /\ AsSeeded(k, templates[k])' = AsSeeded(k, templates[k]),
         \A r \in Req : req'[r].step = "store" =>
           \/ req'[r] = req[r]
           \/ Present(req'[r].key) /\ req'[r].tpl = templates[req'[r].key]
  PROVE  IInv'
<1>1. IdsAreOwn' BY DEF IInv, IdsAreOwn
<1>2. FiledIsKnown' BY DEF IInv, FiledIsKnown
<1>3. \A k \in Key : Present(k) => Below(templates[k])
  BY DEF IInv, BelowAreFiled
<1>4. \A k \in Key : Present(k)' => Below(templates[k])'
  BY <1>3 DEF Below
<1>5. ASSUME NEW r \in Req, req'[r].step = "store"
      PROVE  /\ req'[r].tpl.id < nextId
             /\ \A k \in Key : SameRow(k, r)' =>
                  /\ Below(req[r].tpl)'
                  /\ \/ Filed(req'[r].tpl) = Filed(templates'[k])
                     \/ ~Unfiled(req[r].tpl)'
                     \/ AsSeeded(k, templates[k])'
  <2>1. CASE req'[r] = req[r]
    <3>1. \A k \in Key : SameRow(k, r)' <=> SameRow(k, r) BY <2>1 DEF SameRow
    <3>2. Unfiled(req[r].tpl)' <=> Unfiled(req[r].tpl) BY <2>1 DEF Unfiled
    <3>3. Below(req[r].tpl)' <=> Below(req[r].tpl) BY <2>1 DEF Below
    <3> QED BY <2>1, <1>5, <3>1, <3>2, <3>3 DEF IInv, BelowAreFiled, ReadIsStoredOrFiled
  <2>2. CASE Present(req'[r].key) /\ req'[r].tpl = templates[req'[r].key]
    <3>1. req'[r].key \in Key BY <1>5 DEF TypeOK, Request
    <3>2. req'[r].tpl.id < nextId BY <2>2, <3>1 DEF IInv, IdsAreOwn
    <3>3. Below(req[r].tpl)' BY <2>2, <3>1, <1>3 DEF Below
    <3> QED BY <2>2, <3>1, <3>2, <3>3 DEF SameRow
  <2> QED BY <1>5, <2>1, <2>2
<1>6. BelowAreFiled' BY <1>4, <1>5 DEF BelowAreFiled
<1>7. ReadIsStoredOrFiled' BY <1>5 DEF ReadIsStoredOrFiled
<1> QED BY <1>1, <1>2, <1>6, <1>7 DEF IInv

\* A step that only moves handlers on.
LEMMA HandlersMove ==
  ASSUME IInv, UnchangedRows, req' \in [Req -> Request],
         \A r \in Req : req'[r].step = "store" =>
           \/ req'[r] = req[r]
           \/ /\ templates[req'[r].key].row = "kept"
              /\ req'[r].tpl = templates[req'[r].key]
  PROVE  IInv'
<1>1. TypeOK' BY DEF IInv, TypeOK, UnchangedRows
<1>2. \A k \in Key : AsSeeded(k, templates[k])' = AsSeeded(k, templates[k])
  BY DEF UnchangedRows, AsSeeded, Content
<1> QED BY <1>1, <1>2, ContentsStay DEF UnchangedRows, Present

\* A handler is refused, or its process stops.
LEMMA GivesUp ==
  ASSUME IInv, UnchangedRows, NEW r \in Req, Done(r) PROVE IInv'
<1>1. req' \in [Req -> Request] BY IdleIsRequest DEF Done, IInv, TypeOK
<1>2. \A s \in Req : req'[s].step = "store" => req'[s] = req[s]
  BY IdleIsRequest DEF Done, IInv, TypeOK
<1> QED BY <1>1, <1>2, HandlersMove

\* A step that voids or restores a template.
LEMMA RowMoves ==
  ASSUME IInv, NEW k \in Key, NEW row \in {"kept", "voided"}, Present(k),
         templates' = [templates EXCEPT ![k].row = row], UNCHANGED <<files, nextId, req>>
  PROVE  IInv'
<1>1. TypeOK' BY DEF IInv, TypeOK, Template
<1>2. \A l \in Key : /\ Present(l)' = Present(l)
                     /\ templates'[l].id = templates[l].id
                     /\ templates'[l].version = templates[l].version
                     /\ templates'[l].slots = templates[l].slots
                     /\ templates'[l].meta = templates[l].meta
  BY DEF IInv, TypeOK, Template, Present
<1>3. \A l \in Key : /\ Filed(templates'[l]) = Filed(templates[l])
                     /\ AsSeeded(l, templates[l])' = AsSeeded(l, templates[l])
  BY <1>2 DEF Filed, AsSeeded, Content
<1> QED BY <1>1, <1>2, <1>3, ContentsStay

\* A template comes, with an id of its own.
LEMMA RowComes ==
  ASSUME IInv, NEW k \in Key, ~Present(k), NEW new \in Template, new.id = nextId,
         new.version = 1, templates' = [templates EXCEPT ![k] = new],
         nextId' = nextId + 1, UNCHANGED <<files, req>>
  PROVE  IInv'
<1>1. TypeOK' BY DEF IInv, TypeOK
<1>2. templates'[k] = new /\ \A l \in Key \ {k} : templates'[l] = templates[l]
  BY DEF IInv, TypeOK
<1>3. nextId \in Nat /\ \A l \in Key : templates[l] \in Template /\ templates[l].id \in Nat
  BY DEF IInv, TypeOK, Template
<1>4. IdsAreOwn' BY <1>2, <1>3 DEF IInv, IdsAreOwn, Present
<1>5. \A f \in files : f.id \in Nat /\ f.id < nextId
  BY DEF IInv, TypeOK, FiledIsKnown, File
<1>6. FiledIsKnown' BY <1>3, <1>5 DEF FiledIsKnown
<1>7. ASSUME NEW r \in Req, req[r].step = "store"
      PROVE  /\ req[r].tpl.id < nextId'
             /\ \A l \in Key : SameRow(l, r)' => l # k /\ SameRow(l, r)
  <2>1. req[r].tpl.id \in Nat /\ req[r].tpl.id < nextId
    BY <1>7 DEF IInv, TypeOK, Request, Template, ReadIsStoredOrFiled
  <2>2. ~SameRow(k, r)' BY <2>1, <1>2, <1>3 DEF SameRow
  <2>3. ASSUME NEW l \in Key \ {k}, SameRow(l, r)' PROVE SameRow(l, r)
    BY <2>3, <1>2 DEF SameRow, Present
  <2> QED BY <2>1, <2>2, <2>3, <1>3
<1>8. BelowAreFiled'
  <2>1. ASSUME NEW l \in Key, Present(l)' PROVE Below(templates[l])'
    <3>1. CASE l = k BY <3>1, <1>2 DEF Below
    <3>2. CASE l # k
      <4>1. Present(l) /\ templates'[l] = templates[l] BY <2>1, <3>2, <1>2 DEF Present
      <4> QED BY <4>1 DEF IInv, BelowAreFiled, Below
    <3> QED BY <3>1, <3>2
  <2>2. ASSUME NEW r \in Req, NEW l \in Key, req[r].step = "store", SameRow(l, r)'
        PROVE  Below(req[r].tpl)'
    BY <2>2, <1>7 DEF IInv, BelowAreFiled, Below
  <2> QED BY <2>1, <2>2 DEF BelowAreFiled
<1>9. ReadIsStoredOrFiled'
  <2> SUFFICES ASSUME NEW r \in Req, req[r].step = "store",
                      NEW l \in Key, SameRow(l, r)'
               PROVE  \/ Filed(req[r].tpl) = Filed(templates'[l])
                      \/ ~Unfiled(req[r].tpl)
                      \/ AsSeeded(l, templates[l])'
    BY <1>7 DEF ReadIsStoredOrFiled, Unfiled
  <2>1. l # k /\ SameRow(l, r) /\ templates'[l] = templates[l] BY <1>2, <1>7
  <2>2. AsSeeded(l, templates[l])' <=> AsSeeded(l, templates[l])
    BY <2>1 DEF AsSeeded, Content
  <2> QED BY <2>1, <2>2 DEF IInv, ReadIsStoredOrFiled
<1> QED BY <1>1, <1>4, <1>6, <1>8, <1>9 DEF IInv

LEMMA CreateKeeps ==
  ASSUME IInv, NEW k \in Key, NEW slots \in Slots, NEW meta \in Meta \cup {None},
         Create(k, slots, meta)
  PROVE  IInv'
<1> DEFINE new == [row |-> "kept", id |-> nextId, version |-> 1, slots |-> slots,
                   meta |-> meta]
<1>1. new \in Template BY DEF IInv, TypeOK, Template
<1>2. /\ ~Present(k) /\ new.id = nextId /\ new.version = 1
      /\ templates' = [templates EXCEPT ![k] = new] /\ nextId' = nextId + 1
      /\ UNCHANGED <<files, req>>
  BY DEF Create, Present
<1> HIDE DEF new
<1> QED BY <1>1, <1>2, RowComes

LEMMA PurgeKeeps ==
  ASSUME IInv, NEW k \in Key, Purge(k)
  PROVE  IInv'
<1>1. TypeOK' BY DEF IInv, TypeOK, Template, Purge
<1>2. /\ ~Present(k)'
      /\ \A l \in Key \ {k} : templates'[l] = templates[l]
      /\ Present(k)
      /\ files' = {f \in files : f.id # templates[k].id} /\ nextId' = nextId /\ req' = req
  BY DEF IInv, TypeOK, Template, Purge, Present
<1>3. \A l \in Key : Present(l)' =>
        l # k /\ Present(l) /\ templates'[l] = templates[l]
          /\ templates[l].id # templates[k].id
  BY <1>2 DEF IInv, IdsAreOwn, Present
<1>4. IdsAreOwn' BY <1>2, <1>3 DEF IInv, IdsAreOwn
<1>5. FiledIsKnown' BY <1>2 DEF IInv, FiledIsKnown
<1>6. \A l \in Key, r \in Req : SameRow(l, r)' =>
        SameRow(l, r) /\ Present(l)' /\ req[r].tpl.id # templates[k].id
  BY <1>2, <1>3 DEF SameRow
<1>7. \A f \in files : f.id # templates[k].id => f \in files' BY <1>2
<1>8. BelowAreFiled'
  <2>1. ASSUME NEW l \in Key, Present(l)' PROVE Below(templates[l])'
    BY <2>1, <1>3, <1>7 DEF IInv, BelowAreFiled, Below
  <2>2. ASSUME NEW r \in Req, NEW l \in Key, req[r].step = "store", SameRow(l, r)'
        PROVE  Below(req[r].tpl)'
    BY <2>2, <1>2, <1>6, <1>7 DEF IInv, BelowAreFiled, Below
  <2> QED BY <2>1, <2>2, <1>2 DEF BelowAreFiled
<1>9. ReadIsStoredOrFiled'
  <2> SUFFICES ASSUME NEW r \in Req, req[r].step = "store",
                      NEW l \in Key, SameRow(l, r)'
               PROVE  \/ Filed(req[r].tpl) = Filed(templates'[l])
                      \/ ~Unfiled(req[r].tpl)'
                      \/ AsSeeded(l, templates[l])'
    BY <1>2 DEF IInv, ReadIsStoredOrFiled
  <2>1. SameRow(l, r) /\ templates'[l] = templates[l] BY <1>3, <1>6
  <2>2. AsSeeded(l, templates[l])' <=> AsSeeded(l, templates[l])
    BY <2>1 DEF AsSeeded, Content
  <2>3. ~Unfiled(req[r].tpl) => ~Unfiled(req[r].tpl)' BY <1>2, <1>6, <1>7 DEF Unfiled
  <2> QED BY <2>1, <2>2, <2>3 DEF IInv, ReadIsStoredOrFiled
<1> QED BY <1>1, <1>4, <1>5, <1>8, <1>9 DEF IInv

-----------------------------------------------------------------------------
\* What a handler does that still finds the row it read, its version not yet filed:
\* the row is as it was read, or as a container that started has written it.
LEMMA StoreWrites ==
  ASSUME IInv, NEW r \in Req, Store(r), StillThere(r), Unfiled(req[r].tpl)
  PROVE  LET k == req[r].key  tpl == req[r].tpl IN
         /\ k \in Key /\ Present(k) /\ SameRow(k, r)
         /\ tpl \in Template /\ Below(tpl)
         /\ Filed(tpl) = Filed(templates[k]) \/ AsSeeded(k, templates[k])
         /\ files' = files \cup {Filed(tpl)}
         /\ \A l \in Key \ {k} : templates'[l] = templates[l]
         /\ templates' \in [Key -> Template]
         /\ templates'[k].id = templates[k].id
         /\ templates'[k].row = templates[k].row
         /\ templates'[k].version = tpl.version + 1
<1> DEFINE k == req[r].key  q == req[r]  version == q.tpl.version + 1
           new == Edited(templates[k], q.slots, q.meta, version)
<1>1. /\ k \in Key /\ q.tpl \in Template /\ templates[k] \in Template
      /\ q.slots \in Slots \cup {None} /\ q.meta \in Meta \cup {None}
  BY DEF IInv, TypeOK, Request
<1>2. SameRow(k, r) /\ Present(k) BY DEF StillThere, SameRow, Present
<1>3. q.step = "store" BY DEF Store
<1>4. Below(q.tpl) BY <1>1, <1>2, <1>3 DEF IInv, BelowAreFiled
<1>5. Filed(q.tpl) = Filed(templates[k]) \/ AsSeeded(k, templates[k])
  BY <1>1, <1>2, <1>3 DEF IInv, ReadIsStoredOrFiled
<1>6. files' = files \cup {Filed(q.tpl)} /\ templates' = [templates EXCEPT ![k] = new]
  BY DEF Store
<1>7. version \in Nat BY <1>1 DEF Template
<1> HIDE DEF version
<1>8. new \in Template /\ new.id = templates[k].id /\ new.row = templates[k].row
      /\ new.version = version
  BY <1>1, <1>7 DEF Edited, Template
<1> HIDE DEF new
<1>9. /\ templates' \in [Key -> Template] /\ templates'[k] = new
      /\ \A l \in Key \ {k} : templates'[l] = templates[l]
  BY <1>1, <1>6, <1>8 DEF IInv, TypeOK
<1> QED BY <1>1, <1>2, <1>4, <1>5, <1>6, <1>8, <1>9 DEF version

\* Two that were read of one template and neither of them filed have one version.
LEMMA OneUnfiledVersion ==
  ASSUME NEW a \in Template, NEW b \in Template, a.id = b.id, Below(a), Below(b),
         Unfiled(a), Unfiled(b)
  PROVE  a.version = b.version
<1>1. a.version \in Nat /\ b.version \in Nat BY DEF Template
<1>2. ~(a.version < b.version)
  <2> SUFFICES ASSUME a.version < b.version PROVE FALSE OBVIOUS
  <2>1. a.version \in 1..(b.version - 1) BY <1>1 DEF Below
  <2> QED BY <2>1 DEF Below, Unfiled
<1>3. ~(b.version < a.version)
  <2> SUFFICES ASSUME b.version < a.version PROVE FALSE OBVIOUS
  <2>1. b.version \in 1..(a.version - 1) BY <1>1 DEF Below
  <2> QED BY <2>1 DEF Below, Unfiled
<1> QED BY <1>1, <1>2, <1>3

LEMMA StoreKeeps ==
  ASSUME IInv, NEW r \in Req, Store(r)
  PROVE  IInv'
<1>1. req[r].step = "store" /\ req' = [req EXCEPT ![r] = Idle] /\ nextId' = nextId
  BY DEF Store, Done
<1>2. req' \in [Req -> Request] BY <1>1, IdleIsRequest DEF IInv, TypeOK
<1>3. \A s \in Req : req'[s].step = "store" => s # r /\ req'[s] = req[s]
  BY <1>1, IdleIsRequest DEF IInv, TypeOK
<1>4. CASE ~(StillThere(r) /\ Unfiled(req[r].tpl))
  <2>1. UnchangedRows BY <1>4, <1>1 DEF Store, UnchangedRows
  <2> QED BY <2>1, <1>2, <1>3, HandlersMove
<1>5. CASE StillThere(r) /\ Unfiled(req[r].tpl)
  <2> DEFINE k == req[r].key  tpl == req[r].tpl
  <2>1. /\ k \in Key /\ Present(k) /\ SameRow(k, r)
        /\ tpl \in Template /\ Below(tpl)
        /\ files' = files \cup {Filed(tpl)}
        /\ \A l \in Key \ {k} : templates'[l] = templates[l]
        /\ templates' \in [Key -> Template]
        /\ templates'[k].id = templates[k].id /\ templates'[k].row = templates[k].row
        /\ templates'[k].version = tpl.version + 1
    BY <1>5, StoreWrites
  <2>2. Unfiled(tpl) BY <1>5
  <2>3. /\ tpl.id = templates[k].id /\ tpl.id < nextId
        /\ Filed(tpl).id = tpl.id /\ Filed(tpl).version = tpl.version
        /\ Filed(tpl) \in File /\ tpl.version \in Nat
    BY <2>1, FiledIsFile DEF SameRow, Filed, IInv, IdsAreOwn, Template
  <2> HIDE DEF k, tpl
  <2>4. TypeOK' BY <1>1, <1>2, <2>1, <2>3 DEF IInv, TypeOK
  <2>5. \A l \in Key : Present(l)' = Present(l) /\ templates'[l].id = templates[l].id
    BY <2>1 DEF Present
  <2>6. IdsAreOwn' BY <2>5, <1>1 DEF IInv, IdsAreOwn
  <2>7. FiledIsKnown' BY <2>1, <2>3, <1>1 DEF IInv, FiledIsKnown
  <2>8. \A l \in Key, s \in Req : req'[s].step = "store" /\ SameRow(l, s)' =>
          /\ req'[s] = req[s] /\ SameRow(l, s)
          /\ Below(req[s].tpl) /\ req[s].tpl \in Template
    BY <1>3, <2>5 DEF SameRow, IInv, TypeOK, Request, BelowAreFiled
  <2>9. BelowAreFiled'
    <3>1. ASSUME NEW l \in Key, Present(l)' PROVE Below(templates[l])'
      <4>1. CASE l = k
        <5>1. SUFFICES ASSUME NEW v \in 1..tpl.version
                       PROVE  \E f \in files' : f.id = tpl.id /\ f.version = v
          BY <4>1, <2>1, <2>3 DEF Below
        <5>2. CASE v = tpl.version BY <5>2, <2>1, <2>3
        <5>3. CASE v # tpl.version
          <6>1. v \in 1..(tpl.version - 1) BY <5>1, <5>3, <2>3
          <6> QED BY <6>1, <2>1 DEF Below
        <5> QED BY <5>2, <5>3
      <4>2. CASE l # k
        <5>1. Below(templates[l]) /\ templates'[l] = templates[l]
          BY <4>2, <3>1, <2>1, <2>5 DEF IInv, BelowAreFiled
        <5> QED BY <5>1, <2>1 DEF Below
      <4> QED BY <4>1, <4>2
    <3>2. ASSUME NEW s \in Req, NEW l \in Key, req'[s].step = "store", SameRow(l, s)'
          PROVE  Below(req[s].tpl)'
      BY <3>2, <2>8, <2>1 DEF Below
    <3> QED BY <3>1, <3>2 DEF BelowAreFiled
  <2>10. ReadIsStoredOrFiled'
    <3>1. \A s \in Req : req'[s].step = "store" => req'[s].tpl.id < nextId'
      BY <1>1, <1>3 DEF IInv, ReadIsStoredOrFiled
    <3>2. ASSUME NEW s \in Req, req'[s].step = "store", NEW l \in Key, SameRow(l, s)'
          PROVE  \/ Filed(req'[s].tpl) = Filed(templates'[l])
                 \/ ~Unfiled(req[s].tpl)'
                 \/ AsSeeded(l, templates[l])'
      <4>1. /\ req'[s] = req[s] /\ SameRow(l, s)
            /\ Below(req[s].tpl) /\ req[s].tpl \in Template
        BY <2>8, <3>2
      <4>2. CASE ~Unfiled(req[s].tpl) BY <4>1, <4>2, <2>1 DEF Unfiled
      <4>3. CASE Unfiled(req[s].tpl) /\ l = k
        <5>1. req[s].tpl.id = tpl.id BY <4>1, <4>3, <2>3 DEF SameRow
        <5>2. req[s].tpl.version = tpl.version
          BY <4>1, <4>3, <5>1, <2>1, <2>2, OneUnfiledVersion
        <5> QED BY <4>1, <5>1, <5>2, <2>1, <2>3 DEF Unfiled
      <4>4. CASE Unfiled(req[s].tpl) /\ l # k
        <5>1. templates'[l] = templates[l] BY <4>4, <2>1
        <5>2. AsSeeded(l, templates[l])' <=> AsSeeded(l, templates[l])
          BY <5>1 DEF AsSeeded, Content
        <5> QED BY <4>1, <4>4, <5>1, <5>2, <3>2 DEF IInv, ReadIsStoredOrFiled
      <4> QED BY <4>2, <4>3, <4>4
    <3> QED BY <3>1, <3>2 DEF ReadIsStoredOrFiled
  <2> QED BY <2>4, <2>6, <2>7, <2>9, <2>10 DEF IInv
<1> QED BY <1>4, <1>5

\* The start of a container: a template comes, or is written over.
LEMMA SeedWrites ==
  ASSUME IInv, NEW k \in DOMAIN Seed, SeedTemplate(k), Present(k)
  PROVE  /\ k \in Key /\ templates' \in [Key -> Template] /\ nextId' = nextId
         /\ \A l \in Key \ {k} : templates'[l] = templates[l]
         /\ templates'[k].id = templates[k].id /\ templates'[k].row = templates[k].row
         /\ templates'[k].version = 1 /\ AsSeeded(k, templates[k])'
<1> DEFINE new == [templates[k] EXCEPT !.version = 1, !.slots = Seed[k].slots,
                                       !.meta = Seed[k].meta]
<1>1. /\ k \in Key /\ Seed[k].slots \in Slots /\ Seed[k].meta \in Meta \cup {None}
      /\ templates[k] \in Template
  BY TemplatesAssumption DEF IInv, TypeOK
<1>2. /\ new \in Template /\ new.id = templates[k].id /\ new.row = templates[k].row
      /\ new.version = 1 /\ new.slots = Seed[k].slots /\ new.meta = Seed[k].meta
  BY <1>1 DEF Template
<1>3. templates' = [templates EXCEPT ![k] = new] /\ nextId' = nextId
  BY DEF SeedTemplate, Present
<1> HIDE DEF new
<1>4. /\ templates' \in [Key -> Template] /\ templates'[k] = new
      /\ \A l \in Key \ {k} : templates'[l] = templates[l]
  BY <1>1, <1>2, <1>3 DEF IInv, TypeOK
<1> QED BY <1>1, <1>2, <1>3, <1>4 DEF AsSeeded, Content

LEMMA SeedKeeps ==
  ASSUME IInv, NEW k \in DOMAIN Seed, SeedTemplate(k)
  PROVE  IInv'
<1>1. k \in Key BY TemplatesAssumption
<1>2. files' = files /\ req' = req BY DEF SeedTemplate
<1>3. CASE ~Present(k)
  <2> DEFINE new == [row |-> "kept", id |-> nextId, version |-> 1,
                     slots |-> Seed[k].slots, meta |-> Seed[k].meta]
  <2>1. new \in Template BY TemplatesAssumption DEF IInv, TypeOK, Template
  <2>2. /\ new.id = nextId /\ new.version = 1
        /\ templates' = [templates EXCEPT ![k] = new] /\ nextId' = nextId + 1
    BY <1>3 DEF SeedTemplate, Present
  <2> HIDE DEF new
  <2> QED BY <2>1, <2>2, <1>1, <1>2, <1>3, RowComes
<1>4. CASE Present(k)
  <2>1. /\ templates' \in [Key -> Template] /\ nextId' = nextId
        /\ \A l \in Key \ {k} : templates'[l] = templates[l]
        /\ templates'[k].id = templates[k].id /\ templates'[k].row = templates[k].row
        /\ templates'[k].version = 1 /\ AsSeeded(k, templates[k])'
    BY <1>4, SeedWrites
  <2>2. TypeOK' BY <2>1, <1>2 DEF IInv, TypeOK
  <2>3. \A l \in Key : Present(l)' = Present(l) /\ templates'[l].id = templates[l].id
    BY <2>1 DEF Present
  <2>4. IdsAreOwn' BY <2>1, <2>3 DEF IInv, IdsAreOwn
  <2>5. FiledIsKnown' BY <2>1, <1>2 DEF IInv, FiledIsKnown
  <2>6. \A l \in Key, r \in Req : SameRow(l, r)' => SameRow(l, r)
    BY <2>3, <1>2 DEF SameRow
  <2>7. BelowAreFiled'
    <3>1. ASSUME NEW l \in Key, Present(l)' PROVE Below(templates[l])'
      <4>1. CASE l = k BY <4>1, <2>1 DEF Below
      <4>2. CASE l # k BY <4>2, <3>1, <2>1, <2>3, <1>2 DEF IInv, BelowAreFiled, Below
      <4> QED BY <4>1, <4>2
    <3>2. ASSUME NEW r \in Req, NEW l \in Key, req[r].step = "store", SameRow(l, r)'
          PROVE  Below(req[r].tpl)'
      BY <3>2, <2>6, <1>2 DEF IInv, BelowAreFiled, Below
    <3> QED BY <3>1, <3>2, <1>2 DEF BelowAreFiled
  <2>8. ReadIsStoredOrFiled'
    <3>1. ASSUME NEW r \in Req, req[r].step = "store", NEW l \in Key, SameRow(l, r)'
          PROVE  \/ Filed(req[r].tpl) = Filed(templates'[l])
                 \/ ~Unfiled(req[r].tpl)
                 \/ AsSeeded(l, templates[l])'
      <4>1. CASE l = k BY <4>1, <2>1
      <4>2. CASE l # k
        <5>1. SameRow(l, r) /\ templates'[l] = templates[l] BY <3>1, <4>2, <2>1, <2>6
        <5>2. AsSeeded(l, templates[l])' <=> AsSeeded(l, templates[l])
          BY <5>1 DEF AsSeeded, Content
        <5> QED BY <3>1, <5>1, <5>2 DEF IInv, ReadIsStoredOrFiled
      <4> QED BY <4>1, <4>2
    <3> QED BY <3>1, <2>1, <1>2 DEF IInv, ReadIsStoredOrFiled, Unfiled
  <2> QED BY <2>2, <2>4, <2>5, <2>7, <2>8 DEF IInv
<1> QED BY <1>3, <1>4

LEMMA StepInv == IInv /\ [Next]_tvars => IInv'
<1> SUFFICES ASSUME IInv, [Next]_tvars PROVE IInv' OBVIOUS
<1>1. CASE UNCHANGED tvars
  <2>1. UnchangedRows /\ req' = req BY <1>1 DEF tvars, UnchangedRows
  <2> QED BY <2>1, HandlersMove DEF IInv, TypeOK
<1>2. ASSUME NEW k \in Key, Void(k) \/ Restore(k) PROVE IInv'
  BY <1>2, RowMoves DEF Void, Restore, Present
<1>3. ASSUME NEW k \in Key, Purge(k) PROVE IInv' BY <1>3, PurgeKeeps
<1>4. ASSUME NEW k \in Key, NEW slots \in Slots, NEW meta \in Meta \cup {None},
             Create(k, slots, meta)
      PROVE  IInv'
  BY <1>4, CreateKeeps
<1>5. ASSUME NEW r \in Req, Store(r) PROVE IInv' BY <1>5, StoreKeeps
<1>6. ASSUME NEW r \in Req, NEW k \in Key, NEW slots \in Slots \cup {None},
             NEW meta \in Meta \cup {None}, StartUpdate(r, k, slots, meta)
      PROVE  IInv'
  <2> DEFINE q == [req[r] EXCEPT !.step = "find", !.key = k, !.slots = slots, !.meta = meta]
  <2>3. req[r] \in Request BY DEF IInv, TypeOK
  <2>4. q \in Request BY <2>3 DEF Request
  <2>5. req' = [req EXCEPT ![r] = q] BY <1>6 DEF StartUpdate
  <2>1. req' \in [Req -> Request]
    <3> HIDE DEF q
    <3> QED BY <2>4, <2>5 DEF IInv, TypeOK
  <2>2. \A s \in Req : req'[s].step = "store" => req'[s] = req[s]
    BY <1>6 DEF StartUpdate, IInv, TypeOK, Request
  <2> QED BY <1>6, <2>1, <2>2, HandlersMove DEF StartUpdate
<1>7. ASSUME NEW r \in Req, NEW k \in Key, NEW to \in 1..MaxVersion, StartRollback(r, k, to)
      PROVE  IInv'
  <2>1. to \in Nat /\ templates[k] \in Template /\ req[r] \in Request
    BY <1>7, TemplatesAssumption DEF IInv, TypeOK
  <2> DEFINE q == [req[r] EXCEPT !.step = "snapshot", !.key = k, !.to = to,
                                 !.tpl = templates[k]]
  <2>4. q \in Request BY <2>1 DEF Request
  <2>5. req' = [req EXCEPT ![r] = q] BY <1>7 DEF StartRollback
  <2>2. req' \in [Req -> Request]
    <3> HIDE DEF q
    <3> QED BY <2>4, <2>5 DEF IInv, TypeOK
  <2>3. \A s \in Req : req'[s].step = "store" => req'[s] = req[s]
    BY <1>7 DEF StartRollback, IInv, TypeOK, Request
  <2> QED BY <1>7, <2>2, <2>3, HandlersMove DEF StartRollback
<1>8. ASSUME NEW r \in Req, ReadSnapshot(r) PROVE IInv'
  <2>1. CASE Done(r)
    <3>1. UnchangedRows BY <1>8 DEF ReadSnapshot
    <3> QED BY <2>1, <3>1, GivesUp
  <2>2. ASSUME NEW f \in files, req' = [req EXCEPT ![r] = EditTo(req[r].key, f)]
        PROVE  IInv'
    <3>1. /\ f.slots \in Slots /\ f.meta \in Meta \cup {None}
          /\ req[r].key \in Key
      BY DEF IInv, TypeOK, File, Request
    <3>2. EditTo(req[r].key, f) \in Request /\ EditTo(req[r].key, f).step = "find"
      BY <3>1, IdleIsRequest DEF EditTo, Request
    <3>3. UnchangedRows BY <1>8 DEF ReadSnapshot
    <3>4. req' \in [Req -> Request] BY <2>2, <3>2 DEF IInv, TypeOK
    <3>5. \A s \in Req : req'[s].step = "store" => req'[s] = req[s]
      BY <2>2, <3>2 DEF IInv, TypeOK
    <3> QED BY <3>3, <3>4, <3>5, HandlersMove
  <2> QED BY <2>1, <2>2, <1>8 DEF ReadSnapshot
<1>9. ASSUME NEW r \in Req, FindActive(r) PROVE IInv'
  <2>1. CASE Done(r)
    <3>1. UnchangedRows BY <1>9 DEF FindActive
    <3> QED BY <2>1, <3>1, GivesUp
  <2>2. CASE /\ req' = [req EXCEPT ![r].step = "store", ![r].tpl = templates[req[r].key]]
             /\ templates[req[r].key].row = "kept"
    <3> DEFINE q == [req[r] EXCEPT !.step = "store", !.tpl = templates[req[r].key]]
    <3>1. templates[req[r].key] \in Template BY DEF IInv, TypeOK, Request
    <3>5. req[r] \in Request BY DEF IInv, TypeOK
    <3>3. q \in Request BY <3>1, <3>5 DEF Request
    <3>4. req' = [req EXCEPT ![r] = q] BY <2>2
    <3>2. req' \in [Req -> Request]
      <4> HIDE DEF q
      <4> QED BY <3>3, <3>4 DEF IInv, TypeOK
    <3> QED BY <2>2, <3>2, <1>9, HandlersMove DEF FindActive, IInv, TypeOK, Request
  <2> QED BY <2>1, <2>2, <1>9 DEF FindActive
<1>10. ASSUME NEW k \in DOMAIN Seed, SeedTemplate(k) PROVE IInv' BY <1>10, SeedKeeps
<1>11. ASSUME NEW r \in Req, Die(r) PROVE IInv'
  BY <1>11, GivesUp DEF Die
<1> QED BY <1>1, <1>2, <1>3, <1>4, <1>5, <1>6, <1>7, <1>8, <1>9, <1>10, <1>11
    DEF Next

-----------------------------------------------------------------------------
HistoryStep ==
  \A k \in Key :
    LET old == templates[k]  new == templates'[k] IN
    old.row # "none" /\ new.row # "none" /\ new.id = old.id =>
      /\ \A f \in files : f.id = old.id => f \in files'
      /\ \/ Content(new) = Content(old)
         \/ AsSeeded(k, new)
         \/ \E f \in files' :
              /\ f.id = old.id /\ Unfiled(f) /\ new.version = f.version + 1
              /\ f = Filed(old) \/ AsSeeded(k, old)

\* Handlers, voids and restores leave contents and files alone.
LEMMA NothingEdited ==
  ASSUME files' = files, \A k \in Key : Content(templates'[k]) = Content(templates[k])
  PROVE  HistoryStep
BY DEF HistoryStep

LEMMA StoreFiles ==
  ASSUME IInv, NEW r \in Req, Store(r)
  PROVE  HistoryStep
<1>1. CASE ~(StillThere(r) /\ Unfiled(req[r].tpl))
  <2>1. files' = files /\ templates' = templates BY <1>1 DEF Store
  <2> QED BY <2>1, NothingEdited
<1>2. CASE StillThere(r) /\ Unfiled(req[r].tpl)
  <2> DEFINE k == req[r].key  tpl == req[r].tpl
  <2>1. /\ k \in Key /\ SameRow(k, r)
        /\ Filed(tpl) = Filed(templates[k]) \/ AsSeeded(k, templates[k])
        /\ files' = files \cup {Filed(tpl)}
        /\ \A l \in Key \ {k} : templates'[l] = templates[l]
        /\ templates'[k].version = tpl.version + 1
    BY <1>2, StoreWrites
  <2>2. /\ Filed(tpl).id = templates[k].id /\ Filed(tpl).version = tpl.version
        /\ Unfiled(Filed(tpl))
    <3>1. Unfiled(tpl) BY <1>2
    <3> QED BY <3>1, <2>1 DEF Unfiled, Filed, SameRow
  <2> HIDE DEF k, tpl
  <2> QED BY <2>1, <2>2 DEF HistoryStep
<1> QED BY <1>1, <1>2

LEMMA StepHistory == IInv /\ [Next]_tvars => HistoryStep
<1> SUFFICES ASSUME IInv, [Next]_tvars PROVE HistoryStep OBVIOUS
<1>1. UNCHANGED <<templates, files>> => HistoryStep BY NothingEdited
<1>2. ASSUME NEW k \in Key, Void(k) \/ Restore(k) PROVE HistoryStep
  BY <1>2, NothingEdited DEF Void, Restore, Content, IInv, TypeOK, Template
<1>3. ASSUME NEW k \in Key, Purge(k) PROVE HistoryStep
  <2>1. /\ templates'[k].row = "none"
        /\ \A l \in Key \ {k} : templates'[l] = templates[l]
        /\ Present(k)
        /\ files' = {f \in files : f.id # templates[k].id}
    BY <1>3 DEF Purge, Present, IInv, TypeOK, Template
  <2>2. \A l \in Key \ {k} : Present(l) => templates[l].id # templates[k].id
    BY <2>1 DEF IInv, IdsAreOwn
  <2> QED BY <2>1, <2>2 DEF HistoryStep, Present
<1>4. ASSUME NEW k \in Key, NEW slots \in Slots, NEW meta \in Meta \cup {None},
             Create(k, slots, meta)
      PROVE  HistoryStep
  BY <1>4 DEF Create, HistoryStep, IInv, TypeOK
<1>5. ASSUME NEW r \in Req, Store(r) PROVE HistoryStep BY <1>5, StoreFiles
<1>6. ASSUME NEW k \in DOMAIN Seed, SeedTemplate(k) PROVE HistoryStep
  <2>1. k \in Key /\ files' = files BY <1>6, TemplatesAssumption DEF SeedTemplate
  <2>2. CASE Present(k)
    BY <1>6, <2>1, <2>2, SeedWrites DEF HistoryStep, AsSeeded
  <2>3. CASE ~Present(k)
    <3>1. \A l \in Key \ {k} : templates'[l] = templates[l]
      BY <1>6, <2>3 DEF SeedTemplate, Present, IInv, TypeOK
    <3> QED BY <2>1, <2>3, <3>1 DEF HistoryStep, Present
  <2> QED BY <2>2, <2>3
<1>7. ASSUME NEW r \in Req, ReadSnapshot(r) \/ FindActive(r) \/ Die(r) PROVE HistoryStep
  BY <1>1, <1>7 DEF ReadSnapshot, FindActive, Die, UnchangedRows
<1>8. ASSUME NEW r \in Req, NEW k \in Key, NEW slots \in Slots \cup {None},
             NEW meta \in Meta \cup {None}, StartUpdate(r, k, slots, meta)
      PROVE  HistoryStep
  BY <1>1, <1>8 DEF StartUpdate, UnchangedRows
<1>9. ASSUME NEW r \in Req, NEW k \in Key, NEW to \in 1..MaxVersion, StartRollback(r, k, to)
      PROVE  HistoryStep
  BY <1>1, <1>9 DEF StartRollback, UnchangedRows
<1>10. CASE UNCHANGED tvars BY <1>1, <1>10 DEF tvars
<1> QED BY <1>2, <1>3, <1>4, <1>5, <1>6, <1>7, <1>8, <1>9, <1>10 DEF Next

-----------------------------------------------------------------------------
(* Settings of the system *)

\* What is promised of a key no value in use of which was edited, and which nothing
\* read while it was removed: the cache and what is about to fill it are the row, and
\* while the key is being removed nothing has a copy of it.
KeyIsFresh(k) ==
  /\ cache[k] \in {None, rows[k]}
  /\ \A r \in Reader : reads[r].step = "fill" /\ reads[r].key = k => reads[r].row = rows[k]
  /\ Removing(k) => cache[k] = None

\* A handler that reads has a key, and a key that is read and removed is recorded.
ReadersKnown ==
  /\ \A r \in Reader : reads[r].step # "idle" => reads[r].key \in SystemKey
  /\ \A k \in SystemKey : InFlight(k) /\ Removing(k) => k \in overlapped

SettingsInv ==
  /\ S!TypeOK /\ ReadersKnown
  /\ outdated \subseteq SystemKey /\ overlapped \subseteq SystemKey
  /\ \A k \in SystemKey \ (outdated \cup overlapped) : KeyIsFresh(k)

ReadSlot == [step: {"idle", "find", "fill"}, key: SystemKey \cup {None},
             row: Value \cup {None}]

LEMMA NoReadIsRead == S!NoRead \in ReadSlot /\ S!NoRead.step = "idle"
  BY DEF S!NoRead, ReadSlot

LEMMA UnderStarts == \A p : Under(p) \subseteq StartsWith(p)
  BY DEF Under, StartsWith

LEMMA SettingsStartSound == S!Init /\ outdated = {} /\ overlapped = {} => SettingsInv
<1> SUFFICES ASSUME S!Init, outdated = {}, overlapped = {} PROVE SettingsInv
  OBVIOUS
<1>1. S!TypeOK
  BY NoReadIsRead DEF S!Init, S!TypeOK, ReadSlot
<1>2. ReadersKnown
  BY NoReadIsRead DEF S!Init, ReadersKnown, Removing
<1>3. \A k \in SystemKey : KeyIsFresh(k)
  BY NoReadIsRead DEF S!Init, KeyIsFresh, Removing
<1> QED BY <1>1, <1>2, <1>3 DEF SettingsInv

\* Only readers step: rows, cache and removals stay.
LEMMA ReaderMoves ==
  ASSUME SettingsInv, NEW r \in Reader, NEW slot \in ReadSlot,
         reads' = [reads EXCEPT ![r] = slot], slot.step # "idle", slot.key \in SystemKey,
         slot.step = "fill" => slot.row = rows[slot.key],
         UNCHANGED <<rows, cache, removals, own, outdated>>,
         overlapped' = overlapped \cup {k \in SystemKey : (InFlight(k) /\ Removing(k))'}
  PROVE  SettingsInv'
<1>1. S!TypeOK'
  BY DEF SettingsInv, S!TypeOK, ReadSlot
<1>2. \A s \in Reader : reads'[s] = IF s = r THEN slot ELSE reads[s]
  BY DEF SettingsInv, S!TypeOK
<1>3. ReadersKnown'
  BY <1>2 DEF SettingsInv, ReadersKnown
<1>4. \A k \in SystemKey : Removing(k)' = Removing(k)
  BY DEF Removing
<1>5. \A k \in SystemKey \ (outdated \cup overlapped)' : KeyIsFresh(k)'
  BY <1>2, <1>4 DEF SettingsInv, KeyIsFresh
<1> QED BY <1>1, <1>3, <1>5 DEF SettingsInv

LEMMA StartGetIsSound ==
  ASSUME SettingsInv, NEW r \in Reader, NEW k \in SystemKey, S!StartGet(r, k),
         UNCHANGED outdated,
         overlapped' = overlapped \cup {l \in SystemKey : (InFlight(l) /\ Removing(l))'}
  PROVE  SettingsInv'
<1> DEFINE slot == [reads[r] EXCEPT !.step = "find", !.key = k]
<1>1. slot \in ReadSlot /\ slot.step = "find" /\ slot.key = k
  BY DEF SettingsInv, S!TypeOK, ReadSlot
<1>2. reads' = [reads EXCEPT ![r] = slot] /\ UNCHANGED <<rows, cache, removals, own>>
  BY DEF S!StartGet
<1> QED BY <1>1, <1>2, ReaderMoves

LEMMA FindRowIsSound ==
  ASSUME SettingsInv, NEW r \in Reader, S!FindRow(r), UNCHANGED outdated,
         overlapped' = overlapped \cup {l \in SystemKey : (InFlight(l) /\ Removing(l))'}
  PROVE  SettingsInv'
<1> DEFINE slot == [reads[r] EXCEPT !.step = "fill", !.row = rows[reads[r].key]]
<1>1. reads[r] \in ReadSlot /\ reads[r].key \in SystemKey
  BY DEF SettingsInv, S!TypeOK, ReadSlot, ReadersKnown, S!FindRow
<1>2. rows[reads[r].key] \in Value \cup {None}
  BY <1>1 DEF SettingsInv, S!TypeOK
<1>3. /\ slot \in ReadSlot /\ slot.step = "fill" /\ slot.key = reads[r].key
      /\ slot.row = rows[slot.key]
  BY <1>1, <1>2 DEF ReadSlot
<1>4. reads' = [reads EXCEPT ![r] = slot] /\ UNCHANGED <<rows, cache, removals, own>>
  BY DEF S!FindRow
<1> QED BY <1>1, <1>3, <1>4, ReaderMoves

\* What fills the cache is the row: a removal of the key would have been recorded.
LEMMA FillCacheIsSound ==
  ASSUME SettingsInv, NEW r \in Reader, S!FillCache(r), UNCHANGED outdated,
         overlapped' = overlapped \cup {l \in SystemKey : (InFlight(l) /\ Removing(l))'}
  PROVE  SettingsInv'
<1> DEFINE key == reads[r].key  row == reads[r].row
<1>1. key \in SystemKey /\ row \in Value \cup {None} /\ reads[r].step = "fill"
  BY DEF SettingsInv, S!TypeOK, ReadersKnown, S!FillCache
<1>2. /\ reads' = [reads EXCEPT ![r] = S!NoRead]
      /\ cache' = IF row = None THEN cache ELSE [cache EXCEPT ![key] = row]
      /\ UNCHANGED <<rows, removals, own>>
  BY DEF S!FillCache
<1>3. S!TypeOK'
  <2>1. cache' \in [SystemKey -> Value \cup {None}]
    BY <1>1, <1>2 DEF SettingsInv, S!TypeOK
  <2>2. reads' \in [Reader -> ReadSlot]
    BY <1>2, NoReadIsRead DEF SettingsInv, S!TypeOK, ReadSlot
  <2> QED BY <1>2, <2>1, <2>2 DEF SettingsInv, S!TypeOK, ReadSlot
<1>4. \A s \in Reader : reads'[s] = IF s = r THEN S!NoRead ELSE reads[s]
  BY <1>2 DEF SettingsInv, S!TypeOK
<1>5. ReadersKnown'
  BY <1>4, NoReadIsRead DEF SettingsInv, ReadersKnown
<1>6. \A k \in SystemKey : Removing(k)' = Removing(k)
  BY <1>2 DEF Removing
<1>7. \A k \in SystemKey : cache'[k] = cache[k] \/ (k = key /\ cache'[k] = row)
  <2>1. CASE row = None
    BY <1>2, <2>1
  <2>2. CASE row # None
    <3>1. cache' = [cache EXCEPT ![key] = row] /\ cache \in [SystemKey -> Value \cup {None}]
      BY <1>2, <2>2 DEF SettingsInv, S!TypeOK
    <3> HIDE DEF key, row
    <3> QED BY <1>1, <3>1
  <2> QED BY <2>1, <2>2
<1>8. InFlight(key)
  BY DEF InFlight
<1>9. ASSUME NEW k \in SystemKey \ (outdated \cup overlapped)' PROVE KeyIsFresh(k)'
  <2>1. KeyIsFresh(k) /\ k \notin overlapped
    BY DEF SettingsInv
  <2>2. k = key => ~Removing(k) /\ row = rows[k]
    BY <1>1, <1>8, <2>1 DEF SettingsInv, ReadersKnown, KeyIsFresh
  <2> QED BY <1>2, <1>4, <1>6, <1>7, <2>1, <2>2, NoReadIsRead DEF KeyIsFresh
<1> QED BY <1>3, <1>5, <1>9 DEF SettingsInv

LEMMA SetSystemIsSound ==
  ASSUME SettingsInv, NEW k \in SystemKey, NEW v \in Value, S!SetSystem(k, v),
         outdated' = IF cache[k] # None \/ InFlight(k) THEN outdated \cup {k} ELSE outdated,
         UNCHANGED overlapped
  PROVE  SettingsInv'
<1>1. rows' = [rows EXCEPT ![k] = v] /\ UNCHANGED <<cache, reads, removals, own>>
  BY DEF S!SetSystem
<1>2. S!TypeOK'
  BY <1>1 DEF SettingsInv, S!TypeOK
<1>3. \A l \in SystemKey : Removing(l)' = Removing(l) /\ InFlight(l)' = InFlight(l)
  BY <1>1 DEF Removing, InFlight
<1>4. ReadersKnown'
  BY <1>1, <1>3 DEF SettingsInv, ReadersKnown
<1>5. ASSUME NEW l \in SystemKey \ (outdated \cup overlapped)' PROVE KeyIsFresh(l)'
  <2>1. KeyIsFresh(l)
    BY DEF SettingsInv
  <2>2. CASE l # k
    BY <1>1, <1>3, <2>1, <2>2 DEF SettingsInv, S!TypeOK, KeyIsFresh
  <2>3. CASE l = k
    <3>1. cache[k] = None /\ ~InFlight(k)
      BY <2>3
    <3> QED BY <1>1, <2>3, <3>1 DEF KeyIsFresh, InFlight
  <2> QED BY <2>2, <2>3
<1> QED BY <1>2, <1>4, <1>5 DEF SettingsInv

\* A key that is forgotten to be out of date has no copy any more.
LEMMA Forgotten ==
  ASSUME SettingsInv, S!TypeOK', reads' = reads, ReadersKnown',
         outdated' = {k \in outdated : cache'[k] # None \/ InFlight(k)},
         overlapped \subseteq overlapped', overlapped' \subseteq SystemKey,
         \A k \in SystemKey \ (outdated \cup overlapped') : KeyIsFresh(k)'
  PROVE  SettingsInv'
<1> SUFFICES ASSUME NEW k \in SystemKey \ (outdated \cup overlapped)' PROVE KeyIsFresh(k)'
  BY DEF SettingsInv
<1>1. CASE k \notin outdated
  BY <1>1
<1>2. CASE k \in outdated
  <2>1. cache'[k] = None /\ ~InFlight(k)
    BY <1>2
  <2> QED BY <2>1 DEF KeyIsFresh, InFlight
<1> QED BY <1>1, <1>2

LEMMA UncacheIsSound ==
  ASSUME SettingsInv, NEW r \in Remover, NEW p \in Prefix, S!Uncache(r, p),
         outdated' = {k \in outdated : cache'[k] # None \/ InFlight(k)},
         overlapped' = overlapped \cup {k \in SystemKey : (InFlight(k) /\ Removing(k))'}
  PROVE  SettingsInv'
<1>1. /\ cache' = [k \in SystemKey |-> IF k \in StartsWith(p) THEN None ELSE cache[k]]
      /\ removals' = [removals EXCEPT ![r] = p]
      /\ UNCHANGED <<rows, reads, own>>
  BY DEF S!Uncache
<1>2. S!TypeOK'
  BY <1>1 DEF SettingsInv, S!TypeOK
<1>3. ReadersKnown'
  BY <1>1 DEF SettingsInv, ReadersKnown
<1>4. ASSUME NEW k \in SystemKey, Removing(k)' PROVE Removing(k) \/ k \in StartsWith(p)
  <2>1. PICK q \in Remover : removals'[q] # None /\ k \in Under(removals'[q])
    BY <1>4 DEF Removing
  <2>2. removals'[q] = IF q = r THEN p ELSE removals[q]
    BY <1>1 DEF SettingsInv, S!TypeOK
  <2> QED BY <2>1, <2>2, UnderStarts DEF Removing
<1>5. \A k \in SystemKey \ (outdated \cup overlapped') : KeyIsFresh(k)'
  BY <1>1, <1>4 DEF SettingsInv, KeyIsFresh
<1> QED BY <1>1, <1>2, <1>3, <1>5, Forgotten DEF SettingsInv

LEMMA DeleteRowsIsSound ==
  ASSUME SettingsInv, NEW r \in Remover, S!DeleteRows(r),
         outdated' = {k \in outdated : cache'[k] # None \/ InFlight(k)},
         overlapped' = overlapped \cup {k \in SystemKey : (InFlight(k) /\ Removing(k))'}
  PROVE  SettingsInv'
<1>1. /\ rows' = [k \in SystemKey |-> IF k \in Under(removals[r]) THEN None ELSE rows[k]]
      /\ removals' = [removals EXCEPT ![r] = None] /\ removals[r] # None
      /\ UNCHANGED <<cache, reads, own>>
  BY DEF S!DeleteRows
<1>2. S!TypeOK'
  BY <1>1 DEF SettingsInv, S!TypeOK
<1>3. ReadersKnown'
  BY <1>1 DEF SettingsInv, ReadersKnown
<1>4. \A k \in SystemKey : Removing(k)' => Removing(k)
  BY <1>1 DEF SettingsInv, S!TypeOK, Removing
<1>5. \A k \in SystemKey : k \in Under(removals[r]) => Removing(k)
  BY <1>1 DEF Removing
<1>6. ASSUME NEW k \in SystemKey \ (outdated \cup overlapped') PROVE KeyIsFresh(k)'
  <2>1. KeyIsFresh(k) /\ (InFlight(k) => ~Removing(k))
    BY DEF SettingsInv, ReadersKnown
  <2>2. CASE k \notin Under(removals[r])
    BY <1>1, <1>4, <2>1, <2>2 DEF KeyIsFresh
  <2>3. CASE k \in Under(removals[r])
    <3>1. cache[k] = None /\ ~InFlight(k)
      BY <1>5, <2>1, <2>3 DEF KeyIsFresh
    <3> QED BY <1>1, <3>1 DEF KeyIsFresh, InFlight
  <2> QED BY <2>2, <2>3
<1> QED BY <1>1, <1>2, <1>3, <1>6, Forgotten DEF SettingsInv

LEMMA RestartIsSound ==
  ASSUME SettingsInv, S!Restart, outdated' = {}, overlapped' = {} PROVE SettingsInv'
<1>1. S!TypeOK'
  BY NoReadIsRead DEF SettingsInv, S!TypeOK, S!Restart, ReadSlot
<1>2. ReadersKnown'
  BY NoReadIsRead DEF S!Restart, ReadersKnown, Removing
<1>3. \A k \in SystemKey : KeyIsFresh(k)'
  BY NoReadIsRead DEF S!Restart, KeyIsFresh, Removing
<1> QED BY <1>1, <1>2, <1>3 DEF SettingsInv

\* Steps of anything else, the preferences of a user among them.
LEMMA ElsewhereIsSound ==
  ASSUME SettingsInv, UNCHANGED <<rows, cache, reads, removals, outdated, overlapped>>,
         own' \in [S!Preference -> S!Text \cup {None}]
  PROVE  SettingsInv'
<1>1. S!TypeOK' /\ \A k : Removing(k)' = Removing(k) /\ InFlight(k)' = InFlight(k)
  BY DEF SettingsInv, S!TypeOK, Removing, InFlight
<1> QED BY <1>1 DEF SettingsInv, ReadersKnown, KeyIsFresh

LEMMA OwnStaysText ==
  ASSUME SettingsInv, S!OwnNext
  PROVE  /\ own' \in [S!Preference -> S!Text \cup {None}]
         /\ UNCHANGED <<rows, cache, reads, removals>>
<1>1. own \in [S!Preference -> S!Text \cup {None}]
  BY DEF SettingsInv, S!TypeOK
<1>2. ASSUME NEW p \in S!Preference, NEW text \in S!Text, S!SetOwn(p, text)
      PROVE  own' \in [S!Preference -> S!Text \cup {None}]
  BY <1>1, <1>2 DEF S!SetOwn
<1>3. ASSUME NEW some \in SUBSET S!Preference, NEW texts \in [some -> S!Text],
             S!SetObject(texts)
      PROVE  own' \in [S!Preference -> S!Text \cup {None}]
  BY <1>1, <1>3 DEF S!SetObject
<1>4. ASSUME NEW some \in SUBSET S!Preference, S!DeleteOwn(some)
      PROVE  own' \in [S!Preference -> S!Text \cup {None}]
  BY <1>1, <1>4 DEF S!DeleteOwn
<1>5. UNCHANGED <<rows, cache, reads, removals>>
  BY DEF S!OwnNext, S!SetOwn, S!SetObject, S!DeleteOwn
<1> QED BY <1>2, <1>3, <1>4, <1>5 DEF S!OwnNext

LEMMA SystemStepIsSound == SettingsInv /\ SystemStep => SettingsInv'
<1> SUFFICES ASSUME SettingsInv, SystemStep PROVE SettingsInv'
  OBVIOUS
<1> DEFINE Recorded ==
      overlapped' = overlapped \cup {k \in SystemKey : (InFlight(k) /\ Removing(k))'}
<1>1. CASE S!Restart /\ outdated' = {} /\ overlapped' = {}
  BY <1>1, RestartIsSound
<1>2. CASE /\ \E r \in Reader :
               \/ S!FindRow(r) \/ S!FillCache(r)
               \/ \E k \in SystemKey : S!StartGet(r, k)
           /\ UNCHANGED outdated /\ Recorded
  BY <1>2, FindRowIsSound, FillCacheIsSound, StartGetIsSound
<1>3. CASE /\ \E r \in Remover : S!DeleteRows(r) \/ \E p \in Prefix : S!Uncache(r, p)
           /\ outdated' = {k \in outdated : cache'[k] # None \/ InFlight(k)} /\ Recorded
  BY <1>3, DeleteRowsIsSound, UncacheIsSound
<1>4. CASE \E k \in SystemKey, v \in Value :
             /\ S!SetSystem(k, v)
             /\ outdated' = IF cache[k] # None \/ InFlight(k) THEN outdated \cup {k} ELSE outdated
             /\ UNCHANGED overlapped
  BY <1>4, SetSystemIsSound
<1> QED BY <1>1, <1>2, <1>3, <1>4 DEF SystemStep

-----------------------------------------------------------------------------
(* Files *)

\* Who names a file has it, until somebody else names it too.
Has(o, k) == o \in named[k] /\ (named[k] = {o} => k \in tmp \/ <<o, k>> \in stored)

\* A move was asked for by an owner of the file, and where it has been, the copies are.
MovesLeaveCopies ==
  \A m \in moving :
    /\ m.owner \in named[m.key]
    /\ m.step \in {"download", "row"} => m.owner \in Case
    /\ m.step \in {"delete", "row"} => F!Place(m) \in stored
    /\ m.owner \in Case /\ m.step # "download" => F!Place(m) \in blurred

NamersHave ==
  \A o \in F!Owner :
    /\ naming[o].step = "checked" => \A k \in naming[o].keys : Has(o, k)
    /\ \A k \in naming[o].done : <<o, k>> \in stored

ImagesAreNamed == \A i \in images : i.case \in named[i.key]

FilesInv == F!TypeOK /\ MovesLeaveCopies /\ NamersHave /\ ImagesAreNamed /\ NothingLost

LEMMA NotNamingIsNaming == F!NotNaming \in F!Naming /\ F!NotNaming.done = {}
                             /\ F!NotNaming.step = "idle"
  BY DEF F!NotNaming, F!Naming

LEMMA FilesStartSound == F!Init => FilesInv
<1> SUFFICES ASSUME F!Init PROVE FilesInv
  OBVIOUS
<1>1. F!TypeOK
  BY NotNamingIsNaming DEF F!Init, F!TypeOK, F!Owner
<1>2. MovesLeaveCopies /\ ImagesAreNamed /\ NothingLost
  BY DEF F!Init, MovesLeaveCopies, ImagesAreNamed, NothingLost, F!NothingLost
<1>3. NamersHave
  BY NotNamingIsNaming DEF F!Init, NamersHave
<1> QED BY <1>1, <1>2, <1>3 DEF FilesInv

\* No file leaves its place, and nobody is named: what is said of rows, moves and
\* handlers stays so for those there were.
NothingLeaves ==
  /\ named' = named /\ tmp \subseteq tmp'
  /\ stored \subseteq stored' /\ blurred \subseteq blurred'

LEMMA HasStays ==
  ASSUME NothingLeaves, NEW o, NEW k, Has(o, k) PROVE Has(o, k)'
  BY DEF NothingLeaves, Has

LEMMA RowsStay ==
  ASSUME FilesInv, NothingLeaves, images' = images, attached' = attached
  PROVE  ImagesAreNamed' /\ NothingLost'
  BY DEF FilesInv, NothingLeaves, ImagesAreNamed, NothingLost, F!NothingLost

LEMMA MovesStay ==
  ASSUME FilesInv, NothingLeaves, moving' \subseteq moving
  PROVE  MovesLeaveCopies'
  BY DEF FilesInv, NothingLeaves, MovesLeaveCopies, F!Place

LEMMA NamersStay ==
  ASSUME FilesInv, NothingLeaves,
         \A o \in F!Owner : naming'[o] = naming[o] \/ naming'[o] = F!NotNaming
  PROVE  NamersHave'
<1> SUFFICES ASSUME NEW o \in F!Owner
             PROVE  /\ naming'[o].step = "checked" => \A k \in naming'[o].keys : Has(o, k)'
                    /\ \A k \in naming'[o].done : <<o, k>> \in stored'
  BY DEF NamersHave
<1>1. CASE naming'[o] = F!NotNaming
  BY <1>1, NotNamingIsNaming
<1>2. CASE naming'[o] = naming[o]
  BY <1>2, HasStays DEF FilesInv, NamersHave, NothingLeaves
<1> QED BY <1>1, <1>2

LEMMA UploadIsSound ==
  ASSUME FilesInv, NEW k \in FileKey, F!Upload(k) PROVE FilesInv'
<1>1. NothingLeaves
  BY DEF F!Upload, NothingLeaves
<1>2. F!TypeOK'
  BY DEF FilesInv, F!TypeOK, F!Upload
<1> QED BY <1>1, <1>2, RowsStay, MovesStay, NamersStay DEF FilesInv, F!Upload

\* Everybody who has named the file keeps it.
LEMMA CheckFilesIsSound ==
  ASSUME FilesInv, NEW o \in F!Owner, NEW keys \in SUBSET FileKey, F!CheckFiles(o, keys)
  PROVE  FilesInv'
<1>1. /\ UNCHANGED <<tmp, stored, blurred, images, attached, moving>>
      /\ named' = [k \in FileKey |-> IF k \in keys THEN named[k] \cup {o} ELSE named[k]]
      /\ keys \subseteq tmp
  BY DEF F!CheckFiles, F!AllExist
<1>2. F!TypeOK'
  BY DEF FilesInv, F!TypeOK, F!CheckFiles, F!Naming
<1>3. ASSUME NEW p, NEW k \in FileKey, Has(p, k) PROVE Has(p, k)'
  BY <1>1, <1>3 DEF Has
<1>4. NamersHave'
  <2> SUFFICES ASSUME NEW p \in F!Owner
               PROVE  /\ naming'[p].step = "checked" => \A k \in naming'[p].keys : Has(p, k)'
                      /\ \A k \in naming'[p].done : <<p, k>> \in stored'
    BY DEF NamersHave
  <2>1. CASE p = o
    <3>1. naming'[o] = [step |-> "checked", keys |-> keys, done |-> {}]
      BY DEF FilesInv, F!TypeOK, F!CheckFiles
    <3>2. \A k \in keys : Has(o, k)'
      BY <1>1 DEF Has
    <3> QED BY <2>1, <3>1, <3>2
  <2>2. CASE p # o
    <3>1. naming'[p] = naming[p] /\ naming[p].keys \subseteq FileKey
      BY <2>2 DEF FilesInv, F!TypeOK, F!CheckFiles, F!Naming
    <3> QED BY <1>1, <1>3, <3>1 DEF FilesInv, NamersHave
  <2> QED BY <2>1, <2>2
<1>5. MovesLeaveCopies'
  BY <1>1 DEF FilesInv, F!TypeOK, F!Move, MovesLeaveCopies, F!Place
<1>6. ImagesAreNamed'
  BY <1>1 DEF FilesInv, F!TypeOK, F!Image, ImagesAreNamed
<1>7. NothingLost'
  BY <1>1 DEF FilesInv, F!TypeOK, F!Image, ImagesAreNamed, NothingLost, F!NothingLost
<1> QED BY <1>2, <1>4, <1>5, <1>6, <1>7 DEF FilesInv

LEMMA NameImagesIsSound ==
  ASSUME FilesInv, NEW c \in Case, F!NameImages(c) PROVE FilesInv'
<1>1. /\ UNCHANGED <<tmp, stored, blurred, attached, moving, named>>
      /\ naming' = [naming EXCEPT ![c] = F!NotNaming]
      /\ NothingLeaves
  BY DEF F!NameImages, NothingLeaves
<1>2. c \in F!Owner /\ naming[c].keys \subseteq FileKey /\ naming[c].step = "checked"
  BY DEF F!Owner, FilesInv, F!TypeOK, F!Naming, F!NameImages
<1>3. images' \subseteq images \cup [case: {c}, key: naming[c].keys, moved: {FALSE}]
  BY DEF F!NameImages
<1>4. \A k \in naming[c].keys : Has(c, k)
  BY <1>2 DEF FilesInv, NamersHave
<1>5. F!TypeOK'
  BY <1>1, <1>2, <1>3, NotNamingIsNaming DEF FilesInv, F!TypeOK, F!Image
<1>6. ImagesAreNamed'
  BY <1>1, <1>3, <1>4 DEF FilesInv, ImagesAreNamed, Has
<1>7. NothingLost'
  BY <1>1, <1>3, <1>4 DEF FilesInv, NothingLost, F!NothingLost, Has
<1>8. NamersHave'
  BY <1>1, NamersStay DEF FilesInv, F!TypeOK
<1> QED BY <1>1, <1>5, <1>6, <1>7, <1>8, MovesStay DEF FilesInv

-----------------------------------------------------------------------------
\* A move begins.
LEMMA StartMoveIsSound ==
  ASSUME FilesInv, NEW o \in F!Owner, NEW k \in FileKey, NEW step \in {"download", "copy"},
         F!StartMove(o, k, step), o \in named[k], o \in Case <=> step = "download"
  PROVE  FilesInv'
<1>1. /\ UNCHANGED <<tmp, stored, blurred, images, attached, naming, named>>
      /\ moving' = moving \cup {[step |-> step, owner |-> o, key |-> k]}
      /\ NothingLeaves
  BY DEF F!StartMove, NothingLeaves
<1>2. F!TypeOK'
  BY <1>1 DEF FilesInv, F!TypeOK, F!Move
<1>3. MovesLeaveCopies'
  <2> DEFINE new == [step |-> step, owner |-> o, key |-> k]
  <2>1. new.owner = o /\ new.key = k /\ new.step = step
    OBVIOUS
  <2>2. moving' = moving \cup {new}
    BY <1>1
  <2>3. named' = named /\ stored' = stored /\ blurred' = blurred
    BY <1>1
  <2> HIDE DEF new
  <2>4. \A m \in moving' : m = new \/ m \in moving
    BY <2>2
  <2>5. MovesLeaveCopies
    BY DEF FilesInv
  <2>6. step = "download" \/ step = "copy"
    OBVIOUS
  <2>7. /\ new.owner \in named'[new.key]
        /\ new.step \in {"download", "row"} => new.owner \in Case
        /\ new.step \notin {"delete", "row"}
        /\ ~(new.owner \in Case /\ new.step # "download")
    BY <2>1, <2>3, <2>6
  <2> QED BY <2>3, <2>4, <2>5, <2>7 DEF MovesLeaveCopies, F!Place
<1> QED BY <1>1, <1>2, <1>3, RowsStay, NamersStay DEF FilesInv

LEMMA StartImageIsSound ==
  ASSUME FilesInv, F!StartImage PROVE FilesInv'
<1>1. PICK i \in images : F!StartMove(i.case, i.key, "download")
  BY DEF F!StartImage
<1>2. i.case \in F!Owner /\ i.key \in FileKey /\ i.case \in named[i.key]
  BY DEF FilesInv, F!TypeOK, F!Image, ImagesAreNamed, F!Owner
<1>3. i.case \in Case
  BY DEF FilesInv, F!TypeOK, F!Image
<1> QED BY <1>1, <1>2, <1>3, StartMoveIsSound

LEMMA StartAttachmentIsSound ==
  ASSUME FilesInv, NEW cl \in Claim, F!StartAttachment(cl) PROVE FilesInv'
<1>1. PICK k \in naming[cl].keys : F!StartMove(cl, k, "copy")
  BY DEF F!StartAttachment
<1>2. cl \in F!Owner /\ k \in FileKey /\ cl \in named[k] /\ cl \notin Case
  BY ContentAssumption
  DEF F!StartAttachment, FilesInv, F!TypeOK, F!Naming, NamersHave, Has, F!Owner
<1> QED BY <1>1, <1>2, StartMoveIsSound

LEMMA BlurIsSound ==
  ASSUME FilesInv, NEW m \in moving, F!Blur(m) PROVE FilesInv'
<1>1. /\ NothingLeaves
      /\ moving' = (moving \ {m}) \cup {[m EXCEPT !.step = "copy"]}
      /\ blurred' = blurred \cup {F!Place(m)}
      /\ UNCHANGED <<tmp, stored, images, attached, naming, named>>
  BY DEF F!Blur, F!Goto, NothingLeaves
<1>2. m \in F!Move
  BY DEF FilesInv, F!TypeOK
<1>3. m.owner \in Case
  BY DEF FilesInv, MovesLeaveCopies, F!Blur
<1>4. F!TypeOK'
  BY <1>1, <1>2, <1>3 DEF FilesInv, F!TypeOK, F!Move, F!Place
<1>5. MovesLeaveCopies'
  BY <1>1, <1>2 DEF FilesInv, MovesLeaveCopies, F!Move, F!Place
<1> QED BY <1>1, <1>4, <1>5, RowsStay, NamersStay DEF FilesInv

LEMMA CopyFileIsSound ==
  ASSUME FilesInv, NEW m \in moving, F!CopyFile(m) PROVE FilesInv'
<1>1. /\ NothingLeaves
      /\ moving' = (moving \ {m}) \cup {[m EXCEPT !.step = "delete"]}
      /\ stored' = stored \cup {F!Place(m)}
      /\ UNCHANGED <<tmp, blurred, images, attached, naming, named>>
      /\ m.step = "copy"
  BY DEF F!CopyFile, F!Goto, NothingLeaves
<1>2. m \in F!Move
  BY DEF FilesInv, F!TypeOK
<1>4. F!TypeOK'
  BY <1>1, <1>2 DEF FilesInv, F!TypeOK, F!Move, F!Place
<1>5. MovesLeaveCopies'
  BY <1>1, <1>2 DEF FilesInv, MovesLeaveCopies, F!Move, F!Place
<1> QED BY <1>1, <1>4, <1>5, RowsStay, NamersStay DEF FilesInv

\* The file leaves the bucket "tmp", with its copy where it belongs.
LEMMA DeleteFileIsSound ==
  ASSUME FilesInv, NEW m \in moving, F!DeleteFile(m) PROVE FilesInv'
<1>1. /\ tmp' = tmp \ {m.key} /\ m.step = "delete"
      /\ UNCHANGED <<stored, blurred, images, attached, named>>
  BY DEF F!DeleteFile
<1>2. m \in F!Move /\ m.owner \in named[m.key] /\ <<m.owner, m.key>> \in stored
  BY <1>1 DEF FilesInv, F!TypeOK, MovesLeaveCopies, F!Place
<1>3. ASSUME NEW o, NEW k, Has(o, k) PROVE Has(o, k)'
  BY <1>1, <1>2, <1>3 DEF Has
<1>4. moving' \subseteq (moving \ {m})
                  \cup (IF m.owner \in Case THEN {[m EXCEPT !.step = "row"]} ELSE {})
  BY DEF F!DeleteFile, F!Goto, F!Stop
<1>5. \A o \in F!Owner :
        /\ naming'[o] \in F!Naming
        /\ naming'[o].step = naming[o].step /\ naming'[o].keys = naming[o].keys
        /\ naming'[o].done \subseteq naming[o].done \cup (IF o = m.owner THEN {m.key} ELSE {})
  <2>1. CASE m.owner \in Case
    BY <2>1 DEF F!DeleteFile, FilesInv, F!TypeOK
  <2>2. CASE m.owner \notin Case
    <3> DEFINE slot ==
          [naming[m.owner] EXCEPT !.done = @ \cup ({m.key} \cap naming[m.owner].keys)]
    <3>1. m.owner \in F!Owner /\ naming[m.owner] \in F!Naming
      BY <1>2 DEF F!Move, FilesInv, F!TypeOK
    <3>2. /\ slot \in F!Naming /\ slot.step = naming[m.owner].step
          /\ slot.keys = naming[m.owner].keys
          /\ slot.done \subseteq naming[m.owner].done \cup {m.key}
      BY <3>1 DEF F!Naming
    <3>3. naming' = [naming EXCEPT ![m.owner] = slot]
      BY <2>2 DEF F!DeleteFile
    <3> HIDE DEF slot
    <3> QED BY <3>1, <3>2, <3>3 DEF FilesInv, F!TypeOK
  <2> QED BY <2>1, <2>2
<1>6. naming' \in [F!Owner -> F!Naming]
  <2>1. \E slots : naming' = [naming EXCEPT ![m.owner] = slots] \/ naming' = naming
    BY DEF F!DeleteFile
  <2> QED BY <1>5, <2>1 DEF FilesInv, F!TypeOK
<1>7. F!TypeOK'
  BY <1>1, <1>2, <1>4, <1>6 DEF FilesInv, F!TypeOK, F!Move
<1>8. MovesLeaveCopies'
  BY <1>1, <1>2, <1>4 DEF FilesInv, MovesLeaveCopies, F!Move, F!Place
<1>9. NamersHave'
  BY <1>1, <1>2, <1>3, <1>5 DEF FilesInv, NamersHave
<1>10. ImagesAreNamed'
  BY <1>1 DEF FilesInv, ImagesAreNamed
<1>11. NothingLost'
  BY <1>1, <1>2 DEF FilesInv, NothingLost, F!NothingLost
<1> QED BY <1>7, <1>8, <1>9, <1>10, <1>11 DEF FilesInv

LEMMA UpdateImageIsSound ==
  ASSUME FilesInv, NEW m \in moving, F!UpdateImage(m) PROVE FilesInv'
<1>1. /\ NothingLeaves /\ moving' \subseteq moving /\ m.step = "row"
      /\ UNCHANGED <<tmp, stored, blurred, attached, naming, named>>
      /\ images' \subseteq images \cup {[case |-> m.owner, key |-> m.key, moved |-> TRUE]}
  BY DEF F!UpdateImage, F!Stop, NothingLeaves
<1>2. /\ m \in F!Move /\ m.owner \in named[m.key] /\ m.owner \in Case
      /\ <<m.owner, m.key>> \in stored /\ <<m.owner, m.key>> \in blurred
  BY <1>1 DEF FilesInv, F!TypeOK, MovesLeaveCopies, F!Place
<1>3. F!TypeOK'
  <2>1. [case |-> m.owner, key |-> m.key, moved |-> TRUE] \in F!Image
    BY <1>2 DEF F!Move, F!Image
  <2>2. images' \subseteq F!Image
    BY <1>1, <2>1 DEF FilesInv, F!TypeOK
  <2> QED BY <1>1, <2>2 DEF FilesInv, F!TypeOK
<1>4. ImagesAreNamed'
  BY <1>1, <1>2 DEF FilesInv, ImagesAreNamed
<1>5. NothingLost'
  BY <1>1, <1>2 DEF FilesInv, NothingLost, F!NothingLost
<1> QED BY <1>1, <1>3, <1>4, <1>5, MovesStay, NamersStay DEF FilesInv

LEMMA AttachIsSound ==
  ASSUME FilesInv, NEW cl \in Claim, F!Attach(cl) PROVE FilesInv'
<1>1. /\ NothingLeaves /\ naming' = [naming EXCEPT ![cl] = F!NotNaming]
      /\ attached' = attached \cup ({cl} \X naming[cl].keys)
      /\ naming[cl].done = naming[cl].keys
      /\ UNCHANGED <<tmp, stored, blurred, images, moving, named>>
  BY DEF F!Attach, NothingLeaves
<1>2. cl \in F!Owner /\ naming[cl] \in F!Naming
  BY DEF F!Owner, FilesInv, F!TypeOK
<1>3. attached' \subseteq stored
  BY <1>1, <1>2 DEF FilesInv, NamersHave, NothingLost, F!NothingLost
<1>4. F!TypeOK'
  BY <1>1, <1>2, NotNamingIsNaming DEF FilesInv, F!TypeOK, F!Naming
<1>5. NothingLost'
  BY <1>1, <1>3 DEF FilesInv, NothingLost, F!NothingLost
<1>6. NamersHave'
  BY <1>1, NamersStay DEF FilesInv, F!TypeOK
<1> QED BY <1>1, <1>4, <1>5, <1>6, MovesStay DEF FilesInv, ImagesAreNamed

\* Moves and handlers that stop leave everything where it is.
LEMMA StopIsSound ==
  ASSUME FilesInv, UNCHANGED <<tmp, stored, blurred, images, attached, named>>,
         moving' \subseteq moving, naming' \in [F!Owner -> F!Naming],
         \A o \in F!Owner : naming'[o] = naming[o] \/ naming'[o] = F!NotNaming
  PROVE  FilesInv'
<1>1. NothingLeaves
  BY DEF NothingLeaves
<1>2. F!TypeOK'
  BY DEF FilesInv, F!TypeOK
<1> QED BY <1>1, <1>2, RowsStay, MovesStay, NamersStay DEF FilesInv

LEMMA FilesStaySound == FilesInv /\ [F!Next]_F!fvars => FilesInv'
<1> SUFFICES ASSUME FilesInv, [F!Next]_F!fvars PROVE FilesInv'
  OBVIOUS
<1>1. ASSUME NEW m \in moving, F!Abandon(m) PROVE FilesInv'
  <2>1. naming' \in [F!Owner -> F!Naming] /\ moving' \subseteq moving
    BY <1>1, NotNamingIsNaming DEF F!Abandon, F!Stop, FilesInv, F!TypeOK
  <2> QED BY <1>1, <2>1, StopIsSound DEF F!Abandon
<1>2. CASE F!Crash
  BY <1>2, NotNamingIsNaming, StopIsSound DEF F!Crash
<1>3. CASE UNCHANGED F!fvars
  BY <1>3, StopIsSound DEF F!fvars, FilesInv, F!TypeOK
<1>4. ASSUME NEW c \in Case, F!NameImages(c) PROVE FilesInv'
  BY <1>4, NameImagesIsSound
<1>5. ASSUME NEW cl \in Claim, F!StartAttachment(cl) \/ F!Attach(cl) PROVE FilesInv'
  BY <1>5, StartAttachmentIsSound, AttachIsSound
<1>6. ASSUME NEW m \in moving,
             F!Blur(m) \/ F!CopyFile(m) \/ F!DeleteFile(m) \/ F!UpdateImage(m)
      PROVE  FilesInv'
  BY <1>6, BlurIsSound, CopyFileIsSound, DeleteFileIsSound, UpdateImageIsSound
<1> QED BY <1>1, <1>2, <1>3, <1>4, <1>5, <1>6, UploadIsSound, CheckFilesIsSound,
           StartImageIsSound
        DEF F!Next

-----------------------------------------------------------------------------
(* Addresses *)

\* What a transaction in flight will leave preferred is its address and what it has
\* missed: the rest it has seen.
OthersAreKnown ==
  \A s \in Saver :
    saves[s] # A!NoSave =>
      A!Preferred \subseteq saves[s].others \cup saves[s].missed \cup {saves[s].id}

AddressInv == A!TypeOK /\ A!PreferredIsLatest /\ OthersAreKnown

LEMMA NoSaveIsSave == A!NoSave \in A!Save
  BY DEF A!NoSave, A!Save

\* What becomes preferred is known to every transaction that stays in flight.
LEMMA MissingIsSaves ==
  ASSUME NEW a \in Address, NEW slots \in [Saver -> A!Save]
  PROVE  /\ A!Missing(a, slots) \in [Saver -> A!Save]
         /\ \A s \in Saver :
              /\ A!Missing(a, slots)[s] = A!NoSave <=> slots[s] = A!NoSave
              /\ slots[s] # A!NoSave =>
                   /\ A!Missing(a, slots)[s].others = slots[s].others
                   /\ A!Missing(a, slots)[s].id = slots[s].id
                   /\ A!Missing(a, slots)[s].missed = slots[s].missed \cup {a}
<1>1. \A s \in Saver : slots[s] # A!NoSave =>
        /\ [slots[s] EXCEPT !.missed = @ \cup {a}] \in A!Save
        /\ [slots[s] EXCEPT !.missed = @ \cup {a}].missed = slots[s].missed \cup {a}
        /\ [slots[s] EXCEPT !.missed = @ \cup {a}].others = slots[s].others
        /\ [slots[s] EXCEPT !.missed = @ \cup {a}].id = slots[s].id
        /\ [slots[s] EXCEPT !.missed = @ \cup {a}] # A!NoSave
  BY DEF A!Save, A!NoSave
<1> QED BY <1>1, NoSaveIsSave DEF A!Missing

\* The first state.
LEMMA AddressesStartSound == A!Init => AddressInv
<1> SUFFICES ASSUME A!Init PROVE AddressInv
  OBVIOUS
<1>1. A!TypeOK
  BY NoSaveIsSave DEF A!Init, A!TypeOK, A!AddressRow
<1>2. A!Preferred = {} /\ \A s \in Saver : saves[s] = A!NoSave
  BY DEF A!Init, A!Preferred
<1> QED BY <1>1, <1>2 DEF AddressInv, A!PreferredIsLatest, OthersAreKnown

\* A step after which nothing new is preferred and no transaction has begun.
LEMMA FewerPreferred ==
  ASSUME AddressInv, A!TypeOK', A!Preferred' \subseteq A!Preferred, latest' = latest,
         \A s \in Saver : saves'[s] = saves[s] \/ saves'[s] = A!NoSave
  PROVE  AddressInv'
<1>1. A!PreferredIsLatest'
  BY DEF AddressInv, A!PreferredIsLatest
<1>2. OthersAreKnown'
  BY DEF AddressInv, OthersAreKnown, A!NoSave
<1> QED BY <1>1, <1>2 DEF AddressInv

LEMMA SavePlainIsSound ==
  ASSUME AddressInv, NEW a \in Address, NEW preferred \in BOOLEAN, A!SavePlain(a, preferred)
  PROVE  AddressInv'
<1>1. A!TypeOK'
  BY DEF AddressInv, A!TypeOK, A!SavePlain, A!AddressRow
<1>2. A!Preferred' \subseteq A!Preferred
  BY DEF AddressInv, A!TypeOK, A!SavePlain, A!AddressRow, A!Preferred
<1> QED BY <1>1, <1>2, FewerPreferred DEF A!SavePlain

LEMMA DeleteIsSound ==
  ASSUME AddressInv, NEW a \in Address, NEW purge \in BOOLEAN, A!Delete(a, purge)
  PROVE  AddressInv'
<1>1. A!TypeOK'
  BY DEF AddressInv, A!TypeOK, A!Delete, A!AddressRow
<1>2. A!Preferred' \subseteq A!Preferred
  BY DEF AddressInv, A!TypeOK, A!Delete, A!AddressRow, A!Preferred
<1> QED BY <1>1, <1>2, FewerPreferred DEF A!Delete

LEMMA RollbackIsSound ==
  ASSUME AddressInv, NEW s \in Saver, A!Rollback(s)
  PROVE  AddressInv'
<1>1. A!TypeOK'
  BY NoSaveIsSave DEF AddressInv, A!TypeOK, A!Rollback
<1>2. A!Preferred' = A!Preferred
  BY DEF A!Rollback, A!Preferred
<1>3. \A t \in Saver : saves'[t] = saves[t] \/ saves'[t] = A!NoSave
  BY DEF AddressInv, A!TypeOK, A!Rollback
<1> QED BY <1>1, <1>2, <1>3, FewerPreferred DEF A!Rollback

LEMMA StartSaveIsSound ==
  ASSUME AddressInv, NEW s \in Saver, NEW a \in Address, A!StartSave(s, a)
  PROVE  AddressInv'
<1> DEFINE slot == [id |-> a, create |-> addresses[a].row = "none", missed |-> {},
                    others |-> A!Preferred \ {a}]
<1>1. slot \in A!Save
  BY DEF A!Save, A!Preferred
<1>2. saves' = [saves EXCEPT ![s] = slot] /\ UNCHANGED <<addresses, latest>>
  BY DEF A!StartSave
<1> HIDE DEF slot
<1>3. A!TypeOK'
  BY <1>1, <1>2 DEF AddressInv, A!TypeOK
<1>4. A!Preferred' = A!Preferred
  BY <1>2 DEF A!Preferred
<1>5. A!Preferred \subseteq slot.others \cup slot.missed \cup {slot.id}
  BY DEF slot
<1>6. OthersAreKnown'
  BY <1>2, <1>4, <1>5 DEF AddressInv, A!TypeOK, OthersAreKnown, A!NoSave
<1> QED BY <1>2, <1>3, <1>4, <1>6 DEF AddressInv, A!PreferredIsLatest

LEMMA CommitSaveIsSound ==
  ASSUME AddressInv, NEW s \in Saver, A!CommitSave(s)
  PROVE  AddressInv'
<1> DEFINE a == saves[s].id
           slots == [saves EXCEPT ![s] = A!NoSave]
<1>1. saves[s] \in A!Save /\ a \in Address
  BY DEF AddressInv, A!TypeOK, A!CommitSave, A!Save
<1>2. slots \in [Saver -> A!Save]
  BY NoSaveIsSave DEF AddressInv, A!TypeOK
<1>3. saves' = A!Missing(a, slots) /\ latest' = {a} \cup saves[s].missed
  BY DEF A!CommitSave
<1>4. saves' \in [Saver -> A!Save]
  BY <1>1, <1>2, <1>3, MissingIsSaves
<1>5. A!TypeOK'
  BY <1>1, <1>3, <1>4 DEF AddressInv, A!TypeOK, A!CommitSave, A!AddressRow, A!Save
<1>6. A!Preferred' \subseteq {a} \cup (A!Preferred \ saves[s].others)
  BY <1>1 DEF AddressInv, A!TypeOK, A!CommitSave, A!AddressRow, A!Preferred
<1>7. saves[s] # A!NoSave
  BY DEF A!CommitSave, A!NoSave
<1>8. A!PreferredIsLatest'
  BY <1>3, <1>6, <1>7 DEF AddressInv, OthersAreKnown, A!PreferredIsLatest
<1>9. OthersAreKnown'
  <2> SUFFICES ASSUME NEW t \in Saver, saves'[t] # A!NoSave
               PROVE  A!Preferred' \subseteq saves'[t].others \cup saves'[t].missed \cup {saves'[t].id}
    BY DEF OthersAreKnown, A!NoSave
  <2>1. slots[t] # A!NoSave
    BY <1>1, <1>2, <1>3, MissingIsSaves
  <2>2. t # s /\ slots[t] = saves[t]
    BY <2>1 DEF AddressInv, A!TypeOK
  <2>3. /\ saves'[t].others = saves[t].others /\ saves'[t].id = saves[t].id
        /\ saves'[t].missed = saves[t].missed \cup {a}
    BY <1>1, <1>2, <1>3, <2>1, <2>2, MissingIsSaves
  <2>4. A!Preferred \subseteq saves[t].others \cup saves[t].missed \cup {saves[t].id}
    BY <2>1, <2>2 DEF AddressInv, OthersAreKnown
  <2> QED BY <1>6, <2>3, <2>4
<1> QED BY <1>5, <1>8, <1>9 DEF AddressInv

LEMMA RestoreIsSound ==
  ASSUME AddressInv, NEW a \in Address, A!Restore(a)
  PROVE  AddressInv'
<1>1. A!Preferred' \subseteq A!Preferred \cup (IF addresses[a].preferred THEN {a} ELSE {})
  BY DEF AddressInv, A!TypeOK, A!Restore, A!AddressRow, A!Preferred
<1>2. addresses' \in [Address -> A!AddressRow]
  BY DEF AddressInv, A!TypeOK, A!Restore, A!AddressRow
<1>3. CASE ~addresses[a].preferred
  <2>1. A!TypeOK' /\ UNCHANGED <<saves, latest>>
    BY <1>2, <1>3 DEF AddressInv, A!TypeOK, A!Restore
  <2> QED BY <1>1, <1>3, <2>1, FewerPreferred
<1>4. CASE addresses[a].preferred
  <2>1. latest' = latest \cup {a} /\ saves' = A!Missing(a, saves)
    BY <1>4 DEF A!Restore
  <2>2. A!TypeOK'
    BY <1>2, <2>1, MissingIsSaves DEF AddressInv, A!TypeOK
  <2>3. A!PreferredIsLatest'
    BY <1>1, <2>1 DEF AddressInv, A!PreferredIsLatest
  <2>4. OthersAreKnown'
    <3> SUFFICES ASSUME NEW t \in Saver, saves'[t] # A!NoSave
                 PROVE  A!Preferred' \subseteq saves'[t].others \cup saves'[t].missed \cup {saves'[t].id}
      BY DEF OthersAreKnown, A!NoSave
    <3>1. /\ saves[t] # A!NoSave
          /\ saves'[t].others = saves[t].others /\ saves'[t].id = saves[t].id
          /\ saves'[t].missed = saves[t].missed \cup {a}
      BY <2>1, MissingIsSaves DEF AddressInv, A!TypeOK
    <3> QED BY <1>1, <3>1 DEF AddressInv, OthersAreKnown
  <2> QED BY <2>2, <2>3, <2>4 DEF AddressInv
<1> QED BY <1>3, <1>4

LEMMA AddressesStaySound == AddressInv /\ [A!Next]_A!avars => AddressInv'
<1> SUFFICES ASSUME AddressInv, [A!Next]_A!avars PROVE AddressInv'
  OBVIOUS
<1>1. ASSUME NEW a \in Address, NEW answer \in BOOLEAN, A!SavePlain(a, answer) PROVE AddressInv'
  BY <1>1, SavePlainIsSound
<1>2. ASSUME NEW a \in Address, NEW answer \in BOOLEAN, A!Delete(a, answer) PROVE AddressInv'
  BY <1>2, DeleteIsSound
<1>3. ASSUME NEW a \in Address, A!Restore(a) PROVE AddressInv'
  BY <1>3, RestoreIsSound
<1>4. ASSUME NEW s \in Saver, A!CommitSave(s) PROVE AddressInv'
  BY <1>4, CommitSaveIsSound
<1>5. ASSUME NEW s \in Saver, A!Rollback(s) PROVE AddressInv'
  BY <1>5, RollbackIsSound
<1>6. ASSUME NEW s \in Saver, NEW a \in Address, A!StartSave(s, a) PROVE AddressInv'
  BY <1>6, StartSaveIsSound
<1>7. CASE UNCHANGED A!avars
  BY <1>7 DEF A!avars, AddressInv, A!TypeOK, A!PreferredIsLatest, OthersAreKnown,
     A!Preferred, A!NoSave
<1> QED BY <1>1, <1>2, <1>3, <1>4, <1>5, <1>6, <1>7 DEF A!Next

-----------------------------------------------------------------------------
(* The four of them, one of which a behaviour is of *)

allVars == <<tvars, settings, fileVars, addressVars, mode, outdated, overlapped>>

LEMMA AllStartSound == MCInit => IInv /\ SettingsInv /\ FilesInv /\ AddressInv
  BY InitInv, SettingsStartSound, FilesStartSound, AddressesStartSound DEF MCInit

LEMMA TemplatesStay == IInv /\ [MCNext]_allVars => IInv' /\ [HistoryStep]_tvars
<1>1. [MCNext]_allVars => [Next]_tvars
  BY DEF MCNext, allVars
<1> QED BY <1>1, StepInv, StepHistory

LEMMA SettingsStay == SettingsInv /\ [MCNext]_allVars => SettingsInv'
<1> SUFFICES ASSUME SettingsInv, [MCNext]_allVars PROVE SettingsInv'
  OBVIOUS
<1>1. CASE SystemStep
  BY <1>1, SystemStepIsSound
<1>2. CASE S!OwnNext /\ Elsewhere
  BY <1>2, OwnStaysText, ElsewhereIsSound DEF Elsewhere
<1>3. CASE UNCHANGED <<settings, outdated, overlapped>>
  <2>1. own \in [S!Preference -> S!Text \cup {None}]
    BY DEF SettingsInv, S!TypeOK
  <2> QED BY <1>3, <2>1, ElsewhereIsSound DEF settings
<1> QED BY <1>1, <1>2, <1>3 DEF MCNext, allVars, Elsewhere

LEMMA FilesStay == FilesInv /\ [MCNext]_allVars => FilesInv'
<1>1. [MCNext]_allVars => [F!Next]_F!fvars
  BY DEF MCNext, allVars, fileVars, F!fvars
<1> QED BY <1>1, FilesStaySound

LEMMA AddressesStay == AddressInv /\ [MCNext]_allVars => AddressInv'
<1>1. [MCNext]_allVars => [A!Next]_A!avars
  BY DEF MCNext, allVars, addressVars, A!avars
<1> QED BY <1>1, AddressesStaySound

\* What the four promises rest on, together.
THEOREM ContentInvariant == MCSpec => [](IInv /\ SettingsInv /\ FilesInv /\ AddressInv)
  BY AllStartSound, TemplatesStay, SettingsStay, FilesStay, AddressesStay, PTL
  DEF MCSpec, allVars

\* A template's history is kept whoever edits, rolls back, removes, purges or
\* restores it at the same time.
THEOREM HistoryIsKept == MCSpec => HistoryKept
<1>1. HistoryKept <=> [][HistoryStep]_tvars
  BY DEF HistoryKept, HistoryStep
<1> QED BY <1>1, AllStartSound, TemplatesStay, PTL DEF MCSpec, allVars

\* However reads, writes, removals and restarts interleave, a value in use is the one
\* that is stored, unless it was edited while it was in use or read while its key was
\* being removed.
THEOREM CacheStaysFresh == MCSpec => []CacheIsFresh
<1>1. SettingsInv => CacheIsFresh
  BY DEF SettingsInv, KeyIsFresh, CacheIsFresh
<1> QED BY <1>1, ContentInvariant, PTL

\* Wherever moves stop and however they overlap, rows that say a file was moved are
\* right, and a file only its case has named is still where it was or where it belongs.
THEOREM NothingIsLost == MCSpec => []NothingLost
<1>1. FilesInv => NothingLost
  BY DEF FilesInv
<1> QED BY <1>1, ContentInvariant, PTL

\* However saves, removals and restored addresses overlap, what is preferred is the
\* address saved as such last, one saved or restored while that was under way, or one
\* restored since.
THEOREM PreferredIsAlwaysLatest == MCSpec => []PreferredIsLatest
<1>1. AddressInv => PreferredIsLatest
  BY DEF AddressInv, PreferredIsLatest
<1> QED BY <1>1, ContentInvariant, PTL
-----------------------------------------------------------------------------
(* Roles, their copy in memory, and the checks of a request *)
RoleOps   == {"setPermissions", "create", "delete", "restore"}

\* The checks of the active station, and those of the operation's own.
GuardSteps == {"station", "assigned", "assignedGrant"}
LayerSteps == {"type", "ceiling", "bypass", "grant"}
WorkSteps  == GuardSteps \cup LayerSteps \cup {"allowed"}

Editing(r) == tasks[r].op \in RoleOps

\* What the fields of a request under way are.
SlotShape(q) ==
  /\ q.op = "none" => q = R!Idle
  /\ q.op \in RoleOps => q.step \in {"store", "sync"} /\ q.slug \in Slug
  /\ q.op = "setPermissions" => q.id \in Role \ {Admin}
  /\ q.step = "store" => q.op \in {"setPermissions", "delete"} /\ q.id \in Role \ {Admin}
  /\ q.op = "delete" => q.perms = {}
  /\ q.step = "sync" => q.op \in RoleOps
  /\ q.op = "grant" => q.step = "upsert" /\ q.user \in User /\ q.station \in Station
                       /\ q.type \in Type
  /\ q.op = "work" => /\ q.step \in WorkSteps
                      /\ q.user \in User /\ q.station \in Station \cup {Nobody}
                      /\ q.type \in Type
                      /\ q.step \in GuardSteps => q.at \in Station
                      /\ q.step \in LayerSteps => q.station \in Station

\* Who is under way in each of the situations.
Shape ==
  /\ \A r \in Slot : SlotShape(tasks[r])
  /\ situation = "roles" => \A r \in Slot : tasks[r].op \in RoleOps \cup {"none"}
  /\ situation = "work" =>
       /\ tasks[worker].op \in {"none", "work"}
       /\ \A r \in Slot \ {worker, editor} : tasks[r].op = "none"
       /\ tasks[editor].op \in {"none", "setPermissions", "grant"}
       /\ \A id \in Role : roles[id].row # "voided"

\* What is installed stays, and names are unique.
Installed ==
  /\ roles[Admin].row = "kept" /\ roles[Admin].perms = BuiltIn
  /\ \A p \in BuiltIn : catalog[p].resource = "kept" /\ catalog[p].action = "kept"
  /\ \A i, j \in Role :
       roles[i].row # "none" /\ roles[j].row # "none" /\ roles[i].slug = roles[j].slug
         => i = j

\* Rows are not removed, so an edit that has yet to write finds the one it is of.
RowsAreThere ==
  \A r \in Slot : tasks[r].step = "store" => roles[tasks[r].id].row # "none"

-----------------------------------------------------------------------------
\* What is assumed of the constants.
LEMMA AccessConstants ==
  /\ Admin \in Role /\ ManageOps \in BuiltIn /\ ManageScope \in BuiltIn
  /\ BuiltIn \subseteq Permission /\ worker \in Slot /\ editor \in Slot /\ worker # editor
  /\ FirstSlug \in [Role -> Slug] /\ Nobody \notin Station
  /\ Given \subseteq Slug /\ AtFirst \subseteq Slug /\ Adjusted \subseteq Role \ {Admin}
  BY AccessAssumption DEF R!ConstantsOK

\* A slot in which nothing is under way.
LEMMA IdleRequest ==
  /\ R!Idle \in R!Request /\ SlotShape(R!Idle) /\ R!Idle.op = "none"
  /\ R!Idle.step = "idle"
  BY DEF R!Idle, R!Request, SlotShape, RoleOps

\* The slots that a role's edit begins with.
Edit(op, step, id, slug, perms) ==
  [R!Idle EXCEPT !.op = op, !.step = step, !.id = id, !.slug = slug, !.perms = perms]

\* Fields that an edit does not set are those of a slot in which nothing is under way.
LEMMA EditIs ==
  \A op, step, id, slug, perms :
    Edit(op, step, id, slug, perms) =
      [op |-> op, step |-> step, id |-> id, slug |-> slug, perms |-> perms,
       user |-> Nobody, at |-> Nobody, station |-> Nobody, type |-> Nobody]
<1> TAKE op, step, id, slug, perms
<1> DEFINE i == R!Idle
<1>1. i = [op |-> "none", step |-> "idle", id |-> Nobody, slug |-> Nobody, perms |-> {},
           user |-> Nobody, at |-> Nobody, station |-> Nobody, type |-> Nobody]
  BY DEF R!Idle
<1> HIDE DEF i
<1>2. Edit(op, step, id, slug, perms) =
        [i EXCEPT !.op = op, !.step = step, !.id = id, !.slug = slug, !.perms = perms]
  BY DEF Edit, i
<1> QED BY <1>1, <1>2

\* An edit of a role takes a slot with the fields it sets.
LEMMA EditShape ==
  \A op \in RoleOps, step \in {"store", "sync"}, id \in Role \cup {Nobody}, slug \in Slug,
     perms \in SUBSET Permission :
    /\ Edit(op, step, id, slug, perms) \in R!Request
    /\ Edit(op, step, id, slug, perms).op = op /\ Edit(op, step, id, slug, perms).step = step
    /\ Edit(op, step, id, slug, perms).id = id
    /\ Edit(op, step, id, slug, perms).slug = slug
    /\ Edit(op, step, id, slug, perms).perms = perms
<1> TAKE op \in RoleOps, step \in {"store", "sync"}, id \in Role \cup {Nobody}, slug \in Slug,
         perms \in SUBSET Permission
<1>1. Edit(op, step, id, slug, perms) =
        [op |-> op, step |-> step, id |-> id, slug |-> slug, perms |-> perms,
         user |-> Nobody, at |-> Nobody, station |-> Nobody, type |-> Nobody]
  BY EditIs
<1>2. Edit(op, step, id, slug, perms) \in R!Request
  <2>1. /\ op \in {"none", "setPermissions", "create", "delete", "restore", "grant", "work"}
        /\ step \in {"idle", "store", "sync", "upsert", "station", "assigned",
                     "assignedGrant", "type", "ceiling", "bypass", "grant", "allowed"}
        /\ slug \in Slug \cup {Nobody}
    BY DEF RoleOps
  <2> QED BY <1>1, <2>1 DEF R!Request
<1>3. /\ Edit(op, step, id, slug, perms).op = op /\ Edit(op, step, id, slug, perms).step = step
      /\ Edit(op, step, id, slug, perms).id = id
      /\ Edit(op, step, id, slug, perms).slug = slug
      /\ Edit(op, step, id, slug, perms).perms = perms
  BY <1>1
<1> QED BY <1>2, <1>3

\* Only the slot that is written changes.
LEMMA SlotsWritten ==
  ASSUME R!TypeOK, NEW r \in Slot, NEW q \in R!Request, tasks' = [tasks EXCEPT ![r] = q]
  PROVE  /\ tasks' \in [Slot -> R!Request] /\ tasks'[r] = q
         /\ \A s \in Slot \ {r} : tasks'[s] = tasks[s]
  BY DEF R!TypeOK

\* An edit of a resource or an action leaves what is installed.
LEMMA CatalogSound ==
  ASSUME R!TypeOK, Installed, NEW p \in Permission,
         \/ R!CreateResource(p) \/ R!DeleteResource(p) \/ R!RestoreResource(p)
         \/ R!CreateAction(p) \/ R!DeleteAction(p) \/ R!RestoreAction(p) \/ R!Rename(p)
  PROVE  /\ UNCHANGED <<roles, live, role, stations, types, ceilings, grants, session, tasks>>
         /\ catalog' \in [Permission -> R!CatalogEntry]
         /\ \A q \in BuiltIn : catalog'[q].resource = "kept" /\ catalog'[q].action = "kept"
<1>0. catalog \in [Permission -> R!CatalogEntry] /\ catalog[p] \in R!CatalogEntry
  BY DEF R!TypeOK
<1>1. ASSUME NEW entry \in R!CatalogEntry, R!Catalog(p, entry),
             p \in BuiltIn => entry.resource = "kept" /\ entry.action = "kept"
      PROVE  /\ UNCHANGED <<roles, live, role, stations, types, ceilings, grants, session,
                           tasks>>
             /\ catalog' \in [Permission -> R!CatalogEntry]
             /\ \A q \in BuiltIn : catalog'[q].resource = "kept" /\ catalog'[q].action = "kept"
  BY <1>0, <1>1, AccessConstants DEF R!Catalog, R!UnchangedByRoles, R!org, Installed
<1>2. CASE R!CreateResource(p)
  <2>1. [catalog[p] EXCEPT !.resource = "kept"] \in R!CatalogEntry
    BY <1>0 DEF R!CatalogEntry, R!Row
  <2> QED BY <1>0, <1>1, <1>2, <2>1 DEF R!CreateResource, Installed, R!CatalogEntry
<1>3. CASE R!DeleteResource(p)
  <2>1. [catalog[p] EXCEPT !.resource = "voided"] \in R!CatalogEntry
    BY <1>0 DEF R!CatalogEntry, R!Row
  <2> QED BY <1>0, <1>1, <1>3, <2>1 DEF R!DeleteResource
<1>4. CASE R!RestoreResource(p)
  <2>1. [catalog[p] EXCEPT !.resource = "kept"] \in R!CatalogEntry
    BY <1>0 DEF R!CatalogEntry, R!Row
  <2> QED BY <1>0, <1>1, <1>4, <2>1 DEF R!RestoreResource, Installed, R!CatalogEntry
<1>5. CASE R!CreateAction(p) \/ R!RestoreAction(p)
  <2>1. [catalog[p] EXCEPT !.action = "kept"] \in R!CatalogEntry
    BY <1>0 DEF R!CatalogEntry, R!Row
  <2> QED BY <1>0, <1>1, <1>5, <2>1
          DEF R!CreateAction, R!RestoreAction, Installed, R!CatalogEntry
<1>6. CASE R!DeleteAction(p)
  <2>1. [catalog[p] EXCEPT !.action = "voided"] \in R!CatalogEntry
    BY <1>0 DEF R!CatalogEntry, R!Row
  <2> QED BY <1>0, <1>1, <1>6, <2>1 DEF R!DeleteAction
<1>7. CASE R!Rename(p)
  <2>1. [catalog[p] EXCEPT !.named = ~catalog[p].named] \in R!CatalogEntry
    BY <1>0 DEF R!CatalogEntry
  <2>2. R!Catalog(p, [catalog[p] EXCEPT !.named = ~catalog[p].named])
    BY <1>0, <1>7 DEF R!Rename, R!CatalogEntry
  <2> QED BY <1>0, <1>1, <2>1, <2>2 DEF Installed, R!CatalogEntry
<1> QED BY <1>2, <1>3, <1>4, <1>5, <1>6, <1>7

-----------------------------------------------------------------------------
(* Roles and their copy in memory *)

AdminSlug == FirstSlug[Admin]

NamedIn(entries, perms) == {p \in perms : entries[p].named}

Keeps(table, slug) == {id \in Role : table[id].row = "kept" /\ table[id].slug = slug}

\* What the rows give the users of a role other than the administrators'.
Effective(entries, table, slug) ==
  UNION {NamedIn(entries, table[id].perms) : id \in Keeps(table, slug)}

\* An edit that has yet to write is of a row with its slug, and one that has written
\* brings what the row now says.
SlotSound(r) ==
  /\ tasks[r].step = "store" =>
       /\ roles[tasks[r].id].slug = tasks[r].slug /\ roles[tasks[r].id].row # "none"
       /\ tasks[r].op = "setPermissions" => roles[tasks[r].id].row = "kept"
  /\ tasks[r].step = "sync" =>
       IF tasks[r].slug = AdminSlug THEN NamedIn(catalog, BuiltIn) \subseteq tasks[r].perms
       ELSE tasks[r].perms = Effective(catalog, roles, tasks[r].slug)

\* The memory has yet to be told.
Behind(slug) == \E r \in Slot : tasks[r].step = "sync" /\ tasks[r].slug = slug

Effect ==
  /\ \A q, r \in Slot : Editing(q) /\ Editing(r) => q = r
  /\ \A r \in Slot : SlotSound(r)
  /\ NamedIn(catalog, BuiltIn) \subseteq live[AdminSlug]
  /\ \A slug \in Slug \ {AdminSlug} :
       live[slug] = Effective(catalog, roles, slug) \/ Behind(slug)

\* As long as nothing overlaps and no name changes, the memory is what the rows say but
\* for the one role being edited.
InEffect == ~tainted /\ roles[Admin].slug = AdminSlug => Effect

\* What the rows give when one row has the slug, when none has, and when neither rows
\* nor names have changed.
LEMMA EffectiveOne ==
  ASSUME NEW entries, NEW table, NEW slug, NEW id \in Role, Keeps(table, slug) = {id}
  PROVE  Effective(entries, table, slug) = NamedIn(entries, table[id].perms)
  BY DEF Effective

LEMMA EffectiveNone ==
  ASSUME NEW entries, NEW table, NEW slug, Keeps(table, slug) = {}
  PROVE  Effective(entries, table, slug) = {}
  BY DEF Effective

LEMMA EffectiveSame ==
  ASSUME NEW slug, Keeps(roles', slug) = Keeps(roles, slug), R!TypeOK,
         \A id \in Keeps(roles, slug) : roles'[id].perms = roles[id].perms,
         \A p \in Permission : catalog'[p].named = catalog[p].named
  PROVE  Effective(catalog', roles', slug) = Effective(catalog, roles, slug)
<1>1. ASSUME NEW id \in Keeps(roles, slug)
      PROVE  NamedIn(catalog', roles'[id].perms) = NamedIn(catalog, roles[id].perms)
  <2>1. roles[id].perms \subseteq Permission BY DEF R!TypeOK, R!RoleRow, Keeps
  <2> QED BY <2>1 DEF NamedIn
<1> QED BY <1>1 DEF Effective

OnlySlot(r) == \A q \in Slot \ {r} : tasks'[q] = tasks[q]
NoOther(r)  == \A q \in Slot \ {r} : ~Editing(q)

SameNames ==
  /\ \A p \in Permission : catalog'[p].named = catalog[p].named
  /\ \A id \in Role : roles'[id].slug = roles[id].slug

\* What is left to show of an edit in slot r.
LEMMA EffectStep ==
  ASSUME Shape, Effect, NEW r \in Slot, NoOther(r), OnlySlot(r), SlotSound(r)',
         NamedIn(catalog', BuiltIn) \subseteq live'[AdminSlug],
         \A slug \in Slug \ {AdminSlug} :
           live'[slug] = Effective(catalog', roles', slug) \/ Behind(slug)'
  PROVE  Effect'
<1>1. \A q \in Slot \ {r} : ~Editing(q)' /\ tasks'[q].step \notin {"store", "sync"}
  BY DEF NoOther, OnlySlot, Editing, Shape, SlotShape, RoleOps
<1>2. \A q \in Slot : SlotSound(q)'
  <2>1. \A q \in Slot \ {r} : SlotSound(q)' BY <1>1 DEF SlotSound
  <2> QED BY <2>1
<1> QED BY <1>1, <1>2 DEF Effect, AdminSlug

\* While nothing waits to be told the memory is what the rows say.
LEMMA Rested ==
  ASSUME Shape, Effect, NEW r \in Slot, NoOther(r), tasks[r].step # "sync"
  PROVE  \A slug \in Slug \ {AdminSlug} : live[slug] = Effective(catalog, roles, slug)
<1>1. \A q \in Slot : tasks[q].step # "sync"
  BY DEF NoOther, Editing, Shape, SlotShape
<1> QED BY <1>1 DEF Effect, Behind

\* What each edit of a role does to rows, memory and slots: setting permissions,
LEMMA StartSetPermissionsStep ==
  ASSUME R!TypeOK, Shape, NEW r \in Slot, NEW id \in Role \ {Admin},
         NEW wanted \in SUBSET Permission, R!StartSetPermissions(r, id, wanted)
  PROVE  /\ UNCHANGED <<catalog, roles, live, role, stations, types, ceilings, grants, session>>
         /\ tasks' \in [Slot -> R!Request] /\ SlotShape(tasks'[r])
         /\ OnlySlot(r) /\ tasks[r] = R!Idle /\ tasks'[r].op = "setPermissions"
         /\ tasks'[r].step = "store" /\ tasks'[r].id = id /\ tasks'[r].slug = roles[id].slug
         /\ roles[id].row # "none"
<1>1. roles[id].slug \in Slug BY DEF R!TypeOK, R!RoleRow
<1> PICK slug \in Slug : slug = roles[id].slug BY <1>1
<1>2. tasks' = [tasks EXCEPT ![r] = Edit("setPermissions", "store", id, slug, wanted)]
  BY DEF R!StartSetPermissions, R!Begin, Edit
<1>3. /\ Edit("setPermissions", "store", id, slug, wanted) \in R!Request
      /\ Edit("setPermissions", "store", id, slug, wanted).op = "setPermissions"
      /\ Edit("setPermissions", "store", id, slug, wanted).step = "store"
      /\ Edit("setPermissions", "store", id, slug, wanted).id = id
      /\ Edit("setPermissions", "store", id, slug, wanted).slug = slug
  BY EditShape DEF RoleOps
<1>4. /\ tasks' \in [Slot -> R!Request] /\ OnlySlot(r)
      /\ tasks'[r] = Edit("setPermissions", "store", id, slug, wanted)
  BY <1>2, <1>3, SlotsWritten DEF OnlySlot
<1>5. SlotShape(tasks'[r]) BY <1>3, <1>4 DEF SlotShape, RoleOps
<1> QED BY <1>3, <1>4, <1>5
        DEF R!StartSetPermissions, R!Begin, R!UnchangedByRoles, R!org, R!stored

LEMMA SetPermissionsStep ==
  ASSUME R!TypeOK, Shape, NEW r \in Slot, R!SetPermissions(r)
  PROVE  /\ UNCHANGED <<catalog, live, role, stations, types, ceilings, grants, session>>
         /\ tasks' \in [Slot -> R!Request] /\ SlotShape(tasks'[r])
         /\ roles' \in [Role -> R!RoleRow]
         /\ OnlySlot(r) /\ tasks[r].op = "setPermissions" /\ tasks[r].step = "store"
         /\ tasks[r].id \in Role \ {Admin} /\ tasks'[r].op = "setPermissions"
         /\ tasks'[r].step = "sync" /\ tasks'[r].slug = tasks[r].slug
         /\ tasks'[r].perms = NamedIn(catalog, tasks[r].perms)
         /\ \A id \in Role : roles'[id].row = roles[id].row /\ roles'[id].slug = roles[id].slug
         /\ \A id \in Role \ {tasks[r].id} : roles'[id] = roles[id]
         /\ roles'[tasks[r].id].perms = tasks[r].perms
<1>1. /\ tasks[r] \in R!Request /\ tasks[r].op = "setPermissions" /\ tasks[r].step = "store"
      /\ tasks[r].id \in Role \ {Admin} /\ tasks[r].slug \in Slug
  BY DEF R!TypeOK, R!SetPermissions, R!At, Shape, SlotShape, RoleOps
<1>2. tasks[r].perms \in SUBSET Permission BY <1>1 DEF R!Request
<1> PICK id \in Role \ {Admin}, perms \in SUBSET Permission, q \in R!Request :
      id = tasks[r].id /\ perms = tasks[r].perms /\ q = tasks[r]
  BY <1>1, <1>2
<1>3. roles' = [roles EXCEPT ![id].perms = perms]
  BY DEF R!SetPermissions
<1>4. /\ roles' \in [Role -> R!RoleRow] /\ roles'[id].perms = perms
      /\ \A i \in Role : roles'[i].row = roles[i].row /\ roles'[i].slug = roles[i].slug
      /\ \A i \in Role \ {id} : roles'[i] = roles[i]
  <2> DEFINE m == [roles[id] EXCEPT !.perms = perms]
  <2>1. roles[id] \in R!RoleRow BY DEF R!TypeOK
  <2>2. m \in R!RoleRow /\ m.perms = perms /\ m.row = roles[id].row /\ m.slug = roles[id].slug
    BY <2>1 DEF R!RoleRow
  <2>3. roles' = [roles EXCEPT ![id] = m] BY <1>3
  <2> HIDE DEF m
  <2> QED BY <2>2, <2>3 DEF R!TypeOK
<1> DEFINE n == [q EXCEPT !.step = "sync", !.perms = NamedIn(catalog, perms)]
<1>5. NamedIn(catalog, perms) \in SUBSET Permission BY DEF NamedIn
<1>6. /\ n \in R!Request /\ n.step = "sync" /\ n.perms = NamedIn(catalog, perms)
      /\ n.op = q.op /\ n.id = q.id /\ n.slug = q.slug
  BY <1>5 DEF R!Request
<1>7. tasks' = [tasks EXCEPT ![r] = n]
  BY DEF R!SetPermissions, R!TypeOK, R!Request, R!Named, NamedIn
<1> HIDE DEF n
<1>8. tasks' \in [Slot -> R!Request] /\ OnlySlot(r) /\ tasks'[r] = n
  BY <1>6, <1>7, SlotsWritten DEF OnlySlot
<1>9. SlotShape(tasks'[r]) BY <1>1, <1>6, <1>8 DEF SlotShape, RoleOps
<1> QED BY <1>1, <1>4, <1>6, <1>8, <1>9
        DEF R!SetPermissions, R!UnchangedByRoles, R!org

\* telling the memory,
LEMMA SyncStep ==
  ASSUME R!TypeOK, Shape, NEW r \in Slot, R!SyncRoleToMemory(r)
  PROVE  /\ UNCHANGED <<catalog, roles, role, stations, types, ceilings, grants, session>>
         /\ tasks' \in [Slot -> R!Request] /\ tasks'[r] = R!Idle
         /\ live' \in [Slug -> SUBSET Permission]
         /\ OnlySlot(r) /\ tasks[r].step = "sync" /\ Editing(r) /\ tasks[r].slug \in Slug
         /\ live'[tasks[r].slug] = tasks[r].perms
         /\ \A slug \in Slug \ {tasks[r].slug} : live'[slug] = live[slug]
<1>1. tasks[r] \in R!Request /\ tasks[r].step = "sync" /\ tasks[r].slug \in Slug /\ Editing(r)
  BY DEF R!TypeOK, R!SyncRoleToMemory, Shape, SlotShape, Editing
<1>2. tasks[r].perms \in SUBSET Permission BY <1>1 DEF R!Request
<1>3. /\ live' = [live EXCEPT ![tasks[r].slug] = tasks[r].perms]
      /\ tasks' = [tasks EXCEPT ![r] = R!Idle]
  BY DEF R!SyncRoleToMemory, R!Done
<1>4. tasks' \in [Slot -> R!Request] /\ OnlySlot(r) /\ tasks'[r] = R!Idle
  BY <1>3, IdleRequest, SlotsWritten DEF OnlySlot
<1>5. /\ live' \in [Slug -> SUBSET Permission] /\ live'[tasks[r].slug] = tasks[r].perms
      /\ \A slug \in Slug \ {tasks[r].slug} : live'[slug] = live[slug]
  BY <1>1, <1>2, <1>3 DEF R!TypeOK
<1> QED BY <1>1, <1>4, <1>5
        DEF R!SyncRoleToMemory, R!UnchangedByRoles, R!org, R!stored

\* creating,
LEMMA CreateRoleStep ==
  ASSUME R!TypeOK, Shape, NEW r \in Slot, NEW id \in Role, NEW slug \in Slug,
         R!CreateRole(r, id, slug)
  PROVE  /\ UNCHANGED <<catalog, live, role, stations, types, ceilings, grants, session>>
         /\ tasks' \in [Slot -> R!Request] /\ SlotShape(tasks'[r])
         /\ roles' \in [Role -> R!RoleRow]
         /\ OnlySlot(r) /\ tasks[r] = R!Idle /\ tasks'[r].op = "create"
         /\ tasks'[r].step = "sync" /\ tasks'[r].slug = slug /\ tasks'[r].perms = {}
         /\ roles[id].row = "none" /\ R!SlugFree(slug)
         /\ \A i \in Role \ {id} : roles'[i] = roles[i]
         /\ roles'[id] = [row |-> "kept", slug |-> slug, perms |-> {}]
<1>1. tasks' = [tasks EXCEPT ![r] = Edit("create", "sync", Nobody, slug, {})]
  <2>1. R!Idle = [R!Idle EXCEPT !.id = Nobody] BY DEF R!Idle
  <2>2. R!Idle = [R!Idle EXCEPT !.perms = {}] BY DEF R!Idle
  <2>3. R!Idle = [R!Idle EXCEPT !.id = Nobody, !.perms = {}] BY <2>1, <2>2
  <2> QED BY <2>3 DEF R!CreateRole, R!Begin, Edit, R!Idle
<1>2. /\ Edit("create", "sync", Nobody, slug, {}) \in R!Request
      /\ Edit("create", "sync", Nobody, slug, {}).op = "create"
      /\ Edit("create", "sync", Nobody, slug, {}).step = "sync"
      /\ Edit("create", "sync", Nobody, slug, {}).slug = slug
      /\ Edit("create", "sync", Nobody, slug, {}).perms = {}
  <2>1. Nobody \in Role \cup {Nobody} /\ {} \in SUBSET Permission OBVIOUS
  <2>2. "create" \in RoleOps BY DEF RoleOps
  <2> QED BY <2>1, <2>2, EditShape
<1>3. /\ tasks' \in [Slot -> R!Request] /\ OnlySlot(r)
      /\ tasks'[r] = Edit("create", "sync", Nobody, slug, {})
  BY <1>1, <1>2, SlotsWritten DEF OnlySlot
<1>4. SlotShape(tasks'[r]) BY <1>2, <1>3 DEF SlotShape, RoleOps
<1>5. roles' = [roles EXCEPT ![id] = [row |-> "kept", slug |-> slug, perms |-> {}]]
  BY DEF R!CreateRole
<1>6. [row |-> "kept", slug |-> slug, perms |-> {}] \in R!RoleRow BY DEF R!RoleRow, R!Row
<1>7. /\ roles' \in [Role -> R!RoleRow] /\ \A i \in Role \ {id} : roles'[i] = roles[i]
      /\ roles'[id] = [row |-> "kept", slug |-> slug, perms |-> {}]
  BY <1>5, <1>6 DEF R!TypeOK
<1> QED BY <1>2, <1>3, <1>4, <1>7
        DEF R!CreateRole, R!Begin, R!UnchangedByRoles, R!org

\* deleting,
LEMMA StartDeleteRoleStep ==
  ASSUME R!TypeOK, Shape, NEW r \in Slot, NEW id \in Role, R!StartDeleteRole(r, id)
  PROVE  /\ UNCHANGED <<catalog, roles, live, role, stations, types, ceilings, grants, session>>
         /\ tasks' \in [Slot -> R!Request] /\ SlotShape(tasks'[r])
         /\ OnlySlot(r) /\ tasks[r] = R!Idle /\ tasks'[r].op = "delete"
         /\ tasks'[r].step = "store" /\ tasks'[r].id = id /\ tasks'[r].slug = roles[id].slug
         /\ tasks'[r].perms = {} /\ roles[id].row # "none" /\ id # Admin
<1>1. roles[id].slug \in Slug BY DEF R!TypeOK, R!RoleRow
<1> PICK slug \in Slug : slug = roles[id].slug BY <1>1
<1>2. tasks' = [tasks EXCEPT ![r] = Edit("delete", "store", id, slug, {})]
  <2>1. R!Idle = [R!Idle EXCEPT !.perms = {}] BY DEF R!Idle
  <2> QED BY <2>1 DEF R!StartDeleteRole, R!Begin, Edit, R!Idle
<1>3. /\ Edit("delete", "store", id, slug, {}) \in R!Request
      /\ Edit("delete", "store", id, slug, {}).op = "delete"
      /\ Edit("delete", "store", id, slug, {}).step = "store"
      /\ Edit("delete", "store", id, slug, {}).id = id
      /\ Edit("delete", "store", id, slug, {}).slug = slug
      /\ Edit("delete", "store", id, slug, {}).perms = {}
  BY EditShape DEF RoleOps
<1>4. /\ tasks' \in [Slot -> R!Request] /\ OnlySlot(r)
      /\ tasks'[r] = Edit("delete", "store", id, slug, {})
  BY <1>2, <1>3, SlotsWritten DEF OnlySlot
<1>5. id # Admin BY DEF R!StartDeleteRole
<1>6. SlotShape(tasks'[r]) BY <1>3, <1>4, <1>5 DEF SlotShape, RoleOps
<1> QED BY <1>3, <1>4, <1>5, <1>6
        DEF R!StartDeleteRole, R!Begin, R!UnchangedByRoles, R!org, R!stored

LEMMA DeleteRoleStep ==
  ASSUME R!TypeOK, Shape, NEW r \in Slot, R!DeleteRole(r)
  PROVE  /\ UNCHANGED <<catalog, live, role, stations, types, ceilings, grants, session>>
         /\ tasks' \in [Slot -> R!Request] /\ SlotShape(tasks'[r])
         /\ roles' \in [Role -> R!RoleRow]
         /\ OnlySlot(r) /\ tasks[r].op = "delete" /\ tasks[r].step = "store"
         /\ tasks[r].id \in Role \ {Admin} /\ tasks'[r].op = "delete"
         /\ tasks'[r].step = "sync" /\ tasks'[r].slug = tasks[r].slug /\ tasks'[r].perms = {}
         /\ \A id \in Role : roles'[id].slug = roles[id].slug
         /\ \A id \in Role \ {tasks[r].id} : roles'[id] = roles[id]
         /\ roles'[tasks[r].id].row = "voided"
<1>1. /\ tasks[r] \in R!Request /\ tasks[r].op = "delete" /\ tasks[r].step = "store"
      /\ tasks[r].id \in Role \ {Admin} /\ tasks[r].slug \in Slug /\ tasks[r].perms = {}
  BY DEF R!TypeOK, R!DeleteRole, R!At, Shape, SlotShape, RoleOps
<1> PICK id \in Role \ {Admin}, q \in R!Request : id = tasks[r].id /\ q = tasks[r]
  BY <1>1
<1>3. roles' = [roles EXCEPT ![id].row = "voided"]
  BY DEF R!DeleteRole
<1>4. /\ roles' \in [Role -> R!RoleRow] /\ roles'[id].row = "voided"
      /\ \A i \in Role : roles'[i].slug = roles[i].slug
      /\ \A i \in Role \ {id} : roles'[i] = roles[i]
  <2> DEFINE n == [roles[id] EXCEPT !.row = "voided"]
  <2>1. roles[id] \in R!RoleRow BY DEF R!TypeOK
  <2>2. n \in R!RoleRow /\ n.row = "voided" /\ n.slug = roles[id].slug
    BY <2>1 DEF R!RoleRow, R!Row
  <2>3. roles' = [roles EXCEPT ![id] = n] BY <1>3
  <2> HIDE DEF n
  <2> QED BY <2>2, <2>3 DEF R!TypeOK
<1> DEFINE n == [q EXCEPT !.step = "sync"]
<1>6. /\ n \in R!Request /\ n.step = "sync" /\ n.perms = q.perms
      /\ n.op = q.op /\ n.id = q.id /\ n.slug = q.slug
  BY DEF R!Request
<1>7. tasks' = [tasks EXCEPT ![r] = n]
  BY DEF R!DeleteRole, R!Goto, R!TypeOK, R!Request
<1> HIDE DEF n
<1>8. tasks' \in [Slot -> R!Request] /\ OnlySlot(r) /\ tasks'[r] = n
  BY <1>6, <1>7, SlotsWritten DEF OnlySlot
<1>9. SlotShape(tasks'[r]) BY <1>1, <1>6, <1>8 DEF SlotShape, RoleOps
<1> QED BY <1>1, <1>4, <1>6, <1>8, <1>9
        DEF R!DeleteRole, R!UnchangedByRoles, R!org

\* restoring,
LEMMA RestoreRoleStep ==
  ASSUME R!TypeOK, Shape, NEW r \in Slot, NEW id \in Role, R!RestoreRole(r, id)
  PROVE  /\ UNCHANGED <<catalog, live, role, stations, types, ceilings, grants, session>>
         /\ tasks' \in [Slot -> R!Request] /\ SlotShape(tasks'[r])
         /\ roles' \in [Role -> R!RoleRow]
         /\ OnlySlot(r) /\ tasks[r] = R!Idle /\ tasks'[r].op = "restore"
         /\ tasks'[r].step = "sync" /\ tasks'[r].slug = roles[id].slug
         /\ tasks'[r].perms = NamedIn(catalog, roles[id].perms) /\ roles[id].row # "none"
         /\ \A i \in Role : /\ roles'[i].slug = roles[i].slug
                            /\ roles'[i].perms = roles[i].perms
         /\ \A i \in Role \ {id} : roles'[i] = roles[i]
         /\ roles'[id].row = "kept"
<1>1. roles[id].slug \in Slug /\ NamedIn(catalog, roles[id].perms) \in SUBSET Permission
  BY DEF R!TypeOK, R!RoleRow, NamedIn
<1> PICK slug \in Slug, perms \in SUBSET Permission :
      slug = roles[id].slug /\ perms = NamedIn(catalog, roles[id].perms)
  BY <1>1
<1>2. tasks' = [tasks EXCEPT ![r] = Edit("restore", "sync", Nobody, slug, perms)]
  <2>1. R!Idle = [R!Idle EXCEPT !.id = Nobody] BY DEF R!Idle
  <2> QED BY <2>1 DEF R!RestoreRole, R!Begin, Edit, R!Idle, R!Named, NamedIn
<1>3. /\ Edit("restore", "sync", Nobody, slug, perms) \in R!Request
      /\ Edit("restore", "sync", Nobody, slug, perms).op = "restore"
      /\ Edit("restore", "sync", Nobody, slug, perms).step = "sync"
      /\ Edit("restore", "sync", Nobody, slug, perms).slug = slug
      /\ Edit("restore", "sync", Nobody, slug, perms).perms = perms
  BY EditShape DEF RoleOps
<1>4. /\ tasks' \in [Slot -> R!Request] /\ OnlySlot(r)
      /\ tasks'[r] = Edit("restore", "sync", Nobody, slug, perms)
  BY <1>2, <1>3, SlotsWritten DEF OnlySlot
<1>5. roles' = [roles EXCEPT ![id].row = "kept"] BY DEF R!RestoreRole
<1>6. /\ roles' \in [Role -> R!RoleRow] /\ roles'[id].row = "kept"
      /\ \A i \in Role : roles'[i].slug = roles[i].slug /\ roles'[i].perms = roles[i].perms
      /\ \A i \in Role \ {id} : roles'[i] = roles[i]
  <2> DEFINE n == [roles[id] EXCEPT !.row = "kept"]
  <2>1. roles[id] \in R!RoleRow BY DEF R!TypeOK
  <2>2. /\ n \in R!RoleRow /\ n.row = "kept" /\ n.slug = roles[id].slug
        /\ n.perms = roles[id].perms
    BY <2>1 DEF R!RoleRow, R!Row
  <2>3. roles' = [roles EXCEPT ![id] = n] BY <1>5
  <2> HIDE DEF n
  <2> QED BY <2>2, <2>3 DEF R!TypeOK
<1>7. SlotShape(tasks'[r]) BY <1>3, <1>4 DEF SlotShape, RoleOps
<1> QED BY <1>3, <1>4, <1>6, <1>7
        DEF R!RestoreRole, R!Begin, R!UnchangedByRoles, R!org

\* and giving another name.
LEMMA UpdateRoleStep ==
  ASSUME R!TypeOK, NEW id \in Role, NEW slug \in Slug, R!UpdateRole(id, slug)
  PROVE  /\ UNCHANGED <<catalog, live, role, stations, types, ceilings, grants, session, tasks>>
         /\ roles' \in [Role -> R!RoleRow]
         /\ roles[id].row # "none" /\ R!SlugFree(slug)
         /\ \A i \in Role : /\ roles'[i].row = roles[i].row
                            /\ roles'[i].perms = roles[i].perms
         /\ \A i \in Role \ {id} : roles'[i] = roles[i]
         /\ roles'[id].slug = slug
<1>1. roles' = [roles EXCEPT ![id].slug = slug] BY DEF R!UpdateRole
<1>2. /\ roles' \in [Role -> R!RoleRow] /\ roles'[id].slug = slug
      /\ \A i \in Role : roles'[i].row = roles[i].row /\ roles'[i].perms = roles[i].perms
      /\ \A i \in Role \ {id} : roles'[i] = roles[i]
  <2> DEFINE n == [roles[id] EXCEPT !.slug = slug]
  <2>1. roles[id] \in R!RoleRow BY DEF R!TypeOK
  <2>2. /\ n \in R!RoleRow /\ n.slug = slug /\ n.row = roles[id].row
        /\ n.perms = roles[id].perms
    BY <2>1 DEF R!RoleRow
  <2>3. roles' = [roles EXCEPT ![id] = n] BY <1>1
  <2> HIDE DEF n
  <2> QED BY <2>2, <2>3 DEF R!TypeOK
<1> QED BY <1>2 DEF R!UpdateRole, R!UnchangedByRoles, R!org

-----------------------------------------------------------------------------
(* What each edit leaves of Effect *)

\* An edit of one row is nothing to the slugs of the others.
LEMMA OtherSlugs ==
  ASSUME R!TypeOK, SameNames, NEW id \in Role,
         \A i \in Role \ {id} : roles'[i] = roles[i]
  PROVE  \A slug \in Slug \ {roles[id].slug} :
           Effective(catalog', roles', slug) = Effective(catalog, roles, slug)
<1> TAKE slug \in Slug \ {roles[id].slug}
<1>1. Keeps(roles', slug) = Keeps(roles, slug) /\ id \notin Keeps(roles, slug)
  BY DEF Keeps, SameNames
<1>2. \A i \in Keeps(roles, slug) : roles'[i].perms = roles[i].perms BY <1>1 DEF Keeps
<1> QED BY <1>1, <1>2, EffectiveSame DEF SameNames

\* No other row has the slug of a row.
LEMMA OneKeeps ==
  ASSUME Installed, SameNames, NEW id \in Role, roles[id].row # "none",
         \A i \in Role \ {id} : roles'[i] = roles[i]
  PROVE  /\ roles'[id].row = "kept" => Keeps(roles', roles[id].slug) = {id}
         /\ roles'[id].row # "kept" => Keeps(roles', roles[id].slug) = {}
         /\ id # Admin /\ roles[Admin].slug = AdminSlug => roles[id].slug # AdminSlug
<1>1. \A i \in Role \ {id} : i \notin Keeps(roles', roles[id].slug)
  BY DEF Installed, Keeps, SameNames
<1>2. id # Admin /\ roles[Admin].slug = AdminSlug => roles[id].slug # AdminSlug
  BY AccessConstants DEF Installed
<1> QED BY <1>1, <1>2 DEF Keeps, SameNames

\* What is to be written is of a row that has its slug; what was written waits to be told.
LEMMA StartSetPermissionsEffect ==
  ASSUME R!TypeOK, Shape, Effect, NEW r \in Slot, NEW id \in Role \ {Admin},
         NEW wanted \in SUBSET Permission, R!StartSetPermissions(r, id, wanted),
         NoOther(r), roles[id].row # "voided"
  PROVE  Effect'
<1>1. /\ catalog' = catalog /\ roles' = roles /\ live' = live /\ OnlySlot(r)
      /\ tasks[r] = R!Idle /\ tasks'[r].step = "store" /\ tasks'[r].id = id
      /\ tasks'[r].slug = roles[id].slug /\ roles[id].row # "none"
  BY StartSetPermissionsStep
<1>2. tasks[r].step # "sync" BY <1>1, IdleRequest
<1>3. roles[id].row = "kept" BY <1>1 DEF R!TypeOK, R!RoleRow, R!Row
<1>4. SlotSound(r)' BY <1>1, <1>3 DEF SlotSound
<1>5. \A slug \in Slug \ {AdminSlug} : live'[slug] = Effective(catalog', roles', slug)
  BY <1>1, <1>2, Rested
<1>6. NamedIn(catalog', BuiltIn) \subseteq live'[AdminSlug] BY <1>1 DEF Effect
<1> QED BY <1>1, <1>4, <1>5, <1>6, EffectStep

LEMMA SetPermissionsEffect ==
  ASSUME R!TypeOK, Shape, Installed, Effect, NEW r \in Slot, R!SetPermissions(r),
         roles[Admin].slug = AdminSlug
  PROVE  Effect'
<1>1. /\ catalog' = catalog /\ live' = live /\ OnlySlot(r)
      /\ tasks[r].op = "setPermissions" /\ tasks[r].step = "store"
      /\ tasks[r].id \in Role \ {Admin} /\ tasks'[r].step = "sync"
      /\ tasks'[r].slug = tasks[r].slug
      /\ tasks'[r].perms = NamedIn(catalog, tasks[r].perms)
      /\ \A id \in Role : roles'[id].row = roles[id].row /\ roles'[id].slug = roles[id].slug
      /\ \A id \in Role \ {tasks[r].id} : roles'[id] = roles[id]
      /\ roles'[tasks[r].id].perms = tasks[r].perms
  BY SetPermissionsStep
<1> PICK id \in Role \ {Admin} : id = tasks[r].id BY <1>1
<1>2. SameNames BY <1>1 DEF SameNames
<1>3. NoOther(r) BY <1>1 DEF Effect, NoOther, Editing, RoleOps
<1>4. roles[id].slug = tasks[r].slug /\ roles[id].row = "kept"
  BY <1>1 DEF Effect, SlotSound
<1>5. Keeps(roles', roles[id].slug) = {id} /\ roles[id].slug # AdminSlug
  BY <1>1, <1>2, <1>4, OneKeeps
<1>6. Effective(catalog', roles', roles[id].slug) = tasks'[r].perms
  BY <1>1, <1>5, EffectiveOne
<1>7. SlotSound(r)' BY <1>1, <1>4, <1>5, <1>6 DEF SlotSound, AdminSlug
<1>8. \A slug \in Slug \ {AdminSlug} :
        live'[slug] = Effective(catalog', roles', slug) \/ Behind(slug)'
  <2>1. Behind(roles[id].slug)' BY <1>1, <1>4 DEF Behind
  <2>2. \A slug \in Slug \ {roles[id].slug} :
          Effective(catalog', roles', slug) = Effective(catalog, roles, slug)
    BY <1>1, <1>2, OtherSlugs
  <2>3. \A slug \in Slug \ {AdminSlug} : live[slug] = Effective(catalog, roles, slug)
    BY <1>1, <1>3, Rested
  <2> QED BY <1>1, <2>1, <2>2, <2>3
<1>9. NamedIn(catalog', BuiltIn) \subseteq live'[AdminSlug] BY <1>1 DEF Effect
<1> QED BY <1>1, <1>3, <1>7, <1>8, <1>9, EffectStep

\* Once it is told, the memory is what the rows say.
LEMMA SyncEffect ==
  ASSUME R!TypeOK, Shape, Effect, NEW r \in Slot, R!SyncRoleToMemory(r)
  PROVE  Effect'
<1>1. /\ catalog' = catalog /\ roles' = roles /\ tasks'[r] = R!Idle
      /\ OnlySlot(r) /\ tasks[r].step = "sync" /\ Editing(r) /\ tasks[r].slug \in Slug
      /\ live'[tasks[r].slug] = tasks[r].perms
      /\ \A slug \in Slug \ {tasks[r].slug} : live'[slug] = live[slug]
  BY SyncStep
<1>2. NoOther(r) BY <1>1 DEF Effect, NoOther
<1>3. SlotSound(r)' BY <1>1, IdleRequest DEF SlotSound
<1>4. IF tasks[r].slug = AdminSlug THEN NamedIn(catalog, BuiltIn) \subseteq tasks[r].perms
      ELSE tasks[r].perms = Effective(catalog, roles, tasks[r].slug)
  BY <1>1 DEF Effect, SlotSound
<1>5. \A slug \in Slug : Behind(slug) => slug = tasks[r].slug
  BY <1>2 DEF Behind, NoOther, Editing, Shape, SlotShape
<1>6. \A slug \in Slug \ {AdminSlug} : live'[slug] = Effective(catalog', roles', slug)
  <2> TAKE slug \in Slug \ {AdminSlug}
  <2>1. CASE slug = tasks[r].slug BY <1>1, <1>4, <2>1
  <2>2. CASE slug # tasks[r].slug BY <1>1, <1>5, <2>2 DEF Effect
  <2> QED BY <2>1, <2>2
<1>7. NamedIn(catalog', BuiltIn) \subseteq live'[AdminSlug]
  <2>1. AdminSlug \in Slug BY AccessConstants DEF AdminSlug
  <2> QED BY <1>1, <1>4, <2>1 DEF Effect
<1> QED BY <1>1, <1>2, <1>3, <1>6, <1>7, EffectStep

\* A new role gives nothing.
LEMMA CreateRoleEffect ==
  ASSUME R!TypeOK, Shape, Installed, Effect, NEW r \in Slot, NEW id \in Role,
         NEW slug \in Slug, R!CreateRole(r, id, slug), NoOther(r), SameNames,
         roles[Admin].slug = AdminSlug
  PROVE  Effect'
<1>1. /\ catalog' = catalog /\ live' = live /\ OnlySlot(r) /\ tasks[r] = R!Idle
      /\ tasks'[r].step = "sync" /\ tasks'[r].slug = slug /\ tasks'[r].perms = {}
      /\ R!SlugFree(slug)
      /\ \A i \in Role \ {id} : roles'[i] = roles[i]
      /\ roles'[id].row = "kept" /\ roles'[id].slug = slug /\ roles'[id].perms = {}
  <2>1. roles'[id] = [row |-> "kept", slug |-> slug, perms |-> {}] BY CreateRoleStep
  <2>2. roles'[id].row = "kept" /\ roles'[id].slug = slug /\ roles'[id].perms = {}
    BY <2>1
  <2> QED BY <2>2, CreateRoleStep
<1>2. roles[id].slug = slug BY <1>1 DEF SameNames
<1>3. slug # AdminSlug BY <1>1, AccessConstants DEF R!SlugFree, Installed
<1>4. Keeps(roles', slug) = {id} BY <1>1 DEF Keeps, R!SlugFree
<1>5. Effective(catalog', roles', slug) = {}
  <2>1. Effective(catalog', roles', slug) = NamedIn(catalog', roles'[id].perms)
    BY <1>4, EffectiveOne
  <2>2. roles'[id].perms = {} BY <1>1
  <2> QED BY <2>1, <2>2 DEF NamedIn
<1>6. SlotSound(r)' BY <1>1, <1>3, <1>5 DEF SlotSound, AdminSlug
<1>7. \A s \in Slug \ {AdminSlug} :
        live'[s] = Effective(catalog', roles', s) \/ Behind(s)'
  <2>1. Behind(slug)' BY <1>1 DEF Behind
  <2>2. \A s \in Slug \ {slug} :
          Effective(catalog', roles', s) = Effective(catalog, roles, s)
    BY <1>1, <1>2, OtherSlugs
  <2>3. \A s \in Slug \ {AdminSlug} : live[s] = Effective(catalog, roles, s)
    BY <1>1, IdleRequest, Rested
  <2> QED BY <1>1, <2>1, <2>2, <2>3
<1>8. NamedIn(catalog', BuiltIn) \subseteq live'[AdminSlug] BY <1>1 DEF Effect
<1> QED BY <1>1, <1>6, <1>7, <1>8, EffectStep

\* A deleted role gives nothing any more; a restored one what its row says.
LEMMA StartDeleteRoleEffect ==
  ASSUME R!TypeOK, Shape, Effect, NEW r \in Slot, NEW id \in Role,
         R!StartDeleteRole(r, id), NoOther(r)
  PROVE  Effect'
<1>1. /\ catalog' = catalog /\ roles' = roles /\ live' = live /\ OnlySlot(r)
      /\ tasks[r] = R!Idle /\ tasks'[r].step = "store" /\ tasks'[r].id = id
      /\ tasks'[r].op = "delete" /\ tasks'[r].slug = roles[id].slug
      /\ roles[id].row # "none"
  BY StartDeleteRoleStep
<1>2. SlotSound(r)' BY <1>1 DEF SlotSound
<1>3. \A slug \in Slug \ {AdminSlug} : live'[slug] = Effective(catalog', roles', slug)
  BY <1>1, IdleRequest, Rested
<1>4. NamedIn(catalog', BuiltIn) \subseteq live'[AdminSlug] BY <1>1 DEF Effect
<1> QED BY <1>1, <1>2, <1>3, <1>4, EffectStep

LEMMA DeleteRoleEffect ==
  ASSUME R!TypeOK, Shape, Installed, Effect, NEW r \in Slot, R!DeleteRole(r),
         roles[Admin].slug = AdminSlug
  PROVE  Effect'
<1>1. /\ catalog' = catalog /\ live' = live /\ OnlySlot(r)
      /\ tasks[r].op = "delete" /\ tasks[r].step = "store"
      /\ tasks[r].id \in Role \ {Admin} /\ tasks'[r].step = "sync"
      /\ tasks'[r].slug = tasks[r].slug /\ tasks'[r].perms = {}
      /\ \A id \in Role : roles'[id].slug = roles[id].slug
      /\ \A id \in Role \ {tasks[r].id} : roles'[id] = roles[id]
      /\ roles'[tasks[r].id].row = "voided"
  BY DeleteRoleStep
<1> PICK id \in Role \ {Admin} : id = tasks[r].id BY <1>1
<1>2. SameNames BY <1>1 DEF SameNames
<1>3. NoOther(r) BY <1>1 DEF Effect, NoOther, Editing, RoleOps
<1>4. roles[id].slug = tasks[r].slug /\ roles[id].row # "none"
  BY <1>1 DEF Effect, SlotSound
<1>5. Keeps(roles', roles[id].slug) = {} /\ roles[id].slug # AdminSlug
  BY <1>1, <1>2, <1>4, OneKeeps
<1>6. Effective(catalog', roles', roles[id].slug) = tasks'[r].perms
  BY <1>1, <1>5, EffectiveNone
<1>7. SlotSound(r)' BY <1>1, <1>4, <1>5, <1>6 DEF SlotSound, AdminSlug
<1>8. \A slug \in Slug \ {AdminSlug} :
        live'[slug] = Effective(catalog', roles', slug) \/ Behind(slug)'
  <2>1. Behind(roles[id].slug)' BY <1>1, <1>4 DEF Behind
  <2>2. \A slug \in Slug \ {roles[id].slug} :
          Effective(catalog', roles', slug) = Effective(catalog, roles, slug)
    BY <1>1, <1>2, OtherSlugs
  <2>3. \A slug \in Slug \ {AdminSlug} : live[slug] = Effective(catalog, roles, slug)
    BY <1>1, <1>3, Rested
  <2> QED BY <1>1, <2>1, <2>2, <2>3
<1>9. NamedIn(catalog', BuiltIn) \subseteq live'[AdminSlug] BY <1>1 DEF Effect
<1> QED BY <1>1, <1>3, <1>7, <1>8, <1>9, EffectStep

LEMMA RestoreRoleEffect ==
  ASSUME R!TypeOK, Shape, Installed, Effect, NEW r \in Slot, NEW id \in Role,
         R!RestoreRole(r, id), NoOther(r), roles[Admin].slug = AdminSlug
  PROVE  Effect'
<1>1. /\ catalog' = catalog /\ live' = live /\ OnlySlot(r) /\ tasks[r] = R!Idle
      /\ tasks'[r].step = "sync" /\ tasks'[r].slug = roles[id].slug
      /\ tasks'[r].perms = NamedIn(catalog, roles[id].perms) /\ roles[id].row # "none"
      /\ \A i \in Role : roles'[i].slug = roles[i].slug /\ roles'[i].perms = roles[i].perms
      /\ \A i \in Role \ {id} : roles'[i] = roles[i]
      /\ roles'[id].row = "kept"
  BY RestoreRoleStep
<1>2. SameNames BY <1>1 DEF SameNames
<1>3. /\ Keeps(roles', roles[id].slug) = {id}
      /\ id # Admin => roles[id].slug # AdminSlug
  BY <1>1, <1>2, OneKeeps
<1>4. Effective(catalog', roles', roles[id].slug) = tasks'[r].perms
  BY <1>1, <1>3, EffectiveOne
<1>5. id = Admin => NamedIn(catalog, BuiltIn) \subseteq tasks'[r].perms
  BY <1>1 DEF Installed
<1>6. SlotSound(r)' BY <1>1, <1>3, <1>4, <1>5 DEF SlotSound, AdminSlug
<1>7. \A slug \in Slug \ {AdminSlug} :
        live'[slug] = Effective(catalog', roles', slug) \/ Behind(slug)'
  <2>1. Behind(roles[id].slug)' BY <1>1 DEF Behind
  <2>2. \A slug \in Slug \ {roles[id].slug} :
          Effective(catalog', roles', slug) = Effective(catalog, roles, slug)
    BY <1>1, <1>2, OtherSlugs
  <2>3. \A slug \in Slug \ {AdminSlug} : live[slug] = Effective(catalog, roles, slug)
    BY <1>1, IdleRequest, Rested
  <2> QED BY <1>1, <2>1, <2>2, <2>3
<1>8. NamedIn(catalog', BuiltIn) \subseteq live'[AdminSlug] BY <1>1 DEF Effect
<1> QED BY <1>1, <1>6, <1>7, <1>8, EffectStep

\* Steps that edit no role, and keep the names.
LEMMA NoRoleEdited ==
  ASSUME R!TypeOK, Shape, Shape', Effect, SameNames, roles' = roles, live' = live,
         \A r \in Slot : tasks'[r] = tasks[r] \/ (~Editing(r) /\ ~Editing(r)')
  PROVE  Effect'
<1>1. \A perms \in SUBSET Permission : NamedIn(catalog', perms) = NamedIn(catalog, perms)
  BY DEF NamedIn, SameNames
<1>2. NamedIn(catalog', BuiltIn) = NamedIn(catalog, BuiltIn) BY <1>1, AccessConstants
<1>3. \A slug \in Slug : Effective(catalog', roles', slug) = Effective(catalog, roles, slug)
  <2> TAKE slug \in Slug
  <2>1. Keeps(roles', slug) = Keeps(roles, slug)
        /\ \A id \in Keeps(roles, slug) : roles'[id].perms = roles[id].perms
    OBVIOUS
  <2> QED BY <2>1, EffectiveSame DEF SameNames
<1>4. \A r \in Slot : tasks'[r] = tasks[r] \/
        (tasks[r].step \notin {"store", "sync"} /\ tasks'[r].step \notin {"store", "sync"})
  BY DEF Editing, Shape, SlotShape, RoleOps
<1>5. \A q, r \in Slot : Editing(q)' /\ Editing(r)' => q = r BY DEF Effect, Editing
<1>6. \A r \in Slot : SlotSound(r)'
  <2> TAKE r \in Slot
  <2>1. CASE tasks'[r].step \notin {"store", "sync"} BY <2>1 DEF SlotSound
  <2>2. CASE tasks'[r] = tasks[r] /\ tasks[r].step \in {"store", "sync"}
    <3>1. Editing(r) BY <2>2 DEF Shape, SlotShape, Editing, RoleOps
    <3>2. tasks[r].slug \in Slug BY <3>1 DEF Shape, SlotShape, Editing, RoleOps
    <3>3. SlotSound(r) BY DEF Effect
    <3> QED BY <1>2, <1>3, <2>2, <3>2, <3>3 DEF SlotSound, AdminSlug
  <2> QED BY <1>4, <2>1, <2>2
<1>7. \A slug \in Slug : Behind(slug)' = Behind(slug) BY <1>4 DEF Behind
<1>8. \A slug \in Slug \ {AdminSlug} :
        live'[slug] = Effective(catalog', roles', slug) \/ Behind(slug)'
  BY <1>3, <1>7 DEF Effect
<1>9. NamedIn(catalog', BuiltIn) \subseteq live'[AdminSlug] BY <1>2 DEF Effect
<1> QED BY <1>5, <1>6, <1>8, <1>9 DEF Effect, AdminSlug

\* What the start of the process loads has its type.
LEMMA Loads ==
  roles \in [Role -> R!RoleRow] => R!LoadForStartup \in [Slug -> SUBSET Permission]
<1> SUFFICES ASSUME roles \in [Role -> R!RoleRow]
             PROVE  R!LoadForStartup \in [Slug -> SUBSET Permission]
  OBVIOUS
<1>1. ASSUME NEW slug \in Slug PROVE R!LoadForStartup[slug] \in SUBSET Permission
  <2>1. CASE R!KeptRole(slug) = {} BY <2>1 DEF R!LoadForStartup
  <2>2. CASE R!KeptRole(slug) # {}
    <3>1. (CHOOSE i \in R!KeptRole(slug) : TRUE) \in Role BY <2>2 DEF R!KeptRole
    <3> PICK id \in Role : id = (CHOOSE i \in R!KeptRole(slug) : TRUE) BY <3>1
    <3>2. roles[id].perms \in SUBSET Permission BY DEF R!RoleRow
    <3>3. \/ R!LoadForStartup[slug] = R!Named(R!Offered)
          \/ R!LoadForStartup[slug] = R!Named(roles[id].perms)
      BY <2>2 DEF R!LoadForStartup
    <3> QED BY <3>2, <3>3 DEF R!Named, R!Offered
  <2> QED BY <2>1, <2>2
<1> QED BY <1>1 DEF R!LoadForStartup

\* The start of the process leaves the memory as the rows say.
LEMMA LoadedIsEffective ==
  ASSUME R!TypeOK, Installed, roles[Admin].slug = AdminSlug
  PROVE  /\ NamedIn(catalog, BuiltIn) \subseteq R!LoadForStartup[AdminSlug]
         /\ \A slug \in Slug \ {AdminSlug} :
              R!LoadForStartup[slug] = Effective(catalog, roles, slug)
<1>1. \A slug \in Slug : R!KeptRole(slug) = Keeps(roles, slug) BY DEF R!KeptRole, Keeps
<1>2. AdminSlug \in Slug /\ Admin \in Keeps(roles, AdminSlug)
  BY AccessConstants DEF AdminSlug, Installed, Keeps
<1>3. ASSUME NEW slug \in Slug, Keeps(roles, slug) = {}
      PROVE  R!LoadForStartup[slug] = {}
  BY <1>1, <1>3 DEF R!LoadForStartup
<1>4. R!LoadForStartup[AdminSlug] = R!Named(R!Offered)
  BY <1>1, <1>2 DEF R!LoadForStartup, AdminSlug
<1>5. ASSUME NEW slug \in Slug \ {AdminSlug}, NEW id \in Keeps(roles, slug)
      PROVE  /\ R!LoadForStartup[slug] = NamedIn(catalog, roles[id].perms)
             /\ Keeps(roles, slug) = {id}
  <2>1. Keeps(roles, slug) = {id} /\ id \in Role BY DEF Keeps, Installed
  <2>2. (CHOOSE i \in R!KeptRole(slug) : TRUE) = id BY <1>1, <2>1
  <2>3. R!LoadForStartup[slug] =
          R!Named(roles[CHOOSE i \in R!KeptRole(slug) : TRUE].perms)
    BY <1>1, <2>1 DEF R!LoadForStartup, AdminSlug
  <2> QED BY <2>1, <2>2, <2>3 DEF R!Named, NamedIn
<1>6. \A slug \in Slug \ {AdminSlug} :
        R!LoadForStartup[slug] = Effective(catalog, roles, slug)
  <2> TAKE slug \in Slug \ {AdminSlug}
  <2>1. CASE Keeps(roles, slug) = {} BY <1>3, <2>1, EffectiveNone
  <2>2. CASE Keeps(roles, slug) # {}
    <3> PICK id \in Keeps(roles, slug) : TRUE BY <2>2
    <3> QED BY <1>5, EffectiveOne DEF Keeps
  <2> QED BY <2>1, <2>2
<1>7. NamedIn(catalog, BuiltIn) \subseteq R!Named(R!Offered)
  BY AccessConstants DEF NamedIn, R!Named, R!Offered, Installed
<1> QED BY <1>4, <1>6, <1>7

\* The memory is at rest when the process has started.
LEMMA RestedEffect ==
  R!TypeOK /\ Installed /\ roles[Admin].slug = AdminSlug /\ live = R!LoadForStartup
  /\ (\A r \in Slot : tasks[r] = R!Idle) => Effect
<1> SUFFICES ASSUME R!TypeOK, Installed, roles[Admin].slug = AdminSlug,
                    live = R!LoadForStartup, \A r \in Slot : tasks[r] = R!Idle
             PROVE  Effect
  OBVIOUS
<1>1. \A r \in Slot : tasks[r].op = "none" /\ tasks[r].step = "idle" BY IdleRequest
<1> QED BY <1>1, LoadedIsEffective DEF Effect, Editing, RoleOps, SlotSound

-----------------------------------------------------------------------------
(* Types, shapes and what is installed *)

Org == <<stations, types, ceilings, grants>>

\* An edit of roles leaves the rest typed.
LEMMA RolesTyped ==
  ASSUME R!TypeOK, UNCHANGED <<role, session, Org>>,
         catalog' \in [Permission -> R!CatalogEntry], roles' \in [Role -> R!RoleRow],
         live' \in [Slug -> SUBSET Permission], tasks' \in [Slot -> R!Request]
  PROVE  R!TypeOK'
  BY DEF R!TypeOK, Org, R!Row, R!CatalogEntry, R!RoleRow, R!Request

\* Nothing that is installed is deleted, and no step gives a name twice.
LEMMA InstalledStays ==
  ASSUME Installed,
         \A p \in BuiltIn : catalog'[p].resource = "kept" /\ catalog'[p].action = "kept",
         roles'[Admin].row = "kept", roles'[Admin].perms = BuiltIn,
         \A i \in Role : /\ roles'[i].row = "none" <=> roles[i].row = "none"
                         /\ roles'[i].slug = roles[i].slug
  PROVE  Installed'
  BY DEF Installed

\* A slug that is free may be given to one row.
LEMMA InstalledWithSlug ==
  ASSUME Installed, catalog' = catalog, NEW id \in Role, NEW slug \in Slug,
         R!SlugFree(slug), roles'[id].slug = slug,
         \A i \in Role \ {id} : roles'[i] = roles[i],
         roles'[Admin].row = "kept", roles'[Admin].perms = BuiltIn
  PROVE  Installed'
  BY DEF Installed, R!SlugFree

\* The other slots keep their shape; and no row is taken away from under an edit.
LEMMA ShapeStays ==
  ASSUME Shape, NEW r \in Slot, OnlySlot(r), SlotShape(tasks'[r]),
         tasks'[r].op \in RoleOps \cup {"none"}, situation = "roles", situation' = situation
  PROVE  Shape'
<1>1. \A q \in Slot : SlotShape(tasks'[q]) /\ tasks'[q].op \in RoleOps \cup {"none"}
  BY DEF Shape, OnlySlot
<1> QED BY <1>1 DEF Shape, SlotShape

LEMMA RowsStayThere ==
  ASSUME Shape, RowsAreThere,
         \A i \in Role : roles'[i].row = "none" => roles[i].row = "none",
         \A r \in Slot : \/ tasks'[r] = tasks[r] \/ tasks'[r].step # "store"
                         \/ tasks'[r].id \in Role /\ roles[tasks'[r].id].row # "none"
  PROVE  RowsAreThere'
<1> SUFFICES ASSUME NEW r \in Slot, tasks'[r].step = "store"
             PROVE  roles'[tasks'[r].id].row # "none"
  BY DEF RowsAreThere
<1>1. tasks'[r].id \in Role /\ roles[tasks'[r].id].row # "none"
  BY DEF RowsAreThere, Shape, SlotShape
<1> QED BY <1>1

\* The catalog and the roles, whoever edits them, keep what AdminInv says but for Effect.
LEMMA EditRolesStays ==
  ASSUME R!TypeOK, Installed, RowsAreThere, Shape, R!EditRoles, situation = "roles",
         situation' = situation
  PROVE  R!TypeOK' /\ Installed' /\ RowsAreThere' /\ Shape'
<1>1. ASSUME NEW p \in Permission,
             \/ R!CreateResource(p) \/ R!DeleteResource(p) \/ R!RestoreResource(p)
             \/ R!CreateAction(p) \/ R!DeleteAction(p) \/ R!RestoreAction(p) \/ R!Rename(p)
      PROVE  R!TypeOK' /\ Installed' /\ RowsAreThere' /\ Shape'
  <2>1. /\ UNCHANGED <<roles, live, role, stations, types, ceilings, grants, session, tasks>>
        /\ catalog' \in [Permission -> R!CatalogEntry]
        /\ \A q \in BuiltIn : catalog'[q].resource = "kept" /\ catalog'[q].action = "kept"
    BY <1>1, CatalogSound
  <2>2. R!TypeOK' BY <2>1, RolesTyped DEF R!TypeOK, Org
  <2>3. Installed' BY <2>1 DEF Installed
  <2>4. Shape' BY <2>1 DEF Shape, SlotShape
  <2>5. RowsAreThere' BY <2>1, RowsStayThere
  <2> QED BY <2>2, <2>3, <2>4, <2>5
<1>2. ASSUME NEW id \in Role, NEW slug \in Slug, R!UpdateRole(id, slug)
      PROVE  R!TypeOK' /\ Installed' /\ RowsAreThere' /\ Shape'
  <2>1. /\ UNCHANGED <<catalog, live, role, stations, types, ceilings, grants, session, tasks>>
        /\ roles' \in [Role -> R!RoleRow] /\ R!SlugFree(slug) /\ roles'[id].slug = slug
        /\ \A i \in Role : roles'[i].row = roles[i].row /\ roles'[i].perms = roles[i].perms
        /\ \A i \in Role \ {id} : roles'[i] = roles[i]
    BY <1>2, UpdateRoleStep
  <2>2. R!TypeOK' BY <2>1, RolesTyped DEF R!TypeOK, Org
  <2>3. roles'[Admin].row = "kept" /\ roles'[Admin].perms = BuiltIn
    BY <2>1, AccessConstants DEF Installed
  <2>4. Installed' BY <2>1, <2>3, InstalledWithSlug
  <2>5. Shape' BY <2>1 DEF Shape, SlotShape
  <2>6. RowsAreThere' BY <2>1, RowsStayThere
  <2> QED BY <2>2, <2>4, <2>5, <2>6
<1>3. ASSUME NEW r \in Slot, NEW id \in Role, NEW slug \in Slug, R!CreateRole(r, id, slug)
      PROVE  R!TypeOK' /\ Installed' /\ RowsAreThere' /\ Shape'
  <2>1. /\ UNCHANGED <<catalog, live, role, stations, types, ceilings, grants, session>>
        /\ tasks' \in [Slot -> R!Request] /\ SlotShape(tasks'[r]) /\ OnlySlot(r)
        /\ roles' \in [Role -> R!RoleRow] /\ tasks'[r].op = "create"
        /\ roles[id].row = "none" /\ R!SlugFree(slug)
        /\ \A i \in Role \ {id} : roles'[i] = roles[i]
    BY <1>3, CreateRoleStep
  <2>2. roles'[id] = [row |-> "kept", slug |-> slug, perms |-> {}]
    BY <1>3, CreateRoleStep
  <2>3. roles'[id].slug = slug BY <2>2
  <2>4. R!TypeOK' BY <2>1, RolesTyped DEF R!TypeOK, Org
  <2>5. roles'[Admin].row = "kept" /\ roles'[Admin].perms = BuiltIn
    BY <2>1, AccessConstants DEF Installed
  <2>6. Installed' BY <2>1, <2>3, <2>5, InstalledWithSlug
  <2>7. Shape' BY <2>1, ShapeStays DEF RoleOps
  <2>8. tasks'[r].step = "sync" BY <1>3, CreateRoleStep
  <2>9. RowsAreThere' BY <2>1, <2>8, RowsStayThere DEF OnlySlot
  <2> QED BY <2>4, <2>6, <2>7, <2>9
<1> QED BY <1>1, <1>2, <1>3 DEF R!EditRoles

LEMMA SetRolesStays ==
  ASSUME R!TypeOK, Installed, RowsAreThere, Shape, NEW r \in Slot, R!SetRoles(r),
         situation = "roles", situation' = situation
  PROVE  R!TypeOK' /\ Installed' /\ RowsAreThere' /\ Shape'
<1>0. roles[Admin].row = "kept" /\ roles[Admin].perms = BuiltIn /\ Admin \in Role
  BY AccessConstants DEF Installed
<1>1. ASSUME NEW id \in Role, NEW wanted \in SUBSET Permission,
             R!StartSetPermissions(r, id, wanted)
      PROVE  R!TypeOK' /\ Installed' /\ RowsAreThere' /\ Shape'
  <2>1. id # Admin BY <1>1 DEF R!StartSetPermissions
  <2>2. /\ UNCHANGED <<catalog, roles, live, role, stations, types, ceilings, grants, session>>
        /\ tasks' \in [Slot -> R!Request] /\ SlotShape(tasks'[r]) /\ OnlySlot(r)
        /\ tasks'[r].op = "setPermissions"
        /\ tasks'[r].id = id /\ roles[id].row # "none"
    BY <1>1, <2>1, StartSetPermissionsStep
  <2>3. R!TypeOK' BY <2>2, RolesTyped DEF R!TypeOK, Org
  <2>4. Shape' BY <2>2, ShapeStays DEF RoleOps
  <2>5. RowsAreThere' BY <2>2, RowsStayThere DEF OnlySlot
  <2> QED BY <2>2, <2>3, <2>4, <2>5 DEF Installed
<1>2. ASSUME NEW id \in Role, R!StartDeleteRole(r, id)
      PROVE  R!TypeOK' /\ Installed' /\ RowsAreThere' /\ Shape'
  <2>2. /\ UNCHANGED <<catalog, roles, live, role, stations, types, ceilings, grants, session>>
        /\ tasks' \in [Slot -> R!Request] /\ SlotShape(tasks'[r]) /\ OnlySlot(r)
        /\ tasks'[r].op = "delete"
        /\ tasks'[r].id = id /\ roles[id].row # "none"
    BY <1>2, StartDeleteRoleStep
  <2>3. R!TypeOK' BY <2>2, RolesTyped DEF R!TypeOK, Org
  <2>4. Shape' BY <2>2, ShapeStays DEF RoleOps
  <2>5. RowsAreThere' BY <2>2, RowsStayThere DEF OnlySlot
  <2> QED BY <2>2, <2>3, <2>4, <2>5 DEF Installed
<1>3. ASSUME NEW id \in Role, R!RestoreRole(r, id)
      PROVE  R!TypeOK' /\ Installed' /\ RowsAreThere' /\ Shape'
  <2>2. /\ UNCHANGED <<catalog, live, role, stations, types, ceilings, grants, session>>
        /\ tasks' \in [Slot -> R!Request] /\ SlotShape(tasks'[r]) /\ OnlySlot(r)
        /\ roles' \in [Role -> R!RoleRow] /\ tasks'[r].op = "restore"
        /\ tasks'[r].step = "sync"
        /\ roles[id].row # "none"
        /\ \A i \in Role : roles'[i].slug = roles[i].slug /\ roles'[i].perms = roles[i].perms
        /\ \A i \in Role \ {id} : roles'[i] = roles[i]
        /\ roles'[id].row = "kept"
    BY <1>3, RestoreRoleStep
  <2>3. R!TypeOK' BY <2>2, RolesTyped DEF R!TypeOK, Org
  <2>4. Shape' BY <2>2, ShapeStays DEF RoleOps
  <2>5. \A i \in Role : roles'[i].row = "none" <=> roles[i].row = "none" BY <2>2
  <2>6. roles'[Admin].row = "kept" BY <1>0, <2>2
  <2>7. Installed' BY <1>0, <2>2, <2>5, <2>6, InstalledStays DEF Installed
  <2>8. RowsAreThere' BY <2>2, RowsStayThere DEF OnlySlot
  <2> QED BY <2>3, <2>4, <2>7, <2>8
<1>4. CASE R!SetPermissions(r)
  <2>2. /\ UNCHANGED <<catalog, live, role, stations, types, ceilings, grants, session>>
        /\ tasks' \in [Slot -> R!Request] /\ SlotShape(tasks'[r]) /\ OnlySlot(r)
        /\ roles' \in [Role -> R!RoleRow] /\ tasks'[r].op = "setPermissions"
        /\ tasks[r].id \in Role \ {Admin} /\ tasks'[r].step = "sync"
        /\ \A id \in Role : roles'[id].row = roles[id].row /\ roles'[id].slug = roles[id].slug
        /\ \A id \in Role \ {tasks[r].id} : roles'[id] = roles[id]
    BY <1>4, SetPermissionsStep
  <2>3. R!TypeOK' BY <2>2, RolesTyped DEF R!TypeOK, Org
  <2>4. Shape' BY <2>2, ShapeStays DEF RoleOps
  <2>5. roles'[Admin] = roles[Admin] BY <1>0, <2>2
  <2>7. Installed' BY <1>0, <2>2, <2>5, InstalledStays DEF Installed
  <2>8. RowsAreThere' BY <2>2, RowsStayThere DEF OnlySlot
  <2> QED BY <2>3, <2>4, <2>7, <2>8
<1>5. CASE R!DeleteRole(r)
  <2>2. /\ UNCHANGED <<catalog, live, role, stations, types, ceilings, grants, session>>
        /\ tasks' \in [Slot -> R!Request] /\ SlotShape(tasks'[r]) /\ OnlySlot(r)
        /\ roles' \in [Role -> R!RoleRow] /\ tasks'[r].op = "delete"
        /\ tasks[r].id \in Role \ {Admin} /\ tasks'[r].step = "sync"
        /\ \A id \in Role : roles'[id].slug = roles[id].slug
        /\ \A id \in Role \ {tasks[r].id} : roles'[id] = roles[id]
        /\ roles'[tasks[r].id].row = "voided"
    BY <1>5, DeleteRoleStep
  <2>3. R!TypeOK' BY <2>2, RolesTyped DEF R!TypeOK, Org
  <2>4. Shape' BY <2>2, ShapeStays DEF RoleOps
  <2>5. roles'[Admin] = roles[Admin] BY <1>0, <2>2
  <2>7. Installed'
    <3> PICK id \in Role \ {Admin} : id = tasks[r].id BY <2>2
    <3>1. roles[id].row # "none" BY <1>5 DEF RowsAreThere, R!DeleteRole, R!At
    <3>2. \A i \in Role : roles'[i].row = "none" <=> roles[i].row = "none" BY <2>2, <3>1
    <3> QED BY <1>0, <2>2, <2>5, <3>2, InstalledStays DEF Installed
  <2>8. \A i \in Role : roles'[i].row = "none" => roles[i].row = "none"
    <3> PICK id \in Role \ {Admin} : id = tasks[r].id BY <2>2
    <3> QED BY <2>2
  <2>9. RowsAreThere' BY <2>2, <2>8, RowsStayThere DEF OnlySlot
  <2> QED BY <2>3, <2>4, <2>7, <2>9
<1>6. CASE R!SyncRoleToMemory(r)
  <2>2. /\ UNCHANGED <<catalog, roles, role, stations, types, ceilings, grants, session>>
        /\ tasks' \in [Slot -> R!Request] /\ OnlySlot(r) /\ tasks'[r] = R!Idle
        /\ live' \in [Slug -> SUBSET Permission]
    BY <1>6, SyncStep
  <2>3. R!TypeOK' BY <2>2, RolesTyped DEF R!TypeOK, Org
  <2>4. SlotShape(tasks'[r]) /\ tasks'[r].op = "none" BY <2>2, IdleRequest
  <2>5. Shape' BY <2>2, <2>4, ShapeStays
  <2>6. tasks'[r].step = "idle" BY <2>2, IdleRequest
  <2>7. RowsAreThere' BY <2>2, <2>6, RowsStayThere DEF OnlySlot
  <2> QED BY <2>2, <2>3, <2>5, <2>7 DEF Installed
<1> QED BY <1>1, <1>2, <1>3, <1>4, <1>5, <1>6 DEF R!SetRoles

\* The seed script writes no rows but permissions, and not the administrators'.
LEMMA SeedRolesStep ==
  ASSUME R!TypeOK, R!SeedRoles
  PROVE  /\ roles' \in [Role -> R!RoleRow] /\ roles'[Admin] = roles[Admin]
         /\ \A id \in Role : roles'[id].row = roles[id].row /\ roles'[id].slug = roles[id].slug
<1> PICK done \in SUBSET DOMAIN Installs :
      \E perms \in [done -> SUBSET BuiltIn] :
        roles' = [id \in Role |->
          IF id # Admin /\ roles[id].row # "none" /\ roles[id].slug \in done
          THEN [roles[id] EXCEPT !.perms = perms[roles[id].slug]] ELSE roles[id]]
  BY DEF R!SeedRoles
<1> PICK perms \in [done -> SUBSET BuiltIn] :
      roles' = [id \in Role |->
        IF id # Admin /\ roles[id].row # "none" /\ roles[id].slug \in done
        THEN [roles[id] EXCEPT !.perms = perms[roles[id].slug]] ELSE roles[id]]
  OBVIOUS
<1>1. ASSUME NEW id \in Role, roles[id].slug \in done
      PROVE  /\ [roles[id] EXCEPT !.perms = perms[roles[id].slug]] \in R!RoleRow
             /\ [roles[id] EXCEPT !.perms = perms[roles[id].slug]].row = roles[id].row
             /\ [roles[id] EXCEPT !.perms = perms[roles[id].slug]].slug = roles[id].slug
  <2>1. perms[roles[id].slug] \in SUBSET Permission BY <1>1, AccessConstants
  <2>2. roles[id] \in R!RoleRow BY DEF R!TypeOK
  <2> QED BY <2>1, <2>2 DEF R!RoleRow
<1>2. \A id \in Role : roles[id] \in R!RoleRow BY DEF R!TypeOK
<1> QED BY <1>1, <1>2, AccessConstants

\* Nothing is under way after a start.
LEMMA RestartStays ==
  ASSUME R!TypeOK, Installed, Shape, R!Restart, situation = "roles", situation' = situation
  PROVE  /\ R!TypeOK' /\ Installed' /\ RowsAreThere' /\ Shape'
         /\ roles'[Admin].slug = AdminSlug => Effect'
<1>1. /\ UNCHANGED <<catalog, role, stations, types, ceilings, grants, session>>
      /\ live' = R!LoadForStartup' /\ tasks' = [r \in Slot |-> R!Idle]
  BY DEF R!Restart, R!UnchangedByRoles, R!org
<1>0. /\ roles' \in [Role -> R!RoleRow] /\ roles'[Admin] = roles[Admin]
      /\ \A id \in Role : roles'[id].row = roles[id].row /\ roles'[id].slug = roles[id].slug
  BY SeedRolesStep DEF R!Restart
<1>2. \A r \in Slot : tasks'[r] = R!Idle BY <1>1
<1>3. tasks' \in [Slot -> R!Request] BY <1>1, IdleRequest
<1>4. R!LoadForStartup' \in [Slug -> SUBSET Permission]
  <2>1. (roles \in [Role -> R!RoleRow] => R!LoadForStartup \in [Slug -> SUBSET Permission])'
    BY Loads, PTL
  <2> QED BY <1>0, <2>1
<1>5. R!TypeOK' BY <1>1, <1>0, <1>3, <1>4, RolesTyped DEF R!TypeOK, Org
<1>6. Installed' BY <1>1, <1>0 DEF Installed
<1>7. RowsAreThere' BY <1>2, IdleRequest DEF RowsAreThere
<1>8. Shape'
  <2>1. \A r \in Slot : SlotShape(tasks'[r]) /\ tasks'[r].op = "none" BY <1>2, IdleRequest
  <2> QED BY <2>1 DEF Shape, SlotShape
<1>9. roles'[Admin].slug = AdminSlug => Effect'
  <2>1. (R!TypeOK /\ Installed /\ roles[Admin].slug = AdminSlug /\ live = R!LoadForStartup
         /\ (\A r \in Slot : tasks[r] = R!Idle) => Effect)'
    BY RestedEffect, PTL
  <2>2. AdminSlug' = AdminSlug BY DEF AdminSlug
  <2> QED BY <1>1, <1>2, <1>5, <1>6, <2>1, <2>2
<1> QED BY <1>5, <1>6, <1>7, <1>8, <1>9

-----------------------------------------------------------------------------
(* Administrators of roles *)

AdminInv ==
  /\ R!TypeOK /\ Shape /\ Installed /\ RowsAreThere /\ InEffect

\* Effect holds after each step of an administrator that does not taint.
LEMMA RoleEffect ==
  ASSUME R!TypeOK, Shape, Shape', Installed, Effect, roles[Admin].slug = AdminSlug, ~Taint,
         R!EditRoles \/ \E r \in Slot : R!SetRoles(r)
  PROVE  Effect'
<1>1. SameNames
  <2>1. Names' = Names BY DEF Taint
  <2> DEFINE n == [p \in Permission |-> catalog[p].named]
             g == [id \in Role |-> roles[id].slug]
  <2>2. n' = n /\ g' = g BY <2>1 DEF Names
  <2>3. \A p \in Permission : n'[p] = n[p] /\ n[p] = catalog[p].named
                              /\ n'[p] = catalog'[p].named
    BY <2>2
  <2>4. \A id \in Role : g'[id] = g[id] /\ g[id] = roles[id].slug /\ g'[id] = roles'[id].slug
    BY <2>2
  <2> QED BY <2>3, <2>4 DEF SameNames
<1>2. ASSUME NEW r \in Slot, tasks'[r] # tasks[r] PROVE NoOther(r)
  <2>1. \A q \in Slot \ {r} : tasks[q] = R!Idle BY <1>2 DEF Taint
  <2> QED BY <2>1, IdleRequest DEF NoOther, Editing, RoleOps
<1>3. ASSUME NEW p \in Permission,
             \/ R!CreateResource(p) \/ R!DeleteResource(p) \/ R!RestoreResource(p)
             \/ R!CreateAction(p) \/ R!DeleteAction(p) \/ R!RestoreAction(p) \/ R!Rename(p)
      PROVE  Effect'
  <2>1. UNCHANGED <<roles, live, tasks>> BY <1>3, CatalogSound
  <2> QED BY <1>1, <2>1, NoRoleEdited
<1>4. ASSUME NEW id \in Role, NEW slug \in Slug, R!UpdateRole(id, slug) PROVE FALSE
  <2>1. roles[id].row # "none" /\ R!SlugFree(slug) /\ roles'[id].slug = slug
    BY <1>4, UpdateRoleStep
  <2> QED BY <1>1, <2>1 DEF SameNames, R!SlugFree
<1>5. ASSUME NEW r \in Slot, NEW id \in Role, NEW slug \in Slug, R!CreateRole(r, id, slug)
      PROVE  Effect'
  <2>1. tasks[r] = R!Idle /\ tasks'[r].op = "create" BY <1>5, CreateRoleStep
  <2>2. NoOther(r) BY <1>2, <2>1, IdleRequest
  <2> QED BY <1>1, <1>5, <2>2, CreateRoleEffect
<1>6. ASSUME NEW r \in Slot, NEW id \in Role, NEW wanted \in SUBSET Permission,
             R!StartSetPermissions(r, id, wanted)
      PROVE  Effect'
  <2>1. id # Admin BY <1>6 DEF R!StartSetPermissions
  <2>2. tasks[r] = R!Idle /\ tasks'[r].op = "setPermissions" /\ tasks'[r].id = id
    BY <1>6, <2>1, StartSetPermissionsStep
  <2>3. NoOther(r) BY <1>2, <2>2, IdleRequest
  <2>4. roles[id].row # "voided" BY <2>2 DEF Taint
  <2> QED BY <1>6, <2>1, <2>3, <2>4, StartSetPermissionsEffect
<1>7. ASSUME NEW r \in Slot, NEW id \in Role, R!StartDeleteRole(r, id) PROVE Effect'
  <2>1. tasks[r] = R!Idle /\ tasks'[r].op = "delete" BY <1>7, StartDeleteRoleStep
  <2>2. NoOther(r) BY <1>2, <2>1, IdleRequest
  <2> QED BY <1>7, <2>2, StartDeleteRoleEffect
<1>8. ASSUME NEW r \in Slot, NEW id \in Role, R!RestoreRole(r, id) PROVE Effect'
  <2>1. tasks[r] = R!Idle /\ tasks'[r].op = "restore" BY <1>8, RestoreRoleStep
  <2>2. NoOther(r) BY <1>2, <2>1, IdleRequest
  <2> QED BY <1>8, <2>2, RestoreRoleEffect
<1>9. ASSUME NEW r \in Slot,
             R!SetPermissions(r) \/ R!DeleteRole(r) \/ R!SyncRoleToMemory(r)
      PROVE  Effect'
  BY <1>9, SetPermissionsEffect, DeleteRoleEffect, SyncEffect
<1> QED BY <1>3, <1>4, <1>5, <1>6, <1>7, <1>8, <1>9 DEF R!EditRoles, R!SetRoles

LEMMA AdministerRolesStays ==
  ASSUME AdminInv, tainted \in BOOLEAN, AdministerRoles
  PROVE  AdminInv' /\ situation' = "roles" /\ tainted' \in BOOLEAN
<1>0. situation = "roles" /\ situation' = situation BY DEF AdministerRoles
<1>1. CASE R!Restart /\ tainted' = FALSE
  BY <1>0, <1>1, RestartStays DEF AdminInv, InEffect
<1>2. ASSUME R!EditRoles \/ \E r \in Slot : R!SetRoles(r), tainted' = (tainted \/ Taint)
      PROVE  AdminInv' /\ tainted' \in BOOLEAN
  <2>1. R!TypeOK' /\ Installed' /\ RowsAreThere' /\ Shape'
    BY <1>0, <1>2, EditRolesStays, SetRolesStays DEF AdminInv
  <2>2. tainted' \in BOOLEAN BY <1>2
  <2>3. ASSUME ~tainted', roles'[Admin].slug = AdminSlug PROVE Effect'
    <3>1. ~tainted /\ ~Taint BY <1>2, <2>3
    <3>2. Names' = Names BY <3>1 DEF Taint
    <3> DEFINE g == [id \in Role |-> roles[id].slug]
    <3>3. g' = g BY <3>2 DEF Names
    <3>4. g'[Admin] = roles'[Admin].slug /\ g[Admin] = roles[Admin].slug BY AccessConstants
    <3>5. roles[Admin].slug = AdminSlug BY <2>3, <3>3, <3>4
    <3> QED BY <1>2, <2>1, <3>1, <3>5, RoleEffect DEF AdminInv, InEffect
  <2> QED BY <2>1, <2>2, <2>3 DEF AdminInv, InEffect, AdminSlug
<1>3. (R!Restart /\ tainted' = FALSE) \/
      ((R!EditRoles \/ \E r \in Slot : R!SetRoles(r)) /\ tainted' = (tainted \/ Taint))
  BY DEF AdministerRoles, R!SetRoles
<1> QED BY <1>0, <1>1, <1>2, <1>3

-----------------------------------------------------------------------------
(* A request and its checks *)

Manages(q)  == R!Holds(q.user, ManageOps)
Stands(q)   == q.at # Nobody => stations[q.at] = "kept"
Assigned(q) ==
  q.at # Nobody =>
    R!Holds(q.user, ManageScope) \/ \E t \in Type : grants[<<q.user, q.at, t>>] = "kept"
Known(q)    == q.station # Nobody => types[q.type] = "kept"
Allows(q)   == q.station # Nobody => R!CeilingAllows(q.station, q.type)
InScope(q)  ==
  q.station # Nobody =>
    R!Holds(q.user, ManageScope) \/ grants[<<q.user, q.station, q.type>>] = "kept"

\* What a request has been found to have when it comes to a step, and what it is yet to
\* be asked for.
Found(q, step) ==
  /\ Manages(q)
  /\ step # "station" => Stands(q)
  /\ step \notin GuardSteps => Assigned(q)
  /\ step \in {"ceiling", "bypass", "grant", "allowed"} => Known(q)
  /\ step \in {"bypass", "grant", "allowed"} => Allows(q)
  /\ step = "allowed" => InScope(q)

Left(q, step) ==
  /\ step = "station" => Stands(q)
  /\ step \in GuardSteps => Assigned(q)
  /\ step \notin {"ceiling", "bypass", "grant", "allowed"} => Known(q)
  /\ step \notin {"bypass", "grant", "allowed"} => Allows(q)
  /\ step # "allowed" => InScope(q)

\* What was found stays so while nothing is taken away; and while nothing is given, what
\* is yet to be found decides whether the caller was authorised.
WorkSound ==
  tasks[worker].op = "work" =>
    /\ ~taken => Found(tasks[worker], tasks[worker].step)
    /\ ~given /\ Left(tasks[worker], tasks[worker].step) => entitled

AtWork(q) == q \in R!Request /\ q.op = "work" /\ SlotShape(q)

\* The fields that the checks look at.
Alike(q, p) == q.user = p.user /\ q.at = p.at /\ q.station = p.station /\ q.type = p.type

\* A step that changes no row changes no check.
LEMMA AlikeChecks ==
  ASSUME UNCHANGED <<live, role, stations, types, ceilings, grants>>, NEW q, NEW p, Alike(q, p)
  PROVE  \A step : /\ Found(q, step)' <=> Found(p, step)
                   /\ Left(q, step)' <=> Left(p, step)
<1>1. /\ Manages(q)' <=> Manages(p)
      /\ Stands(q)' <=> Stands(p)
      /\ Known(q)' <=> Known(p)
      /\ Allows(q)' <=> Allows(p)
      /\ InScope(q)' <=> InScope(p)
  BY DEF Alike, Manages, Stands, Known, Allows, InScope, R!Holds, R!CeilingAllows
<1>2. Assigned(q)' <=> Assigned(p) BY DEF Alike, Assigned, R!Holds
<1> QED BY <1>1, <1>2 DEF Found, Left

\* What all that is authorised comes to.
LEMMA AuthorisedIs ==
  ASSUME NEW q, AtWork(q)
  PROVE  R!Authorised(q) <=>
           Manages(q) /\ Stands(q) /\ Assigned(q) /\ Known(q) /\ Allows(q) /\ InScope(q)
<1>1. q.at \in Station \cup {Nobody} /\ q.station \in Station \cup {Nobody}
  BY DEF AtWork, R!Request
<1> QED BY <1>1 DEF R!Authorised, R!AssignedStations, Manages, Stands, Assigned, Known,
                    Allows, InScope

\* There is a grant and a ceiling for each of its keys.
LEMMA GrantsAreOf ==
  ASSUME R!TypeOK, NEW u \in User, NEW s \in Station, NEW t \in Type
  PROVE  <<u, s, t>> \in DOMAIN grants /\ <<s, t>> \in DOMAIN ceilings
  BY DEF R!TypeOK

\* The checks look at nothing but rights.
LEMMA MoreRights ==
  ASSUME R!TypeOK, R!TypeOK', R!Within(R!Rights, R!Rights'), NEW q, AtWork(q)
  PROVE  \A step : Found(q, step) => Found(q, step)'
<1>0. /\ q.user \in User /\ q.type \in Type
      /\ q.station \in Station \cup {Nobody} /\ q.at \in Station \cup {Nobody}
  BY DEF AtWork, SlotShape, R!Request
<1>1. /\ R!Rights.held \subseteq R!Rights'.held
      /\ R!Rights.stations \subseteq R!Rights'.stations
      /\ R!Rights.types \subseteq R!Rights'.types
      /\ R!Rights.ceilings \subseteq R!Rights'.ceilings
      /\ R!Rights.grants \subseteq R!Rights'.grants
  <2>1. DOMAIN R!Rights = {"held", "stations", "types", "ceilings", "grants"}
    BY DEF R!Rights
  <2> QED BY <2>1 DEF R!Within
<1>2. \A p \in Permission : R!Holds(q.user, p) => R!Holds(q.user, p)'
  <2> SUFFICES ASSUME NEW p \in Permission, R!Holds(q.user, p) PROVE R!Holds(q.user, p)'
    OBVIOUS
  <2>1. <<q.user, p>> \in R!Rights.held BY <1>0 DEF R!Rights
  <2>2. <<q.user, p>> \in R!Rights'.held BY <1>1, <2>1
  <2> QED BY <2>2 DEF R!Rights
<1>3. \A s \in Station : stations[s] = "kept" => stations'[s] = "kept"
  <2> SUFFICES ASSUME NEW s \in Station, stations[s] = "kept" PROVE stations'[s] = "kept"
    OBVIOUS
  <2>1. s \in R!Rights.stations BY DEF R!Rights
  <2>2. s \in R!Rights'.stations BY <1>1, <2>1
  <2> QED BY <2>2 DEF R!Rights
<1>4. types[q.type] = "kept" => types'[q.type] = "kept"
  <2> SUFFICES ASSUME types[q.type] = "kept" PROVE types'[q.type] = "kept" OBVIOUS
  <2>1. q.type \in R!Rights.types BY <1>0 DEF R!Rights
  <2>2. q.type \in R!Rights'.types BY <1>1, <2>1
  <2> QED BY <2>2 DEF R!Rights
<1>5. q.station \in Station /\ R!CeilingAllows(q.station, q.type) =>
        R!CeilingAllows(q.station, q.type)'
  <2> SUFFICES ASSUME q.station \in Station, R!CeilingAllows(q.station, q.type)
               PROVE  R!CeilingAllows(q.station, q.type)'
    OBVIOUS
  <2>1. <<q.station, q.type>> \in R!Rights.ceilings BY <1>0, GrantsAreOf DEF R!Rights
  <2>2. <<q.station, q.type>> \in R!Rights'.ceilings BY <1>1, <2>1
  <2> QED BY <2>2 DEF R!Rights
<1>6. \A s \in Station, t \in Type :
        grants[<<q.user, s, t>>] = "kept" => grants'[<<q.user, s, t>>] = "kept"
  <2> SUFFICES ASSUME NEW s \in Station, NEW t \in Type, grants[<<q.user, s, t>>] = "kept"
               PROVE  grants'[<<q.user, s, t>>] = "kept"
    OBVIOUS
  <2>1. <<q.user, s, t>> \in R!Rights.grants BY <1>0, GrantsAreOf DEF R!Rights
  <2>2. <<q.user, s, t>> \in R!Rights'.grants BY <1>1, <2>1
  <2> QED BY <2>2 DEF R!Rights
<1>7. ManageOps \in Permission /\ ManageScope \in Permission BY AccessConstants
<1>8. /\ Manages(q) => Manages(q)'
      /\ Stands(q) => Stands(q)'
      /\ Known(q) => Known(q)'
      /\ Allows(q) => Allows(q)'
      /\ InScope(q) => InScope(q)'
  BY <1>0, <1>2, <1>3, <1>4, <1>5, <1>6, <1>7 DEF Manages, Stands, Known, Allows, InScope
<1>9. Assigned(q) => Assigned(q)' BY <1>0, <1>2, <1>6, <1>7 DEF Assigned
<1> QED BY <1>8, <1>9 DEF Found

\* The other way round, nothing is found that was not there.
LEMMA FewerRights ==
  ASSUME R!TypeOK, R!TypeOK', R!Within(R!Rights', R!Rights), NEW q, AtWork(q)
  PROVE  \A step : Left(q, step)' => Left(q, step)
<1>0. /\ q.user \in User /\ q.type \in Type
      /\ q.station \in Station \cup {Nobody} /\ q.at \in Station \cup {Nobody}
  BY DEF AtWork, SlotShape, R!Request
<1>1. /\ R!Rights'.held \subseteq R!Rights.held
      /\ R!Rights'.stations \subseteq R!Rights.stations
      /\ R!Rights'.types \subseteq R!Rights.types
      /\ R!Rights'.ceilings \subseteq R!Rights.ceilings
      /\ R!Rights'.grants \subseteq R!Rights.grants
  <2>1. DOMAIN (R!Rights') = {"held", "stations", "types", "ceilings", "grants"}
    BY DEF R!Rights
  <2> QED BY <2>1 DEF R!Within
<1>2. \A p \in Permission : R!Holds(q.user, p)' => R!Holds(q.user, p)
  <2> SUFFICES ASSUME NEW p \in Permission, R!Holds(q.user, p)' PROVE R!Holds(q.user, p)
    OBVIOUS
  <2>1. <<q.user, p>> \in R!Rights'.held BY <1>0 DEF R!Rights
  <2>2. <<q.user, p>> \in R!Rights.held BY <1>1, <2>1
  <2> QED BY <2>2 DEF R!Rights
<1>3. \A s \in Station : stations'[s] = "kept" => stations[s] = "kept"
  <2> SUFFICES ASSUME NEW s \in Station, stations'[s] = "kept" PROVE stations[s] = "kept"
    OBVIOUS
  <2>1. s \in R!Rights'.stations BY DEF R!Rights
  <2>2. s \in R!Rights.stations BY <1>1, <2>1
  <2> QED BY <2>2 DEF R!Rights
<1>4. types'[q.type] = "kept" => types[q.type] = "kept"
  <2> SUFFICES ASSUME types'[q.type] = "kept" PROVE types[q.type] = "kept" OBVIOUS
  <2>1. q.type \in R!Rights'.types BY <1>0 DEF R!Rights
  <2>2. q.type \in R!Rights.types BY <1>1, <2>1
  <2> QED BY <2>2 DEF R!Rights
<1>5. q.station \in Station /\ R!CeilingAllows(q.station, q.type)' =>
        R!CeilingAllows(q.station, q.type)
  <2> SUFFICES ASSUME q.station \in Station, R!CeilingAllows(q.station, q.type)'
               PROVE  R!CeilingAllows(q.station, q.type)
    OBVIOUS
  <2>0. <<q.station, q.type>> \in DOMAIN ceilings' BY <1>0 DEF R!TypeOK
  <2>1. <<q.station, q.type>> \in R!Rights'.ceilings BY <2>0 DEF R!Rights
  <2>2. <<q.station, q.type>> \in R!Rights.ceilings BY <1>1, <2>1
  <2> QED BY <2>2 DEF R!Rights
<1>6. \A s \in Station, t \in Type :
        grants'[<<q.user, s, t>>] = "kept" => grants[<<q.user, s, t>>] = "kept"
  <2> SUFFICES ASSUME NEW s \in Station, NEW t \in Type, grants'[<<q.user, s, t>>] = "kept"
               PROVE  grants[<<q.user, s, t>>] = "kept"
    OBVIOUS
  <2>0. <<q.user, s, t>> \in DOMAIN grants' BY <1>0 DEF R!TypeOK
  <2>1. <<q.user, s, t>> \in R!Rights'.grants BY <2>0 DEF R!Rights
  <2>2. <<q.user, s, t>> \in R!Rights.grants BY <1>1, <2>1
  <2> QED BY <2>2 DEF R!Rights
<1>7. ManageOps \in Permission /\ ManageScope \in Permission BY AccessConstants
<1>8. /\ Stands(q)' => Stands(q)
      /\ Known(q)' => Known(q)
      /\ Allows(q)' => Allows(q)
      /\ InScope(q)' => InScope(q)
  BY <1>0, <1>2, <1>3, <1>4, <1>5, <1>6, <1>7 DEF Stands, Known, Allows, InScope
<1>9. Assigned(q)' => Assigned(q) BY <1>0, <1>2, <1>6, <1>7 DEF Assigned
<1> QED BY <1>8, <1>9 DEF Left

\* What the worker's slot may become.
WorkMoved ==
  /\ UNCHANGED <<catalog, roles, live, role, stations, types, ceilings, grants, session>>
  /\ tasks' \in [Slot -> R!Request] /\ OnlySlot(worker)
  /\ SlotShape(tasks'[worker]) /\ tasks'[worker].op \in {"none", "work"}

\* A check that passes.
LEMMA GoesOn ==
  ASSUME R!TypeOK, Shape, tasks[worker].op = "work", NEW step \in WorkSteps,
         step \in GuardSteps => tasks[worker].at \in Station,
         step \in LayerSteps => tasks[worker].station \in Station,
         R!Goto(worker, step)
  PROVE  /\ tasks' \in [Slot -> R!Request] /\ OnlySlot(worker)
         /\ SlotShape(tasks'[worker]) /\ tasks'[worker].op = "work"
         /\ tasks'[worker].step = step /\ Alike(tasks'[worker], tasks[worker])
<1>1. worker \in Slot BY AccessConstants
<1>2. tasks[worker] \in R!Request /\ SlotShape(tasks[worker])
  BY <1>1 DEF R!TypeOK, Shape
<1> PICK q \in R!Request : q = tasks[worker] BY <1>2
<1> DEFINE n == [q EXCEPT !.step = step]
<1>3. n \in R!Request /\ n.op = q.op /\ n.step = step /\ n.id = q.id /\ n.slug = q.slug
      /\ n.perms = q.perms
  BY DEF R!Request, WorkSteps, GuardSteps, LayerSteps
<1>4. n.user = q.user /\ n.at = q.at /\ n.station = q.station /\ n.type = q.type
  BY DEF R!Request
<1>5. tasks' = [tasks EXCEPT ![worker] = n] BY DEF R!Goto
<1> HIDE DEF n
<1>6. tasks' \in [Slot -> R!Request] /\ OnlySlot(worker) /\ tasks'[worker] = n
  BY <1>1, <1>3, <1>5, SlotsWritten DEF OnlySlot
<1>7. SlotShape(n)
  BY <1>2, <1>3, <1>4 DEF SlotShape, WorkSteps, GuardSteps, LayerSteps, RoleOps
<1> QED BY <1>3, <1>4, <1>6, <1>7 DEF Alike

\* One that does not.
LEMMA Stops ==
  ASSUME R!TypeOK, R!Done(worker)
  PROVE  /\ tasks' \in [Slot -> R!Request] /\ OnlySlot(worker)
         /\ SlotShape(tasks'[worker]) /\ tasks'[worker] = R!Idle
         /\ tasks'[worker].op = "none"
<1>1. tasks' = [tasks EXCEPT ![worker] = R!Idle] BY DEF R!Done
<1> QED BY <1>1, AccessConstants, IdleRequest, SlotsWritten DEF OnlySlot

\* The checks of a request, and the two tests that only choose the next of them.
Check(step, next) ==
  /\ tasks[worker].op = "work" /\ tasks[worker].step = step
  /\ \/ R!Done(worker)
     \/ R!Goto(worker, next) /\ next \in WorkSteps
        /\ (next \in GuardSteps => tasks[worker].at \in Station)
        /\ (next \in LayerSteps => tasks[worker].station \in Station)
        /\ (Found(tasks[worker], step) => Found(tasks[worker], next))
        /\ (Left(tasks[worker], next) => Left(tasks[worker], step))
  /\ UNCHANGED <<catalog, roles, live, role, stations, types, ceilings, grants, session>>

\* An operation without a station is through with its checks.
LEMMA AfterGuardsIs ==
  \A s : /\ s = Nobody => R!AfterGuards(s) = "allowed"
         /\ s # Nobody => R!AfterGuards(s) = "type"
  BY DEF R!AfterGuards

\* When the guards are through, what is left is what the operation's station asks for.
LEMMA GuardsPass ==
  ASSUME NEW q, q.station \in Station \cup {Nobody}, Assigned(q),
         NEW step \in {"assigned", "assignedGrant"}
  PROVE  /\ R!AfterGuards(q.station) \in WorkSteps \ GuardSteps
         /\ R!AfterGuards(q.station) \in LayerSteps => q.station \in Station
         /\ Found(q, step) => Found(q, R!AfterGuards(q.station))
         /\ Left(q, R!AfterGuards(q.station)) => Left(q, step)
<1>1. CASE q.station = Nobody
  <2>1. R!AfterGuards(q.station) = "allowed" BY <1>1, AfterGuardsIs
  <2>2. Known(q) /\ Allows(q) /\ InScope(q) BY <1>1 DEF Known, Allows, InScope
  <2> QED BY <2>1, <2>2 DEF Found, Left, WorkSteps, GuardSteps, LayerSteps
<1>2. CASE q.station # Nobody
  <2>1. R!AfterGuards(q.station) = "type" BY <1>2, AfterGuardsIs
  <2> QED BY <1>2, <2>1 DEF Found, Left, WorkSteps, GuardSteps, LayerSteps
<1> QED BY <1>1, <1>2

\* Each check goes on exactly if the caller has what it asks for.
LEMMA ChecksAre ==
  ASSUME R!TypeOK, Shape, R!GrantOrWork(worker), tasks[worker].op # "grant",
         tasks'[worker].op # "grant"
  PROVE  \/ \E u \in User, s \in Station \cup {Nobody}, t \in Type, edit \in BOOLEAN :
              R!StartWork(worker, u, s, t, edit)
         \/ \E step, next \in WorkSteps : Check(step, next)
<1>0. worker \in Slot BY AccessConstants
<1>1. /\ SlotShape(tasks[worker]) /\ tasks[worker] \in R!Request
      /\ tasks[worker].station \in Station \cup {Nobody}
  BY <1>0 DEF Shape, R!TypeOK, R!Request
<1> DEFINE q == tasks[worker]
           Pass(step, next) ==
             /\ (next \in GuardSteps => q.at \in Station)
             /\ (next \in LayerSteps => q.station \in Station)
             /\ (Found(q, step) => Found(q, next)) /\ (Left(q, next) => Left(q, step))
<1>2. ASSUME NEW u \in User, NEW s \in Station, NEW t \in Type, R!StartGrant(worker, u, s, t)
      PROVE  FALSE
  <2>1. tasks' = [tasks EXCEPT ![worker] =
          [R!Idle EXCEPT !.op = "grant", !.step = "upsert", !.user = u, !.station = s,
                         !.type = t]]
    BY <1>2 DEF R!StartGrant, R!Begin
  <2>2. tasks'[worker] = [R!Idle EXCEPT !.op = "grant", !.step = "upsert", !.user = u,
                                        !.station = s, !.type = t]
    BY <1>0, <2>1 DEF R!TypeOK
  <2>3. tasks'[worker].op = "grant" BY <2>2 DEF R!Idle
  <2> QED BY <2>3
<1>3. ~R!Grant(worker) BY DEF R!Grant, R!At
<1>4. CASE R!CheckStation(worker)
  <2>1. q.step = "station" /\ q.op = "work" /\ q.at \in Station
    BY <1>1, <1>4 DEF R!CheckStation, R!At, SlotShape, GuardSteps
  <2>2. stations[q.at] = "kept" => Pass("station", "assigned")
    BY <2>1 DEF Found, Left, GuardSteps, LayerSteps, Stands
  <2>3. "station" \in WorkSteps /\ "assigned" \in WorkSteps BY DEF WorkSteps, GuardSteps
  <2>4. Check("station", "assigned")
    BY <1>4, <2>1, <2>2, <2>3
       DEF R!CheckStation, R!Continue, R!UnchangedByWork, R!stored, R!org, Check
  <2> QED BY <2>3, <2>4
<1>5. CASE R!CheckAssigned(worker)
  <2>1. q.step = "assigned" /\ q.op = "work" /\ q.at \in Station
    BY <1>1, <1>5 DEF R!CheckAssigned, R!At, SlotShape, GuardSteps
  <2>2. R!Holds(q.user, ManageScope) =>
          Pass("assigned", R!AfterGuards(q.station)) /\ R!AfterGuards(q.station) \in WorkSteps
    <3> SUFFICES ASSUME R!Holds(q.user, ManageScope)
                 PROVE  /\ Pass("assigned", R!AfterGuards(q.station))
                        /\ R!AfterGuards(q.station) \in WorkSteps
      OBVIOUS
    <3>1. Assigned(q) BY DEF Assigned
    <3> QED BY <1>1, <3>1, GuardsPass
  <2>3. Pass("assigned", "assignedGrant") BY <2>1 DEF Found, Left, GuardSteps, LayerSteps
  <2>4. "assigned" \in WorkSteps /\ "assignedGrant" \in WorkSteps
    BY DEF WorkSteps, GuardSteps
  <2>5. CASE R!Holds(q.user, ManageScope)
    <3>1. R!Goto(worker, R!AfterGuards(q.station)) BY <1>5, <2>5 DEF R!CheckAssigned
    <3>2. Check("assigned", R!AfterGuards(q.station))
      BY <1>5, <2>1, <2>2, <2>5, <3>1
         DEF R!CheckAssigned, R!UnchangedByWork, R!stored, R!org, Check
    <3> QED BY <2>2, <2>4, <2>5, <3>2
  <2>6. CASE ~R!Holds(q.user, ManageScope)
    <3>1. Check("assigned", "assignedGrant")
      BY <1>5, <2>1, <2>3, <2>4, <2>6
         DEF R!CheckAssigned, R!UnchangedByWork, R!stored, R!org, Check
    <3> QED BY <2>4, <3>1
  <2> QED BY <2>5, <2>6
<1>6. CASE R!CheckAssignedGrant(worker)
  <2>1. q.step = "assignedGrant" /\ q.op = "work" /\ q.at \in Station
    BY <1>1, <1>6 DEF R!CheckAssignedGrant, R!At, SlotShape, GuardSteps
  <2>2. "assignedGrant" \in WorkSteps BY DEF WorkSteps, GuardSteps
  <2>3. UNCHANGED <<catalog, roles, live, role, stations, types, ceilings, grants, session>>
    BY <1>6 DEF R!CheckAssignedGrant, R!UnchangedByWork, R!stored, R!org
  <2>4. CASE \E t \in Type : grants[<<q.user, q.at, t>>] = "kept"
    <3>1. Assigned(q) BY <2>4 DEF Assigned
    <3>2. /\ Pass("assignedGrant", R!AfterGuards(q.station))
          /\ R!AfterGuards(q.station) \in WorkSteps
      BY <1>1, <3>1, GuardsPass
    <3>3. R!Goto(worker, R!AfterGuards(q.station))
      BY <1>6, <2>4 DEF R!CheckAssignedGrant, R!Continue
    <3>4. Check("assignedGrant", R!AfterGuards(q.station))
      BY <2>1, <2>3, <3>2, <3>3 DEF Check
    <3> QED BY <2>2, <3>2, <3>4
  <2>5. CASE ~\E t \in Type : grants[<<q.user, q.at, t>>] = "kept"
    <3>1. R!Done(worker) BY <1>6, <2>5 DEF R!CheckAssignedGrant, R!Continue
    <3>2. Check("assignedGrant", "assignedGrant") BY <2>1, <2>3, <3>1 DEF Check
    <3> QED BY <2>2, <3>2
  <2> QED BY <2>4, <2>5
<1>7. CASE R!CheckType(worker)
  <2>1. q.step = "type" /\ q.op = "work" /\ q.station \in Station
    BY <1>1, <1>7 DEF R!CheckType, R!At, SlotShape, LayerSteps
  <2>2. types[q.type] = "kept" => Pass("type", "ceiling")
    BY <2>1 DEF Found, Left, Known, GuardSteps, LayerSteps
  <2>3. "type" \in WorkSteps /\ "ceiling" \in WorkSteps BY DEF WorkSteps, LayerSteps
  <2>4. Check("type", "ceiling")
    BY <1>7, <2>1, <2>2, <2>3
       DEF R!CheckType, R!Continue, R!UnchangedByWork, R!stored, R!org, Check
  <2> QED BY <2>3, <2>4
<1>8. CASE R!CheckCeiling(worker)
  <2>1. q.step = "ceiling" /\ q.op = "work" /\ q.station \in Station
    BY <1>1, <1>8 DEF R!CheckCeiling, R!At, SlotShape, LayerSteps
  <2>2. R!CeilingAllows(q.station, q.type) => Pass("ceiling", "bypass")
    BY <2>1 DEF Found, Left, Allows, GuardSteps, LayerSteps
  <2>3. "bypass" \in WorkSteps /\ "ceiling" \in WorkSteps BY DEF WorkSteps, LayerSteps
  <2>4. Check("ceiling", "bypass")
    BY <1>8, <2>1, <2>2, <2>3
       DEF R!CheckCeiling, R!Continue, R!UnchangedByWork, R!stored, R!org, Check
  <2> QED BY <2>3, <2>4
<1>9. CASE R!CheckBypass(worker)
  <2>1. q.step = "bypass" /\ q.op = "work" /\ q.station \in Station
    BY <1>1, <1>9 DEF R!CheckBypass, R!At, SlotShape, LayerSteps
  <2>2. R!Holds(q.user, ManageScope) => Pass("bypass", "allowed")
    BY <2>1 DEF Found, Left, InScope, GuardSteps, LayerSteps
  <2>3. Pass("bypass", "grant") BY <2>1 DEF Found, Left, GuardSteps, LayerSteps
  <2>4. "bypass" \in WorkSteps /\ "allowed" \in WorkSteps /\ "grant" \in WorkSteps
    BY DEF WorkSteps, LayerSteps
  <2>5. Check("bypass", "allowed") \/ Check("bypass", "grant")
    BY <1>9, <2>1, <2>2, <2>3, <2>4
       DEF R!CheckBypass, R!UnchangedByWork, R!stored, R!org, Check
  <2> QED BY <2>4, <2>5
<1>10. CASE R!CheckGrant(worker)
  <2>1. q.step = "grant" /\ q.op = "work" /\ q.station \in Station
    BY <1>1, <1>10 DEF R!CheckGrant, R!At, SlotShape, LayerSteps
  <2>2. grants[<<q.user, q.station, q.type>>] = "kept" => Pass("grant", "allowed")
    BY <2>1 DEF Found, Left, InScope, GuardSteps, LayerSteps
  <2>3. "grant" \in WorkSteps /\ "allowed" \in WorkSteps BY DEF WorkSteps, LayerSteps
  <2>4. Check("grant", "allowed")
    BY <1>10, <2>1, <2>2, <2>3
       DEF R!CheckGrant, R!Continue, R!UnchangedByWork, R!stored, R!org, Check
  <2> QED BY <2>3, <2>4
<1>11. CASE R!Work(worker)
  <2>1. "allowed" \in WorkSteps BY DEF WorkSteps
  <2>2. Check("allowed", "allowed")
    BY <1>11, <2>1 DEF R!Work, R!At, R!UnchangedByWork, R!stored, R!org, Check
  <2> QED BY <2>1, <2>2
<1> QED BY <1>2, <1>3, <1>4, <1>5, <1>6, <1>7, <1>8, <1>9, <1>10, <1>11 DEF R!GrantOrWork

\* A request begins with all its checks before it.
LEMMA StartWorkStep ==
  ASSUME R!TypeOK, Shape, NEW u \in User, NEW s \in Station \cup {Nobody}, NEW t \in Type,
         NEW edit \in BOOLEAN, R!StartWork(worker, u, s, t, edit)
  PROVE  /\ WorkMoved /\ tasks[worker] = R!Idle /\ tasks'[worker].op = "work"
         /\ tasks'[worker].step \in {"station", "type", "allowed"}
         /\ tasks'[worker].step # "station" => tasks'[worker].at = Nobody
         /\ tasks'[worker].step = "allowed" => tasks'[worker].station = Nobody
         /\ R!Holds(u, ManageOps) /\ tasks'[worker].user = u
<1>0. worker \in Slot BY AccessConstants
<1> DEFINE step == IF edit THEN "station" ELSE R!AfterGuards(s)
           at == IF edit THEN session[u] ELSE Nobody
<1>1. /\ at \in Station \cup {Nobody} /\ step \in {"station", "type", "allowed"}
      /\ step = "station" => at \in Station
      /\ step # "station" => at = Nobody
      /\ step = "allowed" => s = Nobody
      /\ step = "type" => s \in Station
  BY AfterGuardsIs DEF R!TypeOK, R!StartWork
<1>2. tasks' = [tasks EXCEPT ![worker] =
        [R!Idle EXCEPT !.op = "work", !.step = step, !.user = u, !.at = at,
                       !.station = s, !.type = t]]
  BY DEF R!StartWork, R!Begin
<1> HIDE DEF step, at
<1> DEFINE i == R!Idle
<1>3. i = [op |-> "none", step |-> "idle", id |-> Nobody, slug |-> Nobody, perms |-> {},
           user |-> Nobody, at |-> Nobody, station |-> Nobody, type |-> Nobody]
  BY DEF R!Idle
<1> DEFINE n == [i EXCEPT !.op = "work", !.step = step, !.user = u, !.at = at,
                          !.station = s, !.type = t]
<1>4. tasks' = [tasks EXCEPT ![worker] = n] BY <1>2
<1>5. i \in R!Request BY IdleRequest
<1> HIDE DEF i
<1>6. /\ n \in R!Request /\ n.op = "work" /\ n.step = step /\ n.user = u /\ n.at = at
      /\ n.station = s /\ n.type = t
  <2>1. u \in User \cup {Nobody} /\ t \in Type \cup {Nobody} /\ s \in Station \cup {Nobody}
    OBVIOUS
  <2>2. step \in {"idle", "store", "sync", "upsert", "station", "assigned", "assignedGrant",
                  "type", "ceiling", "bypass", "grant", "allowed"}
    BY <1>1
  <2>3. n \in R!Request
    BY <1>1, <1>5, <2>1, <2>2 DEF R!Request
  <2>4. /\ n.op = "work" /\ n.step = step /\ n.user = u /\ n.at = at
        /\ n.station = s /\ n.type = t
    BY <1>5 DEF R!Request
  <2> QED BY <2>3, <2>4
<1> HIDE DEF n
<1>7. tasks' \in [Slot -> R!Request] /\ OnlySlot(worker) /\ tasks'[worker] = n
  BY <1>0, <1>4, <1>6, SlotsWritten DEF OnlySlot
<1>8. SlotShape(n)
  BY <1>1, <1>6 DEF SlotShape, WorkSteps, GuardSteps, LayerSteps, RoleOps
<1> QED BY <1>1, <1>6, <1>7, <1>8
        DEF WorkMoved, R!StartWork, R!Begin, R!stored, R!org

\* Whatever a request does, roles are left as they are.
LEMMA MovedStays ==
  ASSUME AdminInv, situation = "work", situation' = situation, tainted' = tainted, WorkMoved
  PROVE  AdminInv'
<1>0. worker \in Slot /\ editor \in Slot /\ worker # editor BY AccessConstants
<1>1. R!TypeOK' BY RolesTyped DEF AdminInv, WorkMoved, R!TypeOK, Org
<1>2. Shape'
  <2>1. \A r \in Slot : SlotShape(tasks'[r]) BY DEF AdminInv, Shape, WorkMoved, OnlySlot
  <2>2. \A r \in Slot \ {worker} : tasks'[r] = tasks[r] BY DEF WorkMoved, OnlySlot
  <2> QED BY <1>0, <2>1, <2>2 DEF AdminInv, Shape, WorkMoved, SlotShape
<1>3. Installed' BY DEF AdminInv, WorkMoved, Installed
<1>4. tasks'[worker].step # "store"
  BY DEF WorkMoved, SlotShape, RoleOps
<1>5. RowsAreThere' BY <1>4, RowsStayThere DEF AdminInv, WorkMoved, OnlySlot
<1>6. \A r \in Slot : tasks'[r] = tasks[r] \/ (~Editing(r) /\ ~Editing(r)')
  BY DEF AdminInv, Shape, WorkMoved, OnlySlot, Editing, RoleOps
<1>7. SameNames BY DEF WorkMoved, SameNames
<1>8. Effect => Effect'
  BY <1>2, <1>6, <1>7, NoRoleEdited DEF AdminInv, WorkMoved
<1>9. roles'[Admin].slug = roles[Admin].slug BY DEF WorkMoved
<1> QED BY <1>1, <1>2, <1>3, <1>5, <1>8, <1>9 DEF AdminInv, InEffect, AdminSlug

\* A step of the request.
WorkerActs ==
  /\ R!GrantOrWork(worker) /\ tasks[worker].op # "grant" /\ tasks'[worker].op # "grant"
  /\ entitled' = IF tasks[worker] = R!Idle THEN R!Authorised(tasks'[worker]) ELSE
                 IF tasks'[worker] = R!Idle THEN FALSE ELSE entitled
  /\ IF tasks'[worker] = R!Idle THEN given' = FALSE /\ taken' = FALSE
     ELSE UNCHANGED <<given, taken>>
  /\ UNCHANGED <<situation, tainted, begun>>

\* Each step of the request keeps what was found, and what is yet to be asked for.
LEMMA WorkerStays ==
  ASSUME AdminInv, WorkSound, situation = "work", WorkerActs
  PROVE  AdminInv' /\ WorkSound'
<1>0. R!TypeOK /\ Shape /\ worker \in Slot BY AccessConstants DEF AdminInv
<1>1. ASSUME NEW u \in User, NEW s \in Station \cup {Nobody}, NEW t \in Type,
             NEW edit \in BOOLEAN, R!StartWork(worker, u, s, t, edit)
      PROVE  WorkMoved /\ WorkSound'
  <2>1. /\ WorkMoved /\ tasks[worker] = R!Idle /\ tasks'[worker].op = "work"
        /\ tasks'[worker].step \in {"station", "type", "allowed"}
        /\ tasks'[worker].step # "station" => tasks'[worker].at = Nobody
        /\ tasks'[worker].step = "allowed" => tasks'[worker].station = Nobody
        /\ R!Holds(u, ManageOps) /\ tasks'[worker].user = u
    BY <1>0, <1>1, StartWorkStep
  <2> PICK q : q = tasks'[worker] OBVIOUS
  <2>2. AtWork(q) /\ Alike(q, q) BY <1>0, <2>1 DEF WorkMoved, AtWork, Alike
  <2>3. q # R!Idle BY <2>1, IdleRequest
  <2>4. entitled' = R!Authorised(q) BY <2>1 DEF WorkerActs
  <2>5. \A step : /\ Found(q, step)' <=> Found(q, step)
                  /\ Left(q, step)' <=> Left(q, step)
    BY <2>1, <2>2, AlikeChecks DEF WorkMoved
  <2>6. Manages(q) BY <2>1 DEF Manages
  <2>7. Found(q, q.step)
    BY <2>1, <2>6 DEF Found, Stands, Assigned, Known, Allows, InScope, GuardSteps
  <2>8. Left(q, q.step) => R!Authorised(q)
    BY <2>1, <2>2, <2>6, AuthorisedIs
       DEF Left, Stands, Assigned, Known, Allows, InScope, GuardSteps
  <2>9. Found(tasks[worker], tasks[worker].step)'
        /\ (Left(tasks[worker], tasks[worker].step)' => entitled')
    BY <2>4, <2>5, <2>7, <2>8
  <2> QED BY <2>1, <2>9 DEF WorkSound
<1>2. ASSUME NEW step \in WorkSteps, NEW next \in WorkSteps, Check(step, next)
      PROVE  WorkMoved /\ WorkSound'
  <2>1. tasks[worker].op = "work" /\ tasks[worker].step = step /\ tasks[worker] # R!Idle
    BY <1>2, IdleRequest DEF Check
  <2>2. CASE R!Done(worker)
    <3>1. /\ tasks' \in [Slot -> R!Request] /\ OnlySlot(worker)
          /\ SlotShape(tasks'[worker]) /\ tasks'[worker].op = "none"
      BY <1>0, <2>2, Stops
    <3> QED BY <1>2, <3>1 DEF WorkMoved, WorkSound, Check
  <2>3. CASE R!Goto(worker, next) /\ Check(step, next) /\ ~R!Done(worker)
    <3>1. /\ next \in GuardSteps => tasks[worker].at \in Station
          /\ next \in LayerSteps => tasks[worker].station \in Station
          /\ Found(tasks[worker], step) => Found(tasks[worker], next)
          /\ Left(tasks[worker], next) => Left(tasks[worker], step)
          /\ UNCHANGED <<catalog, roles, live, role, stations, types, ceilings, grants,
                         session>>
      BY <2>3 DEF Check
    <3>2. /\ tasks' \in [Slot -> R!Request] /\ OnlySlot(worker)
          /\ SlotShape(tasks'[worker]) /\ tasks'[worker].op = "work"
          /\ tasks'[worker].step = next /\ Alike(tasks'[worker], tasks[worker])
      BY <1>0, <2>1, <2>3, <3>1, GoesOn
    <3>3. UNCHANGED <<entitled, given, taken>> BY <2>1, <3>2, IdleRequest DEF WorkerActs
    <3> PICK q, p : q = tasks'[worker] /\ p = tasks[worker] OBVIOUS
    <3>4. /\ Found(q, next)' <=> Found(p, next)
          /\ Left(q, next)' <=> Left(p, next)
      BY <3>1, <3>2, AlikeChecks
    <3>5. ~taken => Found(p, step) BY <2>1 DEF WorkSound
    <3>6. ~given /\ Left(p, step) => entitled BY <2>1 DEF WorkSound
    <3>7. /\ ~taken' => Found(tasks[worker], tasks[worker].step)'
          /\ ~given' /\ Left(tasks[worker], tasks[worker].step)' => entitled'
      BY <3>1, <3>2, <3>3, <3>4, <3>5, <3>6
    <3> QED BY <3>1, <3>2, <3>7 DEF WorkMoved, WorkSound
  <2> QED BY <1>2, <2>2, <2>3 DEF Check
<1>3. WorkMoved /\ WorkSound' BY <1>0, <1>1, <1>2, ChecksAre DEF WorkerActs
<1>4. situation' = situation /\ tainted' = tainted BY DEF WorkerActs
<1> QED BY <1>3, <1>4, MovedStays

-----------------------------------------------------------------------------
(* What changes around a request *)

OrgTyped ==
  /\ stations \in [Station -> R!Row] /\ types \in [Type -> R!Row]
  /\ ceilings \in [Station \X Type -> [row: R!Row, enabled: BOOLEAN]]
  /\ grants \in [User \X Station \X Type -> R!Row]

\* Rows written with what they hold keep their type.
LEMMA RowsRenewed ==
  \A row \in R!Row, purge \in BOOLEAN :
    R!Renewed(row) \in R!Row /\ R!Removed(row, purge) \in R!Row
  BY DEF R!Row, R!Renewed, R!Removed

\* Purging takes ceilings and grants along.
LEMMA Purged ==
  ASSUME OrgTyped, NEW C, NEW G
  PROVE  /\ [c \in DOMAIN ceilings |->
              IF c \in C THEN [ceilings[c] EXCEPT !.row = "none"] ELSE ceilings[c]]
              \in [Station \X Type -> [row: R!Row, enabled: BOOLEAN]]
         /\ [g \in DOMAIN grants |-> IF g \in G THEN "none" ELSE grants[g]]
              \in [User \X Station \X Type -> R!Row]
<1>1. DOMAIN ceilings = Station \X Type /\ DOMAIN grants = User \X Station \X Type
  BY DEF OrgTyped
<1>2. ASSUME NEW c \in Station \X Type
      PROVE  [ceilings[c] EXCEPT !.row = "none"] \in [row: R!Row, enabled: BOOLEAN]
  <2>1. ceilings[c] \in [row: R!Row, enabled: BOOLEAN] BY DEF OrgTyped
  <2>2. "none" \in R!Row BY DEF R!Row
  <2> QED BY <2>1, <2>2
<1>3. \A c \in Station \X Type : ceilings[c] \in [row: R!Row, enabled: BOOLEAN]
  BY DEF OrgTyped
<1>4. \A g \in User \X Station \X Type : grants[g] \in R!Row /\ "none" \in R!Row
  BY DEF OrgTyped, R!Row
<1> QED BY <1>1, <1>2, <1>3, <1>4

\* Stations, types, ceilings and grants are edited apart from roles and slots.
LEMMA EditOrgStep ==
  ASSUME R!TypeOK, R!EditOrg
  PROVE  R!TypeOK' /\ UNCHANGED <<catalog, roles, live, role, session, tasks>>
<1>0. OrgTyped BY DEF R!TypeOK, OrgTyped
<1>1. ASSUME NEW s \in Station,
             \/ R!CreateStation(s) \/ R!RestoreStation(s)
             \/ \E purge \in BOOLEAN : R!RemoveStation(s, purge)
      PROVE  OrgTyped' /\ R!UnchangedByOrg
  <2>0. stations[s] \in R!Row /\ "kept" \in R!Row BY <1>0 DEF OrgTyped, R!Row
  <2>1. CASE R!CreateStation(s)
    BY <1>0, <2>0, <2>1 DEF R!CreateStation, OrgTyped
  <2>2. CASE R!RestoreStation(s)
    BY <1>0, <2>0, <2>2, RowsRenewed DEF R!RestoreStation, OrgTyped
  <2>3. ASSUME NEW purge \in BOOLEAN, R!RemoveStation(s, purge)
        PROVE  OrgTyped' /\ R!UnchangedByOrg
    <3>1. R!Removed(stations[s], purge) \in R!Row BY <2>0, RowsRenewed
    <3>2. stations' = [stations EXCEPT ![s] = R!Removed(stations[s], purge)]
      BY <2>3 DEF R!RemoveStation
    <3>3. stations' \in [Station -> R!Row] BY <1>0, <3>1, <3>2 DEF OrgTyped
    <3> DEFINE C == {c \in DOMAIN ceilings : purge /\ c[1] = s}
               G == {g \in DOMAIN grants : purge /\ g[2] = s}
    <3>4. /\ ceilings' = [c \in DOMAIN ceilings |->
                IF c \in C THEN [ceilings[c] EXCEPT !.row = "none"] ELSE ceilings[c]]
          /\ grants' = [g \in DOMAIN grants |-> IF g \in G THEN "none" ELSE grants[g]]
      BY <2>3 DEF R!RemoveStation
    <3> HIDE DEF C, G
    <3>5. /\ ceilings' \in [Station \X Type -> [row: R!Row, enabled: BOOLEAN]]
          /\ grants' \in [User \X Station \X Type -> R!Row]
      BY <1>0, <3>4, Purged
    <3> QED BY <1>0, <2>3, <3>3, <3>5 DEF R!RemoveStation, OrgTyped
  <2> QED BY <1>1, <2>1, <2>2, <2>3
<1>2. ASSUME NEW t \in Type,
             \/ R!CreateType(t) \/ R!RestoreType(t)
             \/ \E purge \in BOOLEAN : R!RemoveType(t, purge)
      PROVE  OrgTyped' /\ R!UnchangedByOrg
  <2>0. types[t] \in R!Row /\ "kept" \in R!Row BY <1>0 DEF OrgTyped, R!Row
  <2>1. CASE R!CreateType(t)
    BY <1>0, <2>0, <2>1 DEF R!CreateType, OrgTyped
  <2>2. CASE R!RestoreType(t)
    BY <1>0, <2>0, <2>2, RowsRenewed DEF R!RestoreType, OrgTyped
  <2>3. ASSUME NEW purge \in BOOLEAN, R!RemoveType(t, purge)
        PROVE  OrgTyped' /\ R!UnchangedByOrg
    <3>1. R!Removed(types[t], purge) \in R!Row BY <2>0, RowsRenewed
    <3>2. types' = [types EXCEPT ![t] = R!Removed(types[t], purge)]
      BY <2>3 DEF R!RemoveType
    <3>3. types' \in [Type -> R!Row] BY <1>0, <3>1, <3>2 DEF OrgTyped
    <3> DEFINE C == {c \in DOMAIN ceilings : purge /\ c[2] = t}
               G == {g \in DOMAIN grants : purge /\ g[3] = t}
    <3>4. /\ ceilings' = [c \in DOMAIN ceilings |->
                IF c \in C THEN [ceilings[c] EXCEPT !.row = "none"] ELSE ceilings[c]]
          /\ grants' = [g \in DOMAIN grants |-> IF g \in G THEN "none" ELSE grants[g]]
      BY <2>3 DEF R!RemoveType
    <3> HIDE DEF C, G
    <3>5. /\ ceilings' \in [Station \X Type -> [row: R!Row, enabled: BOOLEAN]]
          /\ grants' \in [User \X Station \X Type -> R!Row]
      BY <1>0, <3>4, Purged
    <3> QED BY <1>0, <2>3, <3>3, <3>5 DEF R!RemoveType, OrgTyped
  <2> QED BY <1>2, <2>1, <2>2, <2>3
<1>3. ASSUME NEW c \in DOMAIN ceilings,
             \/ R!RestoreCeiling(c)
             \/ \E enabled \in BOOLEAN :
                  R!CreateCeiling(c, enabled) \/ R!UpdateCeiling(c, enabled)
             \/ \E purge \in BOOLEAN : R!RemoveCeiling(c, purge)
      PROVE  OrgTyped' /\ R!UnchangedByOrg
  <2>0. ceilings[c].row \in R!Row /\ ceilings[c].enabled \in BOOLEAN /\ "kept" \in R!Row
    BY <1>0 DEF OrgTyped, R!Row
  <2>1. ASSUME NEW row \in R!Row, NEW enabled \in BOOLEAN, R!Ceiling(c, row, enabled)
        PROVE  OrgTyped' /\ R!UnchangedByOrg
    BY <1>0, <2>1 DEF R!Ceiling, OrgTyped
  <2>2. CASE R!RestoreCeiling(c) BY <2>0, <2>1, <2>2 DEF R!RestoreCeiling
  <2>3. ASSUME NEW enabled \in BOOLEAN,
               R!CreateCeiling(c, enabled) \/ R!UpdateCeiling(c, enabled)
        PROVE  OrgTyped' /\ R!UnchangedByOrg
    BY <2>0, <2>1, <2>3 DEF R!CreateCeiling, R!UpdateCeiling
  <2>4. ASSUME NEW purge \in BOOLEAN, R!RemoveCeiling(c, purge)
        PROVE  OrgTyped' /\ R!UnchangedByOrg
    <3>1. R!Removed("kept", purge) \in R!Row BY <2>0, RowsRenewed
    <3> QED BY <2>0, <2>1, <2>4, <3>1 DEF R!RemoveCeiling
  <2> QED BY <1>3, <2>2, <2>3, <2>4
<1>4. ASSUME NEW g \in DOMAIN grants,
             R!RestoreGrant(g) \/ \E purge \in BOOLEAN : R!Revoke(g, purge)
      PROVE  OrgTyped' /\ R!UnchangedByOrg
  <2>0. grants[g] \in R!Row BY <1>0 DEF OrgTyped
  <2>1. R!Renewed(grants[g]) \in R!Row
        /\ \A purge \in BOOLEAN : R!Removed(grants[g], purge) \in R!Row
    BY <2>0, RowsRenewed
  <2> QED BY <1>0, <1>4, <2>1 DEF R!RestoreGrant, R!Revoke, OrgTyped
<1>5. OrgTyped' /\ R!UnchangedByOrg
  BY <1>1, <1>2, <1>3, <1>4
     DEF R!EditOrg, R!EditStations, R!EditTypes, R!EditCeilings, R!EditGrants
<1> QED BY <1>5 DEF R!TypeOK, OrgTyped, R!UnchangedByOrg, R!stored, R!RoleRow,
                    R!CatalogEntry, R!Request, R!Row

\* Steps beside the roles and the slots.
LEMMA AsideStays ==
  ASSUME AdminInv, R!TypeOK', UNCHANGED <<catalog, roles, live, tasks, situation, tainted>>
  PROVE  AdminInv'
<1>1. Shape' /\ Installed' /\ RowsAreThere'
  BY DEF AdminInv, Shape, SlotShape, Installed, RowsAreThere
<1>2. SameNames BY DEF SameNames
<1>3. Effect => Effect' BY <1>1, <1>2, NoRoleEdited DEF AdminInv
<1> QED BY <1>1, <1>3 DEF AdminInv, InEffect, AdminSlug

\* The editor grants something.
LEMMA GrantingStays ==
  ASSUME AdminInv, situation = "work", situation' = situation, tainted' = tainted,
         R!TypeOK', UNCHANGED <<catalog, roles, live>>, OnlySlot(editor),
         tasks[editor].op \in {"none", "grant"},
         SlotShape(tasks'[editor]), tasks'[editor].op \in {"none", "grant"}
  PROVE  AdminInv'
<1>0. worker \in Slot /\ editor \in Slot /\ worker # editor BY AccessConstants
<1>1. Shape'
  <2>1. \A r \in Slot : SlotShape(tasks'[r]) BY DEF AdminInv, Shape, OnlySlot
  <2>2. \A r \in Slot \ {editor} : tasks'[r] = tasks[r] BY DEF OnlySlot
  <2> QED BY <1>0, <2>1, <2>2 DEF AdminInv, Shape, SlotShape
<1>2. Installed' BY DEF AdminInv, Installed
<1>3. tasks'[editor].step # "store" BY DEF SlotShape, RoleOps
<1>4. RowsAreThere' BY <1>3, RowsStayThere DEF AdminInv, OnlySlot
<1>5. \A r \in Slot : tasks'[r] = tasks[r] \/ (~Editing(r) /\ ~Editing(r)')
  BY DEF OnlySlot, Editing, RoleOps
<1>6. SameNames BY DEF SameNames
<1>7. Effect => Effect' BY <1>1, <1>5, <1>6, NoRoleEdited DEF AdminInv
<1> QED BY <1>1, <1>2, <1>4, <1>7 DEF AdminInv, InEffect, AdminSlug

\* A grant: the check of the user who is granted something, and the row.
LEMMA StartGrantStep ==
  ASSUME R!TypeOK, NEW u \in User, NEW s \in Station, NEW t \in Type,
         R!StartGrant(editor, u, s, t)
  PROVE  /\ UNCHANGED <<catalog, roles, live, role, stations, types, ceilings, grants, session>>
         /\ tasks' \in [Slot -> R!Request] /\ OnlySlot(editor) /\ tasks[editor] = R!Idle
         /\ SlotShape(tasks'[editor]) /\ tasks'[editor].op = "grant"
<1>0. editor \in Slot BY AccessConstants
<1> DEFINE i == R!Idle
<1>1. i \in R!Request /\ i.op = "none" BY IdleRequest
<1> DEFINE n == [i EXCEPT !.op = "grant", !.step = "upsert", !.user = u, !.station = s,
                          !.type = t]
<1>2. tasks' = [tasks EXCEPT ![editor] = n] BY DEF R!StartGrant, R!Begin
<1> HIDE DEF i
<1>3. /\ n \in R!Request /\ n.op = "grant" /\ n.step = "upsert" /\ n.user = u
      /\ n.station = s /\ n.type = t
  BY <1>1 DEF R!Request
<1> HIDE DEF n
<1>4. tasks' \in [Slot -> R!Request] /\ OnlySlot(editor) /\ tasks'[editor] = n
  BY <1>0, <1>2, <1>3, SlotsWritten DEF OnlySlot
<1>5. SlotShape(n) BY <1>3 DEF SlotShape, RoleOps
<1> QED BY <1>3, <1>4, <1>5 DEF R!StartGrant, R!Begin, R!stored, R!org

LEMMA GrantStep ==
  ASSUME R!TypeOK, Shape, R!Grant(editor)
  PROVE  /\ UNCHANGED <<catalog, roles, live, role, stations, types, ceilings, session>>
         /\ grants' \in [User \X Station \X Type -> R!Row]
         /\ tasks' \in [Slot -> R!Request] /\ OnlySlot(editor) /\ tasks[editor].op = "grant"
         /\ SlotShape(tasks'[editor]) /\ tasks'[editor].op = "none"
<1>0. editor \in Slot BY AccessConstants
<1>1. tasks[editor].op = "grant" BY DEF R!Grant, R!At
<1>2. tasks' = [tasks EXCEPT ![editor] = R!Idle] BY DEF R!Grant, R!Done
<1>3. tasks' \in [Slot -> R!Request] /\ OnlySlot(editor) /\ tasks'[editor] = R!Idle
  BY <1>0, <1>2, IdleRequest, SlotsWritten DEF OnlySlot
<1>4. "kept" \in R!Row /\ grants \in [User \X Station \X Type -> R!Row]
  BY DEF R!Row, R!TypeOK
<1>5. \/ grants' = grants
      \/ grants' = [grants EXCEPT ![<<tasks[editor].user, tasks[editor].station,
                                     tasks[editor].type>>] = "kept"]
  BY DEF R!Grant
<1>6. grants' \in [User \X Station \X Type -> R!Row] BY <1>4, <1>5
<1> QED BY <1>1, <1>3, <1>6, IdleRequest DEF R!Grant, R!stored

\* The editor sets permissions: the roles are edited by nobody else.
LEMMA EditorStays ==
  ASSUME AdminInv, situation = "work", situation' = situation, tainted' = tainted,
         \/ \E id \in Adjusted, wanted \in SUBSET {ManageOps, ManageScope} :
              R!StartSetPermissions(editor, id, wanted)
         \/ R!SetPermissions(editor) \/ R!SyncRoleToMemory(editor)
  PROVE  AdminInv' /\ OnlySlot(editor)
<1>0. /\ worker \in Slot /\ editor \in Slot /\ worker # editor
      /\ Adjusted \subseteq Role \ {Admin} /\ ManageOps \in Permission
      /\ ManageScope \in Permission /\ Admin \in Role
  BY AccessConstants
<1>1. R!TypeOK /\ Shape /\ Installed /\ RowsAreThere /\ NoOther(editor)
      /\ \A id \in Role : roles[id].row # "voided"
  BY <1>0 DEF AdminInv, Shape, NoOther, Editing, RoleOps
<1>2. \A q : SlotShape(q) /\ q.op \in {"none", "setPermissions"} /\ OnlySlot(editor)
               /\ tasks'[editor] = q /\ (\A id \in Role : roles'[id].row # "voided")
               => Shape'
  <2> SUFFICES ASSUME SlotShape(tasks'[editor]), OnlySlot(editor),
                      tasks'[editor].op \in {"none", "setPermissions"},
                      \A id \in Role : roles'[id].row # "voided"
               PROVE  Shape'
    OBVIOUS
  <2>1. \A r \in Slot : SlotShape(tasks'[r]) BY <1>1 DEF Shape, OnlySlot
  <2>2. \A r \in Slot \ {editor} : tasks'[r] = tasks[r] BY DEF OnlySlot
  <2> QED BY <1>0, <1>1, <2>1, <2>2 DEF Shape, SlotShape
<1>3. ASSUME NEW id \in Adjusted, NEW wanted \in SUBSET {ManageOps, ManageScope},
             R!StartSetPermissions(editor, id, wanted)
      PROVE  AdminInv' /\ OnlySlot(editor)
  <2>0. id \in Role \ {Admin} /\ wanted \in SUBSET Permission BY <1>0
  <2>1. /\ UNCHANGED <<catalog, roles, live, role, stations, types, ceilings, grants, session>>
        /\ tasks' \in [Slot -> R!Request] /\ SlotShape(tasks'[editor]) /\ OnlySlot(editor)
        /\ tasks'[editor].op = "setPermissions" /\ tasks'[editor].id = id
        /\ roles[id].row # "none"
    BY <1>0, <1>1, <1>3, <2>0, StartSetPermissionsStep
  <2>2. R!TypeOK' BY <1>1, <2>1, RolesTyped DEF R!TypeOK, Org
  <2>3. Shape' BY <1>1, <1>2, <2>1
  <2>4. Installed' BY <1>1, <2>1 DEF Installed
  <2>5. RowsAreThere' BY <1>1, <2>0, <2>1, RowsStayThere DEF OnlySlot
  <2>6. Effect => Effect' BY <1>0, <1>1, <1>3, <2>0, StartSetPermissionsEffect
  <2> QED BY <2>1, <2>2, <2>3, <2>4, <2>5, <2>6 DEF AdminInv, InEffect, AdminSlug
<1>4. CASE R!SetPermissions(editor)
  <2>1. /\ UNCHANGED <<catalog, live, role, stations, types, ceilings, grants, session>>
        /\ tasks' \in [Slot -> R!Request] /\ SlotShape(tasks'[editor]) /\ OnlySlot(editor)
        /\ roles' \in [Role -> R!RoleRow] /\ tasks'[editor].op = "setPermissions"
        /\ tasks[editor].id \in Role \ {Admin} /\ tasks'[editor].step = "sync"
        /\ \A id \in Role : roles'[id].row = roles[id].row /\ roles'[id].slug = roles[id].slug
        /\ \A id \in Role \ {tasks[editor].id} : roles'[id] = roles[id]
    BY <1>0, <1>1, <1>4, SetPermissionsStep
  <2>2. R!TypeOK' BY <1>1, <2>1, RolesTyped DEF R!TypeOK, Org
  <2>3. Shape' BY <1>1, <1>2, <2>1
  <2>4. roles'[Admin] = roles[Admin] BY <1>0, <2>1
  <2>5. Installed' BY <1>1, <2>1, <2>4, InstalledStays DEF Installed
  <2>6. RowsAreThere' BY <1>1, <2>1, RowsStayThere DEF OnlySlot
  <2>7. Effect /\ roles[Admin].slug = AdminSlug => Effect'
    BY <1>0, <1>1, <1>4, SetPermissionsEffect
  <2> QED BY <2>1, <2>2, <2>3, <2>4, <2>5, <2>6, <2>7 DEF AdminInv, InEffect, AdminSlug
<1>5. CASE R!SyncRoleToMemory(editor)
  <2>1. /\ UNCHANGED <<catalog, roles, role, stations, types, ceilings, grants, session>>
        /\ tasks' \in [Slot -> R!Request] /\ OnlySlot(editor) /\ tasks'[editor] = R!Idle
        /\ live' \in [Slug -> SUBSET Permission]
    BY <1>0, <1>1, <1>5, SyncStep
  <2>2. R!TypeOK' BY <1>1, <2>1, RolesTyped DEF R!TypeOK, Org
  <2>3. SlotShape(tasks'[editor]) /\ tasks'[editor].op = "none"
        /\ tasks'[editor].step = "idle"
    BY <2>1, IdleRequest
  <2>4. Shape' BY <1>1, <1>2, <2>1, <2>3
  <2>5. Installed' BY <1>1, <2>1 DEF Installed
  <2>6. RowsAreThere' BY <1>1, <2>1, <2>3, RowsStayThere DEF OnlySlot
  <2>7. Effect => Effect' BY <1>0, <1>1, <1>5, SyncEffect
  <2> QED BY <2>1, <2>2, <2>4, <2>5, <2>6, <2>7 DEF AdminInv, InEffect, AdminSlug
<1> QED BY <1>3, <1>4, <1>5

\* Whatever is edited around the request, what AdminInv says stands.
LEMMA AroundStays ==
  ASSUME AdminInv, situation = "work", situation' = situation, tainted' = tainted, Around
  PROVE  AdminInv' /\ tasks'[worker] = tasks[worker]
<1>0. worker \in Slot /\ editor \in Slot /\ worker # editor /\ Given \subseteq Slug
  BY AccessConstants
<1>1. CASE R!EditOrg BY <1>1, EditOrgStep, AsideStays DEF AdminInv
<1>2. ASSUME NEW u \in User, NEW slug \in Given, R!AssignRole(u, slug)
      PROVE  AdminInv' /\ tasks'[worker] = tasks[worker]
  <2>1. /\ role' \in [User -> Slug]
        /\ UNCHANGED <<catalog, roles, live, stations, types, ceilings, grants, session, tasks>>
    BY <1>0, <1>2 DEF R!AssignRole, R!stored, R!org, AdminInv, R!TypeOK
  <2>2. R!TypeOK'
    BY <2>1 DEF AdminInv, R!TypeOK, R!CatalogEntry, R!RoleRow, R!Row, R!Request
  <2> QED BY <2>1, <2>2, AsideStays
<1>3. ASSUME NEW u \in User, NEW s \in Station, R!UpdateSession(u, s)
      PROVE  AdminInv' /\ tasks'[worker] = tasks[worker]
  <2>1. /\ session' \in [User -> Station \cup {Nobody}]
        /\ UNCHANGED <<catalog, roles, live, role, stations, types, ceilings, grants, tasks>>
    BY <1>3 DEF R!UpdateSession, R!stored, R!org, AdminInv, R!TypeOK
  <2>2. R!TypeOK'
    BY <2>1 DEF AdminInv, R!TypeOK, R!CatalogEntry, R!RoleRow, R!Row, R!Request
  <2> QED BY <2>1, <2>2, AsideStays
<1>4. ASSUME NEW u \in User, NEW s \in Station, NEW t \in Type, R!StartGrant(editor, u, s, t)
      PROVE  AdminInv' /\ tasks'[worker] = tasks[worker]
  <2>1. /\ UNCHANGED <<catalog, roles, live, role, stations, types, ceilings, grants, session>>
        /\ tasks' \in [Slot -> R!Request] /\ OnlySlot(editor) /\ tasks[editor] = R!Idle
        /\ SlotShape(tasks'[editor]) /\ tasks'[editor].op = "grant"
    BY <1>4, StartGrantStep DEF AdminInv
  <2>2. R!TypeOK' BY <2>1, RolesTyped DEF AdminInv, R!TypeOK, Org
  <2>3. tasks[editor].op = "none" BY <2>1, IdleRequest
  <2> QED BY <1>0, <2>1, <2>2, <2>3, GrantingStays DEF OnlySlot
<1>5. CASE R!Grant(editor)
  <2>1. /\ UNCHANGED <<catalog, roles, live, role, stations, types, ceilings, session>>
        /\ grants' \in [User \X Station \X Type -> R!Row]
        /\ tasks' \in [Slot -> R!Request] /\ OnlySlot(editor) /\ tasks[editor].op = "grant"
        /\ SlotShape(tasks'[editor]) /\ tasks'[editor].op = "none"
    BY <1>5, GrantStep DEF AdminInv
  <2>2. R!TypeOK'
    BY <2>1 DEF AdminInv, R!TypeOK, R!CatalogEntry, R!RoleRow, R!Row, R!Request
  <2> QED BY <1>0, <2>1, <2>2, GrantingStays DEF OnlySlot
<1>6. ASSUME \/ \E id \in Adjusted, wanted \in SUBSET {ManageOps, ManageScope} :
                  R!StartSetPermissions(editor, id, wanted)
             \/ R!SetPermissions(editor) \/ R!SyncRoleToMemory(editor)
      PROVE  AdminInv' /\ tasks'[worker] = tasks[worker]
  BY <1>0, <1>6, EditorStays DEF OnlySlot
<1> QED BY <1>1, <1>2, <1>3, <1>4, <1>5, <1>6 DEF Around

\* A step around the request, and whether it gives or takes a right.
AroundActs ==
  /\ Around
  /\ IF tasks[worker] = R!Idle THEN UNCHANGED <<given, taken>>
     ELSE /\ given' = (given \/ ~R!Within(R!Rights', R!Rights))
          /\ taken' = (taken \/ ~R!Within(R!Rights, R!Rights'))
  /\ UNCHANGED entitled
  /\ UNCHANGED <<situation, tainted, begun>>

\* And it stands for the request: what is taken or given is noticed.
LEMMA AroundSound ==
  ASSUME AdminInv, WorkSound, situation = "work", AroundActs
  PROVE  AdminInv' /\ WorkSound'
<1>1. AdminInv' /\ tasks'[worker] = tasks[worker] BY AroundStays DEF AroundActs
<1>2. ASSUME tasks[worker].op = "work"
      PROVE  /\ ~taken' => Found(tasks[worker], tasks[worker].step)'
             /\ ~given' /\ Left(tasks[worker], tasks[worker].step)' => entitled'
  <2> PICK q : q = tasks[worker] OBVIOUS
  <2>1. AtWork(q) BY <1>2, AccessConstants DEF AdminInv, R!TypeOK, Shape, AtWork
  <2>2. q # R!Idle BY <1>2, IdleRequest
  <2>3. /\ given' = (given \/ ~R!Within(R!Rights', R!Rights))
        /\ taken' = (taken \/ ~R!Within(R!Rights, R!Rights')) /\ entitled' = entitled
    BY <2>2 DEF AroundActs
  <2>4. ~taken' => Found(q, q.step)'
    BY <1>1, <1>2, <2>1, <2>3, MoreRights DEF AdminInv, WorkSound
  <2>5. ~given' /\ Left(q, q.step)' => entitled'
    BY <1>1, <1>2, <2>1, <2>3, FewerRights DEF AdminInv, WorkSound
  <2> QED BY <1>1, <2>4, <2>5
<1> QED BY <1>1, <1>2 DEF WorkSound

-----------------------------------------------------------------------------
\* Roles, their copy in memory and the request under way go together.
AccessInv ==
  AdminInv /\ situation \in {"roles", "work"} /\ tainted \in BOOLEAN /\ WorkSound

\* At first nothing is under way and the memory was just loaded.
LEMMA InitAccessInv == AccessInit => AccessInv
<1> SUFFICES ASSUME AccessInit PROVE AccessInv OBVIOUS
<1>1. R!Init /\ situation \in {"roles", "work"} /\ tainted = FALSE BY DEF AccessInit
<1>2. /\ \A p \in Permission : catalog[p] =
           [resource |-> IF p \in BuiltIn THEN "kept" ELSE "none",
            action   |-> IF p \in BuiltIn THEN "kept" ELSE "none", named |-> TRUE]
      /\ catalog \in [Permission -> R!CatalogEntry]
  BY <1>1 DEF R!Init, R!CatalogEntry, R!Row
<1>3. \A id \in Role : /\ roles[id].row \in {"none", "kept"}
                       /\ roles[id].slug = FirstSlug[id]
  BY <1>1 DEF R!Init
<1>4. roles \in [Role -> R!RoleRow]
  <2>1. \A id \in Role : roles[id] \in {[row |-> row, slug |-> slug, perms |-> perms] :
            row \in {"none", "kept"}, slug \in Slug, perms \in SUBSET BuiltIn}
    BY <1>1 DEF R!Init
  <2>2. {[row |-> row, slug |-> slug, perms |-> perms] :
            row \in {"none", "kept"}, slug \in Slug, perms \in SUBSET BuiltIn}
          \subseteq R!RoleRow
    BY AccessConstants DEF R!RoleRow, R!Row
  <2> QED BY <1>1, <2>1, <2>2 DEF R!Init
<1>5. tasks = [r \in Slot |-> R!Idle] /\ \A r \in Slot : tasks[r] = R!Idle
  BY <1>1 DEF R!Init
<1>6. Installed
  <2>1. \A p \in BuiltIn : catalog[p].resource = "kept" /\ catalog[p].action = "kept"
    BY <1>2, AccessConstants
  <2>2. \A i, j \in Role : roles[i].slug = roles[j].slug => i = j
    BY <1>3, AccessAssumption DEF R!ConstantsOK
  <2> QED BY <1>1, <2>1, <2>2 DEF R!Init, Installed
<1>7. live = R!LoadForStartup BY <1>1 DEF R!Init
<1>8. R!TypeOK
  <2>1. /\ stations \in [Station -> R!Row] /\ types \in [Type -> R!Row]
        /\ ceilings \in [Station \X Type -> [row: R!Row, enabled: BOOLEAN]]
        /\ grants \in [User \X Station \X Type -> R!Row]
        /\ session \in [User -> Station \cup {Nobody}] /\ role \in [User -> Slug]
    BY <1>1 DEF R!Init, R!Row
  <2>2. tasks \in [Slot -> R!Request] BY <1>5, IdleRequest
  <2>3. live \in [Slug -> SUBSET Permission] BY <1>4, <1>7, Loads
  <2> QED BY <1>2, <1>4, <2>1, <2>2, <2>3 DEF R!TypeOK
<1>9. \A r \in Slot : SlotShape(tasks[r]) /\ tasks[r].op = "none" /\ tasks[r].step = "idle"
  BY <1>5, IdleRequest
<1>10. Shape BY <1>3, <1>9, AccessConstants DEF Shape
<1>11. RowsAreThere BY <1>9 DEF RowsAreThere
<1>12. roles[Admin].slug = AdminSlug BY <1>3, AccessConstants DEF AdminSlug
<1>13. Effect BY <1>5, <1>6, <1>7, <1>8, <1>12, RestedEffect
<1>14. WorkSound BY <1>9, AccessConstants DEF WorkSound
<1> QED BY <1>1, <1>6, <1>8, <1>10, <1>11, <1>13, <1>14 DEF AccessInv, AdminInv, InEffect

LEMMA NextAccessInv ==
  ASSUME AccessInv, [AccessNext]_<<R!vars, history>>
  PROVE  AccessInv'
<1>1. CASE AdministerRoles
  <2>1. AdminInv' /\ situation' = "roles" /\ tainted' \in BOOLEAN
    BY <1>1, AdministerRolesStays DEF AccessInv
  <2>2. tasks'[worker].op # "work"
    BY <2>1, AccessConstants DEF AdminInv, Shape, RoleOps
  <2> QED BY <2>1, <2>2 DEF AccessInv, WorkSound
<1>2. CASE WorkOfStaff
  <2>1. situation = "work" /\ (WorkerActs \/ AroundActs) /\ UNCHANGED <<situation, tainted>>
    BY <1>2 DEF WorkOfStaff, WorkerActs, AroundActs
  <2>2. AdminInv' /\ WorkSound' BY <2>1, WorkerStays, AroundSound DEF AccessInv
  <2> QED BY <2>1, <2>2 DEF AccessInv
<1>3. CASE UNCHANGED <<R!vars, history>>
  <2>1. UNCHANGED <<catalog, roles, live, role, stations, types, ceilings, grants, session,
                    tasks, situation, tainted, entitled, given, taken>>
    BY <1>3 DEF R!vars, R!stored, R!org, history
  <2>2. R!TypeOK' BY <2>1, RolesTyped DEF AccessInv, AdminInv, R!TypeOK, Org
  <2>3. AdminInv' BY <2>1, <2>2, AsideStays DEF AccessInv
  <2>4. WorkSound'
    <3> PICK q : q = tasks[worker] OBVIOUS
    <3>1. \A step : /\ Found(q, step)' <=> Found(q, step)
                    /\ Left(q, step)' <=> Left(q, step)
      BY <2>1, AlikeChecks DEF Alike
    <3> QED BY <2>1, <3>1 DEF AccessInv, WorkSound
  <2> QED BY <2>1, <2>3, <2>4 DEF AccessInv
<1> QED BY <1>1, <1>2, <1>3 DEF AccessNext

\* For any number of roles, permissions, users, stations and slots, the roles, their copy
\* in memory and the request under way go together as AccessInv says.
THEOREM AccessIsSound == AccessSpec => []AccessInv
BY InitAccessInv, NextAccessInv, PTL DEF AccessSpec

\* Without overlapping edits, new slugs and an edited deleted role, what is decided by is
\* what the rows say whenever no edit is under way (syncRoleToMemory, loadForStartup).
THEOREM RolesTakeEffect == AccessSpec => []RolesInEffect
<1>1. AccessInv => RolesInEffect
  <2> SUFFICES ASSUME AccessInv, ~tainted, roles[Admin].slug = FirstSlug[Admin],
                      \A r \in Slot : tasks[r] = R!Idle
               PROVE  /\ R!Named(BuiltIn) \subseteq live[FirstSlug[Admin]]
                      /\ \A slug \in Slug \ {FirstSlug[Admin]} :
                           live[slug] = R!EffectivePermissions(slug)
    BY DEF RolesInEffect
  <2>1. Effect BY DEF AccessInv, AdminInv, InEffect, AdminSlug
  <2>2. \A r \in Slot : tasks[r].step # "sync" BY IdleRequest
  <2>3. ASSUME NEW slug \in Slug \ {AdminSlug}
        PROVE  live[slug] = R!EffectivePermissions(slug)
    <3>1. live[slug] = Effective(catalog, roles, slug) BY <2>1, <2>2 DEF Effect, Behind
    <3>2. R!EffectivePermissions(slug) = Effective(catalog, roles, slug)
      BY DEF R!EffectivePermissions, Effective, AdminSlug, R!KeptRole, Keeps, R!Named,
         NamedIn
    <3> QED BY <3>1, <3>2
  <2> QED BY <2>1, <2>3 DEF Effect, AdminSlug, R!Named, NamedIn
<1> QED BY <1>1, AccessIsSound, PTL

\* Whatever changes between the checks of a request, it passes them only if its caller was
\* authorised when it began or is when it passes, unless rights were both given and taken
\* away meanwhile (assertPermission and the guards before it).
THEOREM PassedIsAuthorised == AccessSpec => []PassedWasAuthorised
<1>1. AccessInv => PassedWasAuthorised
  <2> SUFFICES ASSUME AccessInv, tasks[worker].step = "allowed"
               PROVE  /\ ~given => entitled
                      /\ ~taken => R!Authorised(tasks[worker])
    BY DEF PassedWasAuthorised
  <2>1. tasks[worker] \in R!Request /\ SlotShape(tasks[worker])
    BY AccessConstants DEF AccessInv, AdminInv, R!TypeOK, Shape
  <2>2. tasks[worker].op = "work"
    BY <2>1, IdleRequest DEF SlotShape, RoleOps, R!Request
  <2>3. AtWork(tasks[worker]) BY <2>1, <2>2 DEF AtWork
  <2>4. Left(tasks[worker], "allowed") BY DEF Left, GuardSteps
  <2>5. Found(tasks[worker], "allowed") =>
          /\ Manages(tasks[worker]) /\ Stands(tasks[worker]) /\ Assigned(tasks[worker])
          /\ Known(tasks[worker]) /\ Allows(tasks[worker]) /\ InScope(tasks[worker])
    BY DEF Found, GuardSteps
  <2> QED BY <2>2, <2>3, <2>4, <2>5, AuthorisedIs DEF AccessInv, WorkSound
<1> QED BY <1>1, AccessIsSound, PTL

-----------------------------------------------------------------------------
(* Pages *)

\* Whatever limit is asked for, a page has room for a row.
LEMMA SizeIsPositive == \A limit \in Int : ParseLimit(limit) \in Nat \ {0}
  BY DEF ParseLimit, DEFAULT_MAX_PAGE_SIZE, DEFAULT_PAGE_SIZE

\* The quotient and the remainder.
LEMMA Divided ==
  ASSUME NEW n \in Nat, NEW size \in Nat \ {0}
  PROVE  /\ n \div size \in Nat /\ (n \div size) * size <= n
         /\ n < (n \div size) * size + size
  OBVIOUS

\* Products are ordered as their factors are.
LEMMA Ordered ==
  ASSUME NEW p \in Int, NEW q \in Int, NEW size \in Nat \ {0}, p <= q
  PROVE  p * size <= q * size
  OBVIOUS

\* There are as many pages as it takes, and none too many.
LEMMA PageCount ==
  ASSUME NEW total \in Nat, NEW size \in Nat \ {0}
  PROVE  /\ TotalPages(total, size) \in Nat
         /\ total <= TotalPages(total, size) * size
         /\ total = 0 => TotalPages(total, size) = 0
         /\ total > 0 => /\ TotalPages(total, size) > 0
                         /\ (TotalPages(total, size) - 1) * size < total
<1> DEFINE n == total + size - 1
           q == n \div size
<1>1. n \in Nat OBVIOUS
<1>2. q \in Nat /\ q * size <= n /\ n < q * size + size BY <1>1, Divided
<1>3. TotalPages(total, size) = q BY DEF TotalPages
<1> HIDE DEF q
<1>4. total <= q * size BY <1>2
<1>5. total > 0 => q > 0
  <2>1. q = 0 => q * size = 0 OBVIOUS
  <2> QED BY <1>2, <1>4, <2>1
<1>6. (q - 1) * size = q * size - size BY <1>2
<1>7. total = 0 => q = 0
  <2>1. q > 0 => 1 * size <= q * size BY <1>2, Ordered
  <2> QED BY <1>2, <2>1
<1> QED BY <1>2, <1>3, <1>4, <1>5, <1>6, <1>7

\* The rows of a page that is there.
LEMMA RowsAre ==
  ASSUME NEW total \in Nat, NEW limit \in Int,
         NEW p \in 1..TotalPages(total, ParseLimit(limit))
  PROVE  RowsOf(total, limit, p) =
           {i \in 1..total : i > (p - 1) * ParseLimit(limit) /\ i <= p * ParseLimit(limit)}
<1> DEFINE size == ParseLimit(limit)
           pages == TotalPages(total, size)
<1>1. size \in Nat \ {0} BY SizeIsPositive
<1>2. pages \in Nat /\ total # 0 BY <1>1, PageCount
<1>3. BuildSafePaginationQuery(total, limit, p) = [skip |-> (p - 1) * size, take |-> size]
  BY <1>2 DEF BuildSafePaginationQuery, ParsePage, GetOffset
<1> HIDE DEF size, pages
<1>4. (p - 1) * size + size = p * size BY <1>1, <1>2
<1> QED BY <1>3, <1>4 DEF RowsOf, size

\* The links of a page that is there.
LEMMA LinksAre ==
  ASSUME NEW total \in Nat, NEW limit \in Int,
         NEW p \in 1..TotalPages(total, ParseLimit(limit))
  PROVE  /\ BuildPaginationControls(total, limit, p).next =
              IF p = TotalPages(total, ParseLimit(limit)) THEN 0 ELSE p + 1
         /\ BuildPaginationControls(total, limit, p).prev = IF p > 1 THEN p - 1 ELSE 0
<1> DEFINE size == ParseLimit(limit)
           pages == TotalPages(total, size)
<1>1. pages \in Nat BY SizeIsPositive, PageCount
<1>2. /\ BuildPaginationControls(total, limit, p).next = NextPage(p, pages)
      /\ BuildPaginationControls(total, limit, p).prev = PrevPage(p)
  <2>1. EnsurePageWithinBounds(ParsePage(p), pages) = p
    BY <1>1 DEF EnsurePageWithinBounds, ParsePage
  <2> HIDE DEF size, pages
  <2> QED BY <2>1 DEF BuildPaginationControls, size, pages
<1> HIDE DEF pages
<1> QED BY <1>1, <1>2 DEF NextPage, PrevPage, pages

\* Whatever the number of rows and the limit that is asked for, the pages a list is cut
\* into hold every row once and link to each other (buildPaginationControls and
\* buildSafePaginationQuery).
THEOREM PagesAlwaysTile == \A total \in Nat, limit \in Int : Tile(total, limit)
<1> TAKE total \in Nat, limit \in Int
<1> DEFINE size == ParseLimit(limit)
           pages == TotalPages(total, size)
<1>1. size \in Nat \ {0} BY SizeIsPositive
<1>2. /\ pages \in Nat /\ total <= pages * size
      /\ pages > 0 => total > 0 /\ (pages - 1) * size < total
  BY <1>1, PageCount
<1>3. \A p \in 1..pages :
        RowsOf(total, limit, p) = {i \in 1..total : i > (p - 1) * size /\ i <= p * size}
  BY RowsAre
<1>4. \A p \in 1..pages :
        /\ BuildPaginationControls(total, limit, p).next = IF p = pages THEN 0 ELSE p + 1
        /\ BuildPaginationControls(total, limit, p).prev = IF p > 1 THEN p - 1 ELSE 0
  BY LinksAre
<1> HIDE DEF size, pages
<1>5. UNION {RowsOf(total, limit, p) : p \in 1..pages} = 1..total
  <2>1. ASSUME NEW i \in 1..total PROVE \E p \in 1..pages : i \in RowsOf(total, limit, p)
    <3> DEFINE q == (i - 1) \div size
    <3>1. q \in Nat /\ q * size <= i - 1 /\ i - 1 < q * size + size BY <1>1, Divided
    <3> HIDE DEF q
    <3>2. (q + 1) * size = q * size + size /\ (q + 1) - 1 = q BY <1>1, <3>1
    <3>3. q < pages
      <4>1. pages <= q => pages * size <= q * size BY <1>1, <1>2, <3>1, Ordered
      <4>2. pages * size \in Int /\ q * size \in Int BY <1>1, <1>2, <3>1
      <4> PICK m \in Int, n \in Int : m = pages * size /\ n = q * size BY <4>2
      <4>3. total <= m /\ n <= i - 1 /\ (pages <= q => m <= n) BY <1>2, <3>1, <4>1
      <4> QED BY <1>2, <3>1, <4>3
    <3>4. q + 1 \in 1..pages BY <1>2, <3>1, <3>3
    <3>5. i > ((q + 1) - 1) * size /\ i <= (q + 1) * size BY <1>1, <3>1, <3>2
    <3> QED BY <1>3, <3>4, <3>5
  <2> QED BY <1>3, <2>1
<1>6. ASSUME NEW p \in 1..pages PROVE RowsOf(total, limit, p) # {}
  <2>1. (p - 1) * size <= (pages - 1) * size BY <1>1, <1>2, Ordered
  <2>2. (p - 1) * size \in Nat /\ p * size = (p - 1) * size + size BY <1>1
  <2>3. (pages - 1) * size \in Int BY <1>1, <1>2
  <2>4. (p - 1) * size + 1 \in RowsOf(total, limit, p) BY <1>1, <1>2, <1>3, <2>1, <2>2, <2>3
  <2> QED BY <2>4
<1>7. ASSUME NEW p \in 1..pages, p + 1 \in 1..pages
      PROVE  RowsOf(total, limit, p) \cap RowsOf(total, limit, p + 1) = {}
  <2>1. (p + 1) - 1 = p /\ p * size \in Int BY <1>1
  <2> QED BY <1>3, <1>7, <2>1
<1>8. \A p \in 1..pages :
        LET links == BuildPaginationControls(total, limit, p) IN
        /\ RowsOf(total, limit, p) # {}
        /\ links.next = (IF p = pages THEN 0 ELSE p + 1)
        /\ links.next # 0 =>
             /\ RowsOf(total, limit, p) \cap RowsOf(total, limit, links.next) = {}
             /\ BuildPaginationControls(total, limit, links.next).prev = p
  <2> TAKE p \in 1..pages
  <2>1. p # pages => p + 1 \in 1..pages BY <1>2
  <2> QED BY <1>4, <1>6, <1>7, <2>1
<1> QED BY <1>5, <1>8 DEF Tile, size, pages

\* Whatever is asked for, the rows of an answer are those of the page it says it is.
THEOREM PagesAlwaysAgree ==
  \A total \in Nat, limit \in Int, page \in Int : Agree(total, limit, page)
<1> TAKE total \in Nat, limit \in Int, page \in Int
<1> DEFINE size == ParseLimit(limit)
           pages == TotalPages(total, size)
           asked == ParsePage(page)
<1>1. /\ pages \in Nat /\ (total = 0 => pages = 0) /\ (total > 0 => pages > 0)
  BY SizeIsPositive, PageCount
<1>2. asked \in Nat \ {0} BY DEF ParsePage, DEFAULT_PAGE
<1>3. /\ BuildPaginationControls(total, limit, page).pageSize = size
      /\ BuildPaginationControls(total, limit, page).currentPage =
           EnsurePageWithinBounds(asked, pages)
  BY DEF BuildPaginationControls
<1>4. LET bound == IF total = 0 THEN 1 ELSE pages IN
      BuildSafePaginationQuery(total, limit, page) =
        [skip |-> GetOffset(size, IF asked <= bound THEN asked ELSE bound), take |-> size]
  BY DEF BuildSafePaginationQuery
<1>5. size \in Nat BY SizeIsPositive
<1> HIDE DEF size, pages, asked
<1>6. CASE total > 0
  BY <1>1, <1>2, <1>3, <1>4, <1>6 DEF EnsurePageWithinBounds, Agree
<1>7. CASE total = 0
  <2>1. GetOffset(size, 1) = 0 BY <1>5 DEF GetOffset
  <2>2. BuildSafePaginationQuery(total, limit, page) = [skip |-> 0, take |-> size]
    BY <1>2, <1>4, <1>7, <2>1
  <2> QED BY <1>1, <1>2, <1>3, <1>7, <2>2 DEF EnsurePageWithinBounds, Agree, asked
<1> QED BY <1>6, <1>7
=============================================================================
