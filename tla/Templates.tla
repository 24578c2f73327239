------------------------------ MODULE Templates ------------------------------
(***************************************************************************)
(* Templates and their versions (src/common/templates): an edit files the  *)
(* content it replaces, a rollback edits with what was filed.  A handler   *)
(* reads the template before the transaction that files and writes, so     *)
(* others may edit, remove, purge or restore it in between; what holds the *)
(* history together is that (templateId, version) is unique.  The start of *)
(* a container writes the templates it ships over what is stored.          *)
(*                                                                         *)
(* A template's slots are one value here, of which Complete are those with *)
(* every slot its type requires.  Name, description and the note of a      *)
(* change are left out: no version keeps them.  Rendering changes nothing  *)
(* but a cache that is keyed by the text it compiles.                      *)
(***************************************************************************)
EXTENDS Integers

CONSTANTS
  Key,
  Slots, Complete,
  Meta,        \* metadata; None is null
  None,
  Seed,        \* what assets/json/templates.json says, by key
  Req,         \* slots for handlers in flight
  MaxVersion, MaxIds \* bounds

ASSUME TemplatesAssumption ==
  /\ Key # {} /\ Complete # {} /\ Complete \subseteq Slots
  /\ DOMAIN Seed \subseteq Key
  /\ \A k \in DOMAIN Seed : Seed[k] \in [slots: Slots, meta: Meta \cup {None}]
  /\ MaxVersion \in Nat /\ MaxIds \in Nat

VARIABLES
  templates,   \* Template rows by key
  files,       \* TemplateVersion rows
  nextId,
  req

tvars == <<templates, files, nextId, req>>

Template == [row: {"none", "kept", "voided"}, id: Nat, version: Nat,
             slots: Slots, meta: Meta \cup {None}]
File     == [id: Nat, version: Nat, slots: Slots, meta: Meta \cup {None}]

Request == [step: {"idle", "snapshot", "find", "store"}, key: Key, to: Nat,
            slots: Slots \cup {None}, meta: Meta \cup {None}, tpl: Template]

TypeOK ==
  /\ templates \in [Key -> Template]
  /\ files \subseteq File
  /\ nextId \in Nat
  /\ req \in [Req -> Request]

-----------------------------------------------------------------------------
Absent == [row |-> "none", id |-> 0, version |-> 0,
           slots |-> CHOOSE s \in Complete : TRUE, meta |-> None]

Idle == [step |-> "idle", key |-> CHOOSE k \in Key : TRUE, to |-> 0, slots |-> None,
         meta |-> None, tpl |-> Absent]

Init ==
  /\ templates = [k \in Key |-> Absent]
  /\ files = {} /\ nextId = 1
  /\ req = [r \in Req |-> Idle]

Done(r)       == req' = [req EXCEPT ![r] = Idle]
UnchangedRows == UNCHANGED <<templates, files, nextId>>

\* validateSlots, where the change has slots at all.
ValidSlots(slots) == slots = None \/ slots \in Complete

Create(k, slots, meta) ==
  /\ nextId <= MaxIds
  /\ templates[k].row = "none" /\ slots \in Complete
  /\ templates' = [templates EXCEPT ![k] = [row |-> "kept", id |-> nextId, version |-> 1,
                                            slots |-> slots, meta |-> meta]]
  /\ nextId' = nextId + 1
  /\ UNCHANGED <<files, req>>

\* No slots or no metadata: they stay as they are.
StartUpdate(r, k, slots, meta) ==
  /\ req[r].step = "idle"
  /\ req' = [req EXCEPT ![r] = [@ EXCEPT !.step = "find", !.key = k, !.slots = slots,
                                         !.meta = meta]]
  /\ UnchangedRows

StartRollback(r, k, to) ==
  /\ req[r].step = "idle" /\ templates[k].row = "kept"
  /\ req' = [req EXCEPT ![r] = [@ EXCEPT !.step = "snapshot", !.key = k, !.to = to,
                                         !.tpl = templates[k]]]
  /\ UnchangedRows

\* The edit that brings back what was filed.
EditTo(k, f) == [Idle EXCEPT !.step = "find", !.key = k, !.slots = f.slots, !.meta = f.meta]

\* The edit that follows reads the template again.
ReadSnapshot(r) ==
  /\ req[r].step = "snapshot"
  /\ \/ \E f \in files :
          /\ f.id = req[r].tpl.id /\ f.version = req[r].to
          /\ req' = [req EXCEPT ![r] = EditTo(req[r].key, f)]
     \/ /\ \A f \in files : f.id # req[r].tpl.id \/ f.version # req[r].to
        /\ Done(r)
  /\ UnchangedRows

FindActive(r) ==
  /\ req[r].step = "find"
  /\ IF templates[req[r].key].row = "kept" /\ ValidSlots(req[r].slots)
     THEN /\ templates[req[r].key].version < MaxVersion
          /\ req' = [req EXCEPT ![r].step = "store", ![r].tpl = templates[req[r].key]]
     ELSE Done(r)
  /\ UnchangedRows

Filed(tpl) == [id |-> tpl.id, version |-> tpl.version, slots |-> tpl.slots,
               meta |-> tpl.meta]

Edited(tpl, slots, meta, version) ==
  [tpl EXCEPT !.slots   = IF slots = None THEN @ ELSE slots,
              !.meta    = IF meta = None THEN @ ELSE meta,
              !.version = version]

\* The template read may have been purged.
StillThere(r) == /\ templates[req[r].key].row # "none"
                 /\ templates[req[r].key].id = req[r].tpl.id

Unfiled(tpl) == \A f \in files : f.id # tpl.id \/ f.version # tpl.version

\* Mutant: a version that was filed is filed again over it.
MutStore(r) ==
  LET q == req[r] IN
  /\ q.step = "store"
  /\ IF StillThere(r)
     THEN /\ files' = {f \in files : f.id # q.tpl.id \/ f.version # q.tpl.version}
                        \cup {Filed(q.tpl)}
          /\ templates' = [templates EXCEPT ![q.key] =
               Edited(@, q.slots, q.meta, q.tpl.version + 1)]
     ELSE UNCHANGED <<files, templates>>
  /\ Done(r) /\ UNCHANGED nextId

Store(r) ==
  LET q == req[r] IN
  /\ q.step = "store"
  /\ IF StillThere(r) /\ Unfiled(q.tpl)
     THEN /\ files' = files \cup {Filed(q.tpl)}
          /\ templates' = [templates EXCEPT ![q.key] =
               Edited(@, q.slots, q.meta, q.tpl.version + 1)]
     ELSE UNCHANGED <<files, templates>>
  /\ Done(r) /\ UNCHANGED nextId

Void(k) ==
  /\ templates[k].row # "none"
  /\ templates' = [templates EXCEPT ![k].row = "voided"]
  /\ UNCHANGED <<files, nextId, req>>

\* Its versions go with it.
Purge(k) ==
  /\ templates[k].row # "none"
  /\ templates' = [templates EXCEPT ![k].row = "none"]
  /\ files' = {f \in files : f.id # templates[k].id}
  /\ UNCHANGED <<nextId, req>>

Restore(k) ==
  /\ templates[k].row # "none"
  /\ templates' = [templates EXCEPT ![k].row = "kept"]
  /\ UNCHANGED <<files, nextId, req>>

\* Each start of a container upserts the templates it ships, one after the other, and
\* may stop half-way.  A template that is stored stays voided or not.  Handlers of other
\* processes may be under way.
SeedTemplate(k) ==
  /\ IF templates[k].row = "none"
     THEN /\ nextId <= MaxIds
          /\ templates' = [templates EXCEPT ![k] =
               [row |-> "kept", id |-> nextId, version |-> 1,
                slots |-> Seed[k].slots, meta |-> Seed[k].meta]]
          /\ nextId' = nextId + 1
     ELSE /\ templates' = [templates EXCEPT ![k].version = 1, ![k].slots = Seed[k].slots,
                                            ![k].meta = Seed[k].meta]
          /\ UNCHANGED nextId
  /\ UNCHANGED <<files, req>>

\* The process stops.
Die(r) == req[r].step # "idle" /\ Done(r) /\ UnchangedRows

Next ==
  \/ \E k \in DOMAIN Seed : SeedTemplate(k)
  \/ \E k \in Key :
       \/ Void(k) \/ Purge(k) \/ Restore(k)
       \/ \E slots \in Slots, meta \in Meta \cup {None} : Create(k, slots, meta)
  \/ \E r \in Req :
       \/ ReadSnapshot(r) \/ FindActive(r) \/ Store(r) \/ Die(r)
       \/ \E k \in Key :
            \/ \E slots \in Slots \cup {None}, meta \in Meta \cup {None} :
                 StartUpdate(r, k, slots, meta)
            \/ \E to \in 1..MaxVersion : StartRollback(r, k, to)

Spec == Init /\ [][Next]_tvars

-----------------------------------------------------------------------------
Content(tpl) == <<tpl.slots, tpl.meta>>

AsSeeded(k, tpl) ==
  /\ k \in DOMAIN Seed /\ tpl.version = 1
  /\ Content(tpl) = <<Seed[k].slots, Seed[k].meta>>

\* While a template is not purged no version of it that was filed is lost or rewritten,
\* and a handler that replaces content files it as it was, under a version of its own,
\* whoever else edits, removes or restores the template meanwhile and however often
\* containers start.  Only such a start replaces content unfiled, and what it has just
\* written may be replaced by a handler that has read, and files, what was there before.
HistoryKept ==
  [][\A k \in Key :
       LET old == templates[k]  new == templates'[k] IN
       old.row # "none" /\ new.row # "none" /\ new.id = old.id =>
         /\ \A f \in files : f.id = old.id => f \in files'
         /\ \/ Content(new) = Content(old)
            \/ AsSeeded(k, new)
            \/ \E f \in files' :
                 /\ f.id = old.id /\ Unfiled(f) /\ new.version = f.version + 1
                 /\ f = Filed(old) \/ AsSeeded(k, old)
    ]_tvars
=============================================================================
