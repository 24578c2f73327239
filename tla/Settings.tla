------------------------------- MODULE Settings -------------------------------
(***************************************************************************)
(* Settings (src/common/settings).  Those of the system are rows with a    *)
(* copy in the memory of the process, which a read fills and only a delete *)
(* and a restart empty; the handler an administrator sets them by writes   *)
(* the row alone.  Those of a user are read from their rows each time:     *)
(* here the notification preferences, which are stored as text, brought    *)
(* back to values and parsed through a schema.                             *)
(*                                                                         *)
(* Public flags, descriptions, numbers and searches are left out, and so   *)
(* is SystemSettingService.set, which nothing calls.                       *)
(***************************************************************************)
EXTENDS Integers

CONSTANTS
  SystemKey, Value,
  Prefix,
  Under(_),      \* the prefix itself, or a key below it
  StartsWith(_), \* keys whose text starts with the prefix's
  Channel,
  OnByDefault,   \* channels
  Dotted,        \* keys of templates with a dot in them
  Plain,         \* and without one
  Reader, Remover, \* slots for handlers in flight
  None

VARIABLES
  rows,    \* Setting rows of "*", by key
  cache,   \* systemCache
  reads, removals, \* handlers in flight
  own      \* Setting rows of a user, by notification preference

svars == <<rows, cache, reads, removals, own>>

\* What a user may set: a channel for one template, or with None for all.
Preference == (Dotted \cup Plain \cup {None}) \X Channel
Text       == {"true", "false", "1", "0", "TRUE", "FALSE"}

TypeOK ==
  /\ rows \in [SystemKey -> Value \cup {None}]
  /\ cache \in [SystemKey -> Value \cup {None}]
  /\ reads \in [Reader -> [step: {"idle", "find", "fill"}, key: SystemKey \cup {None},
                          row: Value \cup {None}]]
  /\ removals \in [Remover -> Prefix \cup {None}]
  /\ own \in [Preference -> Text \cup {None}]

NoRead == [step |-> "idle", key |-> None, row |-> None]

Init ==
  /\ rows \in [SystemKey -> Value \cup {None}]
  /\ cache = [k \in SystemKey |-> None]
  /\ reads = [r \in Reader |-> NoRead]
  /\ removals = [r \in Remover |-> None]
  /\ own = [p \in Preference |-> None]

-----------------------------------------------------------------------------
(* Settings of the system *)

\* A cached value is used as it is.
StartGet(r, k) ==
  /\ reads[r] = NoRead /\ cache[k] = None
  /\ reads' = [reads EXCEPT ![r].step = "find", ![r].key = k]
  /\ UNCHANGED <<rows, cache, removals, own>>

FindRow(r) ==
  /\ reads[r].step = "find"
  /\ reads' = [reads EXCEPT ![r].step = "fill", ![r].row = rows[reads[r].key]]
  /\ UNCHANGED <<rows, cache, removals, own>>

\* The default is not cached.
FillCache(r) ==
  /\ reads[r].step = "fill"
  /\ cache' = IF reads[r].row = None THEN cache
              ELSE [cache EXCEPT ![reads[r].key] = reads[r].row]
  /\ reads' = [reads EXCEPT ![r] = NoRead]
  /\ UNCHANGED <<rows, removals, own>>

SetSystem(k, v) ==
  /\ rows' = [rows EXCEPT ![k] = v]
  /\ UNCHANGED <<cache, reads, removals, own>>

\* Mutant: the keys below a prefix stay cached.
MutUncache(r, p) ==
  /\ removals[r] = None
  /\ cache' = [k \in SystemKey |-> IF k = p THEN None ELSE cache[k]]
  /\ removals' = [removals EXCEPT ![r] = p]
  /\ UNCHANGED <<rows, reads, own>>

Uncache(r, p) ==
  /\ removals[r] = None
  /\ cache' = [k \in SystemKey |-> IF k \in StartsWith(p) THEN None ELSE cache[k]]
  /\ removals' = [removals EXCEPT ![r] = p]
  /\ UNCHANGED <<rows, reads, own>>

DeleteRows(r) ==
  /\ removals[r] # None
  /\ rows' = [k \in SystemKey |-> IF k \in Under(removals[r]) THEN None ELSE rows[k]]
  /\ removals' = [removals EXCEPT ![r] = None]
  /\ UNCHANGED <<cache, reads, own>>

\* The container that starts makes the rows that are missing, as far as it gets.
Restart ==
  /\ rows' \in {made \in [SystemKey -> Value \cup {None}] :
                 \A k \in SystemKey : rows[k] # None => made[k] = rows[k]}
  /\ cache' = [k \in SystemKey |-> None]
  /\ reads' = [r \in Reader |-> NoRead]
  /\ removals' = [r \in Remover |-> None]
  /\ UNCHANGED own

-----------------------------------------------------------------------------
(* Preferences of a user *)

SetOwn(p, text) ==
  /\ own' = [own EXCEPT ![p] = text]
  /\ UNCHANGED <<rows, cache, reads, removals>>

\* An object is flattened into one row per preference it has, whether it is one of
\* the system or not.
SetObject(texts) ==
  /\ own' = [p \in Preference |-> IF p \in DOMAIN texts THEN texts[p] ELSE own[p]]
  /\ UNCHANGED <<rows, cache, reads, removals>>

DeleteOwn(removed) ==
  /\ own' = [p \in Preference |-> IF p \in removed THEN None ELSE own[p]]
  /\ UNCHANGED <<rows, cache, reads, removals>>

\* autoCoerce: what becomes of a row's text before it is parsed.
Coerced(text) == CASE text \in {"true", "false"} -> "boolean"
                   [] text \in {"1", "0"}        -> "number"
                   [] OTHER                      -> "string"

\* The schema takes a channel as text and a template's channel as a boolean.  A dot in
\* a template's key nests its preference one level too deep.
Parses(p) ==
  \/ own[p] = None
  \/ p[1] = None /\ Coerced(own[p]) = "string"
  \/ p[1] \in Plain /\ Coerced(own[p]) = "boolean"

\* One preference that does not parse, and all of them are the defaults.
HasOwn(p) == own[p] # None /\ \A q \in Preference : Parses(q)

Wanted(c) == IF HasOwn(<<None, c>>) THEN own[None, c] = "TRUE" ELSE c \in OnByDefault

GetAllowedChannels(requested, template) ==
  {c \in requested : IF HasOwn(<<template, c>>) /\ template # None
                     THEN own[template, c] = "true" ELSE Wanted(c)}

-----------------------------------------------------------------------------
SystemNext ==
  \/ \E k \in SystemKey : \/ \E r \in Reader : StartGet(r, k)
                          \/ \E v \in Value : SetSystem(k, v)
  \/ \E r \in Reader : FindRow(r) \/ FillCache(r)
  \/ \E r \in Remover : DeleteRows(r) \/ \E p \in Prefix : Uncache(r, p)
  \/ Restart

OwnNext ==
  \/ \E p \in Preference, text \in Text : SetOwn(p, text)
  \/ \E some \in SUBSET Preference :
       \/ \E texts \in [some -> Text] : SetObject(texts)
       \/ DeleteOwn(some)

Next == SystemNext \/ OwnNext

Spec == Init /\ [][Next]_svars

-----------------------------------------------------------------------------
\* "User opt-outs: user has disabled a channel globally in their settings": a channel
\* set to false is not used for a template without a preference of its own.
OptOutHonoured ==
  \A c \in Channel : own[None, c] = "false" => c \notin GetAllowedChannels(Channel, None)
=============================================================================
