------------------------------ MODULE MCContent ------------------------------
(* Templates, settings, files and addresses, which share no state: a behaviour *)
(* is of one of them, or of the settings of a user.                            *)
EXTENDS Templates

CONSTANTS SystemKey, Value, Prefix, Channel, OnByDefault, Dotted, Plain, Reader, Remover,
          Case, Claim, FileKey, MaxMoves, Address, Saver,
          top, below, beside \* a prefix, a key below it, and one that only starts like it

VARIABLES
  rows, cache, reads, removals, own, \* of Settings
  tmp, stored, blurred, images, attached, naming, moving, named, \* of Files
  addresses, saves, latest, \* of Addresses
  mode,       \* "templates", "system", "own", "files" or "addresses"
  outdated,   \* keys whose row changed while it was cached or read
  overlapped  \* keys that were read while they were removed

\* A case and a claim are two owners, each with a directory of its own.
ASSUME ContentAssumption == Case \cap Claim = {}

\* What the container ships is one of the contents a template may have.
MCSeed == [k \in Key |-> [slots |-> "a", meta |-> None]]

Under(p)      == IF p = top THEN {top, below} ELSE {p}
StartsWith(p) == IF p = top THEN {top, below, beside} ELSE {p}

S == INSTANCE Settings
F == INSTANCE Files WITH Key <- FileKey
A == INSTANCE Addresses WITH Nowhere <- None

settings == <<rows, cache, reads, removals, own>>
fileVars == <<tmp, stored, blurred, images, attached, naming, moving, named>>
addressVars == <<addresses, saves, latest>>

InFlight(k) == \E r \in Reader : reads[r].key = k
Removing(k) == \E r \in Remover : removals[r] # None /\ k \in Under(removals[r])

MCInit ==
  /\ Init /\ S!Init /\ F!Init /\ A!Init
  /\ mode \in {"templates", "system", "own", "files", "addresses"}
  /\ mode # "system" => rows = [k \in SystemKey |-> None]
  /\ outdated = {} /\ overlapped = {}

SystemStep ==
  \/ S!Restart /\ outdated' = {} /\ overlapped' = {}
  \/ /\ \E r \in Reader : S!FindRow(r) \/ S!FillCache(r) \/ \E k \in SystemKey : S!StartGet(r, k)
     /\ UNCHANGED outdated
     /\ overlapped' = overlapped \cup {k \in SystemKey : (InFlight(k) /\ Removing(k))'}
  \/ /\ \E r \in Remover : S!DeleteRows(r) \/ \E p \in Prefix : S!Uncache(r, p)
     /\ outdated' = {k \in outdated : cache'[k] # None \/ InFlight(k)}
     /\ overlapped' = overlapped \cup {k \in SystemKey : (InFlight(k) /\ Removing(k))'}
  \/ \E k \in SystemKey, v \in Value :
       /\ S!SetSystem(k, v)
       /\ outdated' = IF cache[k] # None \/ InFlight(k) THEN outdated \cup {k} ELSE outdated
       /\ UNCHANGED overlapped

Elsewhere == UNCHANGED <<outdated, overlapped>>

MCNext ==
  /\ \/ mode = "templates" /\ Next /\ Elsewhere /\ UNCHANGED <<settings, fileVars, addressVars>>
     \/ mode = "system" /\ SystemStep /\ UNCHANGED <<tvars, fileVars, addressVars>>
     \/ mode = "own" /\ S!OwnNext /\ Elsewhere /\ UNCHANGED <<tvars, fileVars, addressVars>>
     \/ mode = "files" /\ F!Next /\ Elsewhere /\ UNCHANGED <<tvars, settings, addressVars>>
     \/ mode = "addresses" /\ A!Next /\ Elsewhere /\ UNCHANGED <<tvars, settings, fileVars>>
  /\ UNCHANGED mode

MCSpec == MCInit /\ [][MCNext]_<<tvars, settings, fileVars, addressVars, mode, outdated, overlapped>>

\* A value in use is the one that is stored: a delete of a key or a prefix leaves no
\* copy behind that nothing read meanwhile, and only an edit of a value in use is not
\* seen until the process starts again.
CacheIsFresh ==
  \A k \in SystemKey \ (outdated \cup overlapped) : cache[k] \in {None, rows[k]}

\* Where the files of cases and claims are is what their rows say: see Files.
NothingLost == F!NothingLost

\* No address comes to be preferred again by itself: see Addresses.
PreferredIsLatest == A!PreferredIsLatest

\* "User opt-outs: user has disabled a channel globally in their settings": see
\* Settings.
OptOutHonoured == S!OptOutHonoured
=============================================================================
