------------------------------- MODULE Addresses -------------------------------
(***************************************************************************)
(* The addresses of a user and which of them is preferred (src/address).   *)
(* To save an address as the preferred one is a transaction: the others    *)
(* that are seen to be preferred are no longer, and the address is.  What  *)
(* another transaction is about to do is not seen, and nothing else keeps  *)
(* two addresses from being preferred.                                     *)
(*                                                                         *)
(* Users share no address: the model has one.                              *)
(***************************************************************************)
EXTENDS Integers

CONSTANTS
  Address,
  Saver,   \* slots for transactions in flight
  Nowhere  \* null

VARIABLES
  addresses, \* Address rows
  saves,     \* transactions in flight: the address, the others seen to be preferred
  latest     \* observed: what the last save, and all since, may leave preferred

avars == <<addresses, saves, latest>>

AddressRow == [row: {"none", "kept", "voided"}, preferred: BOOLEAN]

\* missed: observed, what became preferred since the others were looked up.
Save == [id: Address \cup {Nowhere}, create: BOOLEAN,
         others: SUBSET Address, missed: SUBSET Address]

TypeOK ==
  /\ addresses \in [Address -> AddressRow]
  /\ saves \in [Saver -> Save]
  /\ latest \subseteq Address

NoSave == [id |-> Nowhere, create |-> FALSE, others |-> {}, missed |-> {}]

Init ==
  /\ addresses = [a \in Address |-> [row |-> "none", preferred |-> FALSE]]
  /\ saves = [s \in Saver |-> NoSave]
  /\ latest = {}

Preferred == {a \in Address : addresses[a].row = "kept" /\ addresses[a].preferred}

\* The address a is preferred from now on, which transactions in flight do not see.
Missing(a, slots) ==
  [s \in Saver |-> IF slots[s] = NoSave THEN NoSave
                   ELSE [slots[s] EXCEPT !.missed = @ \cup {a}]]

-----------------------------------------------------------------------------
\* Saved without being preferred; an edit may leave that as it is, or undo it.
SavePlain(a, preferred) ==
  /\ addresses[a].row = "none" => ~preferred
  /\ preferred => addresses[a].preferred
  /\ addresses' = [addresses EXCEPT ![a] =
       [row |-> IF @.row = "none" THEN "kept" ELSE @.row, preferred |-> preferred]]
  /\ UNCHANGED <<saves, latest>>

\* Mutant: an edit leaves the others alone.
MutStartSave(s, a) ==
  /\ saves[s] = NoSave
  /\ addresses[a].row = "none" => \A t \in Saver : saves[t].id # a
  /\ saves' = [saves EXCEPT ![s] =
       [id |-> a, create |-> addresses[a].row = "none", missed |-> {},
        others |-> IF addresses[a].row = "none" THEN Preferred ELSE {}]]
  /\ UNCHANGED <<addresses, latest>>

\* create and update: the others are looked up.  A new address is of one transaction;
\* a voided one can be edited, and stays voided.
StartSave(s, a) ==
  /\ saves[s] = NoSave
  /\ addresses[a].row = "none" => \A t \in Saver : saves[t].id # a
  /\ saves' = [saves EXCEPT ![s] =
       [id |-> a, create |-> addresses[a].row = "none", missed |-> {},
        others |-> Preferred \ {a}]]
  /\ UNCHANGED <<addresses, latest>>

\* The row is written and the transaction ends; one that was purged meanwhile, or a
\* crash, ends it without any change.
CommitSave(s) ==
  LET save == saves[s] a == save.id IN
  /\ a # Nowhere
  /\ save.create \/ addresses[a].row # "none"
  /\ addresses' = [b \in Address |->
       IF b = a THEN [row |-> IF save.create THEN "kept" ELSE addresses[a].row,
                      preferred |-> TRUE]
       ELSE IF b \in save.others /\ addresses[b].row = "kept"
       THEN [addresses[b] EXCEPT !.preferred = FALSE]
       ELSE addresses[b]]
  /\ saves' = Missing(a, [saves EXCEPT ![s] = NoSave])
  /\ latest' = {a} \cup save.missed

Rollback(s) ==
  /\ saves[s] # NoSave
  /\ saves' = [saves EXCEPT ![s] = NoSave]
  /\ UNCHANGED <<addresses, latest>>

Delete(a, purge) ==
  /\ addresses[a].row # "none"
  /\ addresses' = [addresses EXCEPT ![a] =
       IF purge THEN [row |-> "none", preferred |-> FALSE] ELSE [@ EXCEPT !.row = "voided"]]
  /\ UNCHANGED <<saves, latest>>

\* It comes back as it was.
Restore(a) ==
  /\ addresses[a].row # "none"
  /\ addresses' = [addresses EXCEPT ![a].row = "kept"]
  /\ IF addresses[a].preferred
     THEN latest' = latest \cup {a} /\ saves' = Missing(a, saves)
     ELSE UNCHANGED <<saves, latest>>

Next ==
  \/ \E a \in Address, answer \in BOOLEAN :
       SavePlain(a, answer) \/ Delete(a, answer) \/ Restore(a)
  \/ \E s \in Saver : CommitSave(s) \/ Rollback(s) \/ \E a \in Address : StartSave(s, a)

Spec == Init /\ [][Next]_avars

-----------------------------------------------------------------------------
\* An address that was preferred before comes back as such only by being restored:
\* preferred are at most the one that was saved as such last, what was saved while
\* that was under way, and what was restored since.  To save one with nothing else
\* under way leaves one.
PreferredIsLatest == Preferred \subseteq latest
=============================================================================
