-------------------------------- MODULE Files --------------------------------
(***************************************************************************)
(* Where the files of cases and claims are (src/s3), and what the rows say *)
(* of it.  A file is uploaded to the bucket "tmp", named by a case or a    *)
(* claim, and moved to the bucket "cases": the images of a case when its   *)
(* extraction has succeeded, with a blurred copy, and the attachments of a *)
(* claim while it is created.  A move is several calls of the store and    *)
(* one of the database, all files at once, and may stop anywhere.          *)
(*                                                                         *)
(* Keys of blurred copies are fresh and left out, as are metadata, sizes   *)
(* and content types.  Nothing deletes a file that was moved.              *)
(***************************************************************************)
EXTENDS Integers, FiniteSets

CONSTANTS
  Case, Claim, \* disjoint; each has a directory of its own in the bucket "cases"
  Key,         \* keys of the bucket "tmp"
  MaxMoves     \* bound: files being moved at a time

VARIABLES
  tmp,      \* the bucket "tmp"
  stored,   \* the bucket "cases": files by directory and key
  blurred,  \* their blurred copies
  images,   \* DocumentImage rows; the url is the key, or the place when moved
  attached, \* ClaimAttachment rows
  naming,   \* the handler of each case or claim that has looked for its files
  moving,   \* files being moved, each with the next call to make
  named     \* observed: who has named a key

fvars == <<tmp, stored, blurred, images, attached, naming, moving, named>>

Owner == Case \cup Claim
Image == [case: Case, key: Key, moved: BOOLEAN]
Move  == [step: {"download", "copy", "delete", "row"}, owner: Owner, key: Key]
Naming == [step: {"idle", "checked"}, keys: SUBSET Key, done: SUBSET Key]

TypeOK ==
  /\ tmp \subseteq Key
  /\ stored \subseteq Owner \X Key /\ blurred \subseteq Case \X Key
  /\ images \subseteq Image /\ attached \subseteq Claim \X Key
  /\ naming \in [Owner -> Naming] /\ moving \subseteq Move
  /\ named \in [Key -> SUBSET Owner]

NotNaming == [step |-> "idle", keys |-> {}, done |-> {}]

Init ==
  /\ tmp = {} /\ stored = {} /\ blurred = {} /\ images = {} /\ attached = {}
  /\ naming = [o \in Owner |-> NotNaming]
  /\ moving = {}
  /\ named = [k \in Key |-> {}]

-----------------------------------------------------------------------------
\* The address for an upload is good for a while: the same key may come again.
Upload(k) ==
  /\ tmp' = tmp \cup {k}
  /\ UNCHANGED <<stored, blurred, images, attached, naming, moving, named>>

\* fileExists, of each of them
AllExist(keys) == keys \subseteq tmp

\* filesExists, validateAttachments
CheckFiles(o, keys) ==
  /\ naming[o].step = "idle" /\ keys # {} /\ AllExist(keys)
  /\ naming' = [naming EXCEPT ![o] = [step |-> "checked", keys |-> keys, done |-> {}]]
  /\ named' = [k \in Key |-> IF k \in keys THEN named[k] \cup {o} ELSE named[k]]
  /\ UNCHANGED <<tmp, stored, blurred, images, attached, moving>>

\* The new images of a case replace those it has; no two rows have one url.
NameImages(c) ==
  LET others == {i \in images : i.case # c} IN
  /\ naming[c].step = "checked"
  /\ images' = IF \E i \in others : ~i.moved /\ i.key \in naming[c].keys THEN images
               ELSE others \cup [case: {c}, key: naming[c].keys, moved: {FALSE}]
  /\ naming' = [naming EXCEPT ![c] = NotNaming]
  /\ UNCHANGED <<tmp, stored, blurred, attached, moving, named>>

-----------------------------------------------------------------------------
(* Moves *)

StartMove(o, k, step) ==
  /\ \A m \in moving : m.owner # o \/ m.key # k
  /\ Cardinality(moving) < MaxMoves
  /\ moving' = moving \cup {[step |-> step, owner |-> o, key |-> k]}
  /\ UNCHANGED <<tmp, stored, blurred, images, attached, naming, named>>

\* moveAndBlurImages: each image of the case; one that was moved is not found.
StartImage == \E i \in images : ~i.moved /\ StartMove(i.case, i.key, "download")

StartAttachment(cl) ==
  /\ naming[cl].step = "checked"
  /\ \E k \in naming[cl].keys \ naming[cl].done : StartMove(cl, k, "copy")

Goto(m, step) == moving' = (moving \ {m}) \cup {[m EXCEPT !.step = step]}
Stop(m)       == moving' = moving \ {m}
Place(m)      == <<m.owner, m.key>>

\* downloadFile, blueImage and uploadFile: to stop in between is not to have started.
Blur(m) ==
  /\ m.step = "download" /\ m.key \in tmp
  /\ Goto(m, "copy")
  /\ blurred' = blurred \cup {Place(m)}
  /\ UNCHANGED <<tmp, stored, images, attached, naming, named>>

\* Mutant: the original goes first.
MutCopyFile(m) ==
  /\ m.step = "copy" /\ m.key \in tmp
  /\ Goto(m, "delete")
  /\ tmp' = tmp \ {m.key}
  /\ UNCHANGED <<stored, blurred, images, attached, naming, named>>

\* moveFileToCasesBucket, its two calls
CopyFile(m) ==
  /\ m.step = "copy" /\ m.key \in tmp
  /\ Goto(m, "delete")
  /\ stored' = stored \cup {Place(m)}
  /\ UNCHANGED <<tmp, blurred, images, attached, naming, named>>

DeleteFile(m) ==
  /\ m.step = "delete"
  /\ tmp' = tmp \ {m.key}
  /\ IF m.owner \in Case THEN Goto(m, "row") /\ UNCHANGED naming
     ELSE /\ Stop(m)
          /\ naming' = [naming EXCEPT ![m.owner].done = @ \cup ({m.key} \cap naming[m.owner].keys)]
  /\ UNCHANGED <<stored, blurred, images, attached, named>>

\* The row that still has the key, if there is one.
UpdateImage(m) ==
  LET row(moved) == [case |-> m.owner, key |-> m.key, moved |-> moved] IN
  /\ m.step = "row"
  /\ images' = IF row(FALSE) \in images /\ row(TRUE) \notin images
               THEN (images \ {row(FALSE)}) \cup {row(TRUE)} ELSE images
  /\ Stop(m)
  /\ UNCHANGED <<tmp, stored, blurred, attached, naming, named>>

\* Mutant: the rows are written before the files are moved.
MutAttach(cl) ==
  /\ naming[cl].step = "checked"
  /\ attached' = attached \cup ({cl} \X naming[cl].keys)
  /\ naming' = [naming EXCEPT ![cl] = NotNaming]
  /\ UNCHANGED <<tmp, stored, blurred, images, moving, named>>

\* When all of its files are moved.
Attach(cl) ==
  /\ naming[cl].step = "checked" /\ naming[cl].done = naming[cl].keys
  /\ attached' = attached \cup ({cl} \X naming[cl].keys)
  /\ naming' = [naming EXCEPT ![cl] = NotNaming]
  /\ UNCHANGED <<tmp, stored, blurred, images, moving, named>>

\* A call of a move finds no file or is refused, and the other files go on; the claim
\* whose file it was is refused with it.
Abandon(m) ==
  /\ Stop(m)
  /\ naming' = [o \in Owner |-> IF o \in Claim /\ o = m.owner THEN NotNaming ELSE naming[o]]
  /\ UNCHANGED <<tmp, stored, blurred, images, attached, named>>

Crash ==
  /\ naming' = [o \in Owner |-> NotNaming]
  /\ moving' = {}
  /\ UNCHANGED <<tmp, stored, blurred, images, attached, named>>

Next ==
  \/ \E k \in Key : Upload(k)
  \/ \E o \in Owner, keys \in SUBSET Key : CheckFiles(o, keys)
  \/ \E o \in Case : NameImages(o)
  \/ \E o \in Claim : StartAttachment(o) \/ Attach(o)
  \/ StartImage
  \/ \E m \in moving :
       Blur(m) \/ CopyFile(m) \/ DeleteFile(m) \/ UpdateImage(m) \/ Abandon(m)
  \/ Crash

Spec == Init /\ [][Next]_fvars

-----------------------------------------------------------------------------
\* Wherever a move stops, whatever overlaps and however often it is tried again: a
\* row that says its file was moved is right, the blurred copy included, and a file
\* that only its case has named is still where it was or where it belongs.
NothingLost ==
  /\ \A i \in images :
       LET place == <<i.case, i.key>> IN
       /\ i.moved => place \in stored /\ place \in blurred
       /\ ~i.moved /\ named[i.key] = {i.case} => i.key \in tmp \/ place \in stored
  /\ attached \subseteq stored
=============================================================================
