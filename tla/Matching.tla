------------------------------ MODULE Matching ------------------------------
(***************************************************************************)
(* How a submitted lost case and a verified found case become a match      *)
(* (src/document-cases/document.processor.ts, src/docai embeddings,        *)
(* src/matching).                                                          *)
(*                                                                         *)
(* Submitting a lost case and verifying a found one each start the same    *)
(* pipeline for the case's document: a job of the embedding queue stores   *)
(* the vector of its text, the completed event of that job queues a job    *)
(* that searches the other side, scores the candidates, writes a match per *)
(* survivor and tells both users.  Nothing coordinates the two sides.      *)
(*                                                                         *)
(* A document's data is the text it has; two texts are alike when they are *)
(* equal and not empty (ExactMatch has the scoring).  A vector is stored   *)
(* in a column of its dimension, which the embedding model decides.  Jobs  *)
(* are kept by BullMQ over a crash and run again; their completed event is *)
(* not.                                                                    *)
(***************************************************************************)
EXTENDS Integers, FiniteSets

CONSTANTS
  Lost, Found, \* the cases, each with its document
  Text,        \* texts a document can have
  User, Owner, \* who reported each case
  Staff,       \* who verifies found cases
  Empty,       \* the text of a document without fields
  Attempts,    \* attempts of a job
  MaxDisturbed \* bound: edits and faults together

Doc == Lost \cup Found
Dims == {768, 1536}

ConstantsOK ==
  /\ Lost \cap Found = {} /\ Owner \in [Doc -> User] /\ Staff \subseteq User
  /\ Empty \notin Text /\ Attempts \in Nat \ {0}
  /\ MaxDisturbed \in Nat

VARIABLES
  text,    \* the document's fields now
  open,    \* a lost case that is SUBMITTED, a found case that is VERIFIED
  vector,  \* the text each vector column of a document was made from
  dims,    \* the dimension the embedding service answers with
  pipe,    \* the pipeline of each document
  match,   \* Match row of each pair
  told,    \* observed: pairs whose users were told
  edits,   \* observed: edits, changes of the model and rejections
  faults   \* observed: crashes and refused additions to a queue

vars == <<text, open, vector, dims, pipe, match, told, edits, faults>>

Step == {"idle", "unqueued", "embedQueued", "embedding", "embedded",
         "matchQueued", "searching", "scored", "writing", "persisted",
         "done", "dead", "forgotten"}

NoText == "null"

\* by: the job's userId; made: attempts that failed; read: the text a step read;
\* at: the dimension it was answered with; candidates: still to be written;
\* seen: those of them that had a row; kept: written ones.
Pipe == [step: Step, by: User \cup {NoText}, made: Nat,
         read: Text \cup {Empty, NoText}, at: Dims \cup {0},
         candidates: SUBSET Doc, seen: SUBSET Doc, kept: SUBSET Doc]

Idle == [step |-> "idle", by |-> NoText, made |-> 0, read |-> NoText, at |-> 0,
         candidates |-> {}, seen |-> {}, kept |-> {}]

TypeOK ==
  /\ text \in [Doc -> Text \cup {Empty}]
  /\ open \subseteq Doc
  /\ vector \in [Doc -> [Dims -> Text \cup {Empty, NoText}]]
  /\ dims \in Dims
  /\ pipe \in [Doc -> Pipe]
  /\ match \in [Lost \X Found -> {"none", "PENDING", "REJECTED"}]
  /\ told \subseteq Lost \X Found
  /\ edits \in Nat /\ faults \in Nat /\ edits + faults <= MaxDisturbed

Init ==
  /\ text \in [Doc -> Text \cup {Empty}]
  /\ open = {}
  /\ vector = [d \in Doc |-> [n \in Dims |-> NoText]]
  /\ dims = 768
  /\ pipe = [d \in Doc |-> Idle]
  /\ match = [p \in Lost \X Found |-> "none"]
  /\ told = {} /\ edits = 0 /\ faults = 0

-----------------------------------------------------------------------------
At(d, step)   == pipe[d].step = step
Goto(d, step) == pipe' = [pipe EXCEPT ![d].step = step]

\* The job carries the caller.
Open(d, user) ==
  /\ d \notin open
  /\ open' = open \cup {d}
  /\ pipe' = [pipe EXCEPT ![d] = [Idle EXCEPT !.step = "unqueued", !.by = user]]
  /\ UNCHANGED <<text, vector, dims, match, told, edits, faults>>

SubmitLostCase(l)         == Open(l, Owner[l])
VerifyFoundCase(f, staff) == Open(f, staff)

UnchangedByQueue == UNCHANGED <<text, open, vector, dims, match, told, edits>>

\* Nobody awaits the addition to the embedding queue.
QueueEmbedding(d) ==
  /\ At(d, "unqueued") /\ Goto(d, "embedQueued")
  /\ UnchangedByQueue /\ UNCHANGED faults

\* Mutant: no search follows.
MutQueueMatching(d) ==
  /\ At(d, "embedded") /\ Goto(d, "done")
  /\ UnchangedByQueue /\ UNCHANGED faults

\* The completed event of the embedding job.
QueueMatching(d) ==
  /\ At(d, "embedded")
  /\ pipe' = [pipe EXCEPT ![d].step = "matchQueued", ![d].made = 0]
  /\ UnchangedByQueue /\ UNCHANGED faults

\* The queue's store is down: an error in the log.
QueueRefuses(d) ==
  /\ pipe[d].step \in {"unqueued", "embedded"} /\ edits + faults < MaxDisturbed
  /\ faults' = faults + 1 /\ Goto(d, "forgotten")
  /\ UnchangedByQueue

-----------------------------------------------------------------------------
(* The embedding job *)

ReadToEmbed(d) ==
  /\ At(d, "embedQueued")
  /\ pipe' = [pipe EXCEPT ![d].step = "embedding", ![d].read = text[d]]
  /\ UnchangedByQueue /\ UNCHANGED faults

\* docai answers with the vector of the text read and the vector is stored; the
\* column of the other dimension keeps what it has.
StoreVector(d) ==
  /\ At(d, "embedding")
  /\ vector' = [vector EXCEPT ![d][dims] = pipe[d].read]
  /\ pipe' = [pipe EXCEPT ![d].step = "embedded", ![d].read = NoText]
  /\ UNCHANGED <<text, open, dims, match, told, edits, faults>>

\* docai cannot be reached: the job is tried again from its start.
Retry(d, step, again) ==
  /\ At(d, step)
  /\ pipe' = [pipe EXCEPT ![d] =
        [Idle EXCEPT !.step = IF pipe[d].made + 1 < Attempts THEN again ELSE "dead",
                     !.by = pipe[d].by, !.made = pipe[d].made + 1]]
  /\ UnchangedByQueue /\ UNCHANGED faults

EmbedFails(d) ==
  Retry(d, "embedding", "embedQueued") \/ Retry(d, "searching", "matchQueued")

-----------------------------------------------------------------------------
(* The matching job *)

\* getDocumentSearchEmbedding
ReadToSearch(d) ==
  /\ At(d, "matchQueued")
  /\ pipe' = [pipe EXCEPT ![d].step = "searching", ![d].read = text[d],
                          ![d].at = dims]
  /\ UnchangedByQueue /\ UNCHANGED faults

\* A query: open cases of one side whose vector is like the one searched for, of
\* another reporter than the given user.  Its limit (20) is not met.
FindCandidates(side, searched, column, user) ==
  {c \in side \cap open : vector[c][column] = searched /\ Owner[c] # user}

FindFoundCandidates(searched, column, user) ==
  FindCandidates(Found, searched, column, user)
FindLostCandidates(searched, column, user) ==
  FindCandidates(Lost, searched, column, user)

\* Mutant: only documents that have been through their own search.
MutCandidates(d) ==
  {c \in IF d \in Lost
           THEN FindFoundCandidates(pipe[d].read, pipe[d].at, pipe[d].by)
           ELSE FindLostCandidates(pipe[d].read, pipe[d].at, pipe[d].by) :
     At(c, "done")}

\* The other side, with the fields it has at this moment.
Candidates(d) ==
  IF d \in Lost THEN FindFoundCandidates(pipe[d].read, pipe[d].at, pipe[d].by)
  ELSE FindLostCandidates(pipe[d].read, pipe[d].at, pipe[d].by)

\* The scoring keeps those whose fields are like the ones read.
Search(d) ==
  LET survivors == {c \in Candidates(d) : text[c] = pipe[d].read /\ text[c] # Empty}
  IN /\ At(d, "searching")
     /\ pipe' = [pipe EXCEPT
          ![d] = [@ EXCEPT !.step = IF survivors = {} THEN "done" ELSE "scored",
                           !.read = NoText, !.at = 0, !.candidates = survivors]]
     /\ UnchangedByQueue /\ UNCHANGED faults

Pair(d, c) == IF d \in Lost THEN <<d, c>> ELSE <<c, d>>

\* The upserts of all survivors run together; each first looks for its row.
LookForRows(d) ==
  /\ At(d, "scored")
  /\ pipe' = [pipe EXCEPT ![d].step = "writing",
        ![d].seen = {c \in pipe[d].candidates : match[Pair(d, c)] # "none"}]
  /\ UnchangedByQueue /\ UNCHANGED faults

\* Mutant: a row that was there is not told of again.
MutUpsertMatch(d, c) ==
  LET row == match[Pair(d, c)] IN
  /\ At(d, "writing") /\ c \in pipe[d].candidates
  /\ match' = [match EXCEPT ![Pair(d, c)] = IF row = "none" THEN "PENDING" ELSE @]
  /\ pipe' = [pipe EXCEPT ![d] =
       [@ EXCEPT !.candidates = @ \ {c}, !.seen = @ \ {c},
                 !.kept = IF row = "none" THEN @ \cup {c} ELSE @,
                 !.step = IF pipe[d].candidates = {c} THEN "persisted" ELSE @]]
  /\ UNCHANGED <<text, open, vector, dims, told, edits, faults>>

\* Mutant: the update writes the status a new row has.
MutUpsertMatchStatus(d, c) ==
  /\ At(d, "writing") /\ c \in pipe[d].candidates
  /\ match' = [match EXCEPT ![Pair(d, c)] = "PENDING"]
  /\ pipe' = [pipe EXCEPT ![d] =
       [@ EXCEPT !.candidates = @ \ {c}, !.seen = @ \ {c}, !.kept = @ \cup {c},
                 !.step = IF pipe[d].candidates = {c} THEN "persisted" ELSE @]]
  /\ UNCHANGED <<text, open, vector, dims, told, edits, faults>>

\* A row that was there gets new scores and keeps its status; one that has appeared
\* since makes the upsert fail, which allSettled only logs.
UpsertMatch(d, c) ==
  LET row  == match[Pair(d, c)]
      seen == c \in pipe[d].seen
  IN /\ At(d, "writing") /\ c \in pipe[d].candidates
     /\ match' = IF ~seen /\ row = "none"
                   THEN [match EXCEPT ![Pair(d, c)] = "PENDING"] ELSE match
     /\ pipe' = [pipe EXCEPT ![d] =
          [pipe[d] EXCEPT !.candidates = @ \ {c}, !.seen = @ \ {c},
                          !.kept = IF seen \/ row = "none" THEN @ \cup {c} ELSE @,
                          !.step = IF pipe[d].candidates = {c} THEN "persisted" ELSE @]]
     /\ UNCHANGED <<text, open, vector, dims, told, edits, faults>>

\* The completed event of the matching job.
Notify(d) ==
  /\ At(d, "persisted")
  /\ told' = told \cup {Pair(d, c) : c \in pipe[d].kept}
  /\ pipe' = [pipe EXCEPT ![d].step = "done", ![d].kept = {}]
  /\ UNCHANGED <<text, open, vector, dims, match, edits, faults>>

-----------------------------------------------------------------------------
(* Around the pipeline *)

Disturbed == edits + faults < MaxDisturbed /\ edits' = edits + 1

\* An edit of the document, or the extraction that comes after the submission.
EditText(d, t) ==
  /\ text[d] # t /\ Disturbed
  /\ text' = [text EXCEPT ![d] = t]
  /\ UNCHANGED <<open, vector, dims, pipe, match, told, faults>>

\* Purging; hiding a row hides it from nothing here.
RemoveMatch(p) ==
  /\ match[p] # "none" /\ Disturbed
  /\ match' = [match EXCEPT ![p] = "none"]
  /\ UNCHANGED <<text, open, vector, dims, pipe, told, faults>>

SwitchModel ==
  /\ Disturbed /\ dims' \in Dims \ {dims}
  /\ UNCHANGED <<text, open, vector, pipe, match, told, faults>>

RejectMatch(p) ==
  /\ match[p] = "PENDING" /\ Disturbed
  /\ match' = [match EXCEPT ![p] = "REJECTED"]
  /\ UNCHANGED <<text, open, vector, dims, pipe, told, faults>>

\* Jobs under way start again, what is only in memory is forgotten.
AfterCrash(p) ==
  CASE p.step = "embedding" -> [p EXCEPT !.step = "embedQueued", !.read = NoText]
    [] p.step \in {"searching", "scored", "writing"} ->
         [Idle EXCEPT !.step = "matchQueued", !.by = p.by, !.made = p.made]
    [] p.step \in {"unqueued", "embedded", "persisted"} ->
         [p EXCEPT !.step = "forgotten"]
    [] OTHER -> p

Crash ==
  /\ edits + faults < MaxDisturbed /\ faults' = faults + 1
  /\ pipe' = [d \in Doc |-> AfterCrash(pipe[d])]
  /\ UNCHANGED <<text, open, vector, dims, match, told, edits>>

-----------------------------------------------------------------------------
Work(d) ==
  \/ QueueEmbedding(d) \/ ReadToEmbed(d) \/ StoreVector(d) \/ QueueMatching(d)
  \/ ReadToSearch(d) \/ Search(d) \/ LookForRows(d) \/ Notify(d)
  \/ EmbedFails(d)
  \/ \E c \in Doc : UpsertMatch(d, c)

EditMatches == \E p \in Lost \X Found : RejectMatch(p) \/ RemoveMatch(p)

Next ==
  \/ \E l \in Lost : SubmitLostCase(l)
  \/ \E f \in Found, staff \in Staff : VerifyFoundCase(f, staff)
  \/ \E d \in Doc : Work(d) \/ QueueRefuses(d)
  \/ \E d \in Doc, t \in Text \cup {Empty} : EditText(d, t)
  \/ EditMatches
  \/ SwitchModel
  \/ Crash

Spec == Init /\ [][Next]_vars

\* The queues' workers run, and what the process awaits comes back.
FairSpec == Spec /\ \A d \in Doc : WF_vars(Work(d))

-----------------------------------------------------------------------------
(* Properties *)

\* Two open cases that some search may put together.
Alike(l, f) ==
  /\ {l, f} \subseteq open
  /\ text[l] = text[f] /\ text[l] # Empty
  /\ Owner[f] # pipe[l].by /\ Owner[l] # pipe[f].by

\* Neither side waits for the other, yet one of the two finds the other whatever the
\* order of their steps: each stores its vector before it searches.
NoMissedMatch ==
  edits = 0 =>
    \A l \in Lost, f \in Found :
      Alike(l, f) /\ At(l, "done") /\ At(f, "done") => match[<<l, f>>] # "none"

\* The users of a match are told, also when both sides write it at once and one of
\* the writes fails, or when a crash makes a job run again (which finds nothing any
\* more if the text has been edited since).
MatchIsTold ==
  edits = 0 \/ faults = 0 =>
  \A l \in Lost, f \in Found :
    match[<<l, f>>] # "none" /\ At(l, "done") /\ At(f, "done") => <<l, f>> \in told

\* A search that finds the pair again does not take a rejection back.
RejectionStands ==
  [][\A p \in DOMAIN match :
        match[p] = "REJECTED" => match'[p] \in {"REJECTED", "none"}]_vars

\* Two alike cases are matched in the end unless docai stayed away for every attempt
\* of a job, a fault lost a job, or somebody edited.
AlikeAreMatched ==
  \A l \in Lost, f \in Found :
    Alike(l, f) ~> \/ match[<<l, f>>] # "none" \/ edits > 0
                   \/ {pipe[l].step, pipe[f].step} \cap {"dead", "forgotten"} # {}

=============================================================================
