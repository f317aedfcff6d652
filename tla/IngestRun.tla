------------------------------ MODULE IngestRun ------------------------------
(***************************************************************************)
(* One run of `kb ingest` after another on a data directory: ingest() and  *)
(* _ingest_one() of ingest.py with the checkpoint of ingest_recovery.py.   *)
(*                                                                         *)
(* The runs exclude each other (module IngestLock), so there is at most    *)
(* one, whose local variables are `run`.  It may be killed, interrupted or *)
(* hit an error between any two writes to disk: each step below makes at   *)
(* most one of the writes the properties speak of.  The providers are      *)
(* external: the candidates they extract and the verdicts they give are    *)
(* arbitrary, and may differ when a file is processed again.               *)
(*                                                                         *)
(* A definition marked "Faulty" is not part of the specification: it is a  *)
(* way the one after it could be wrong that a property below rules out.    *)
(***************************************************************************)
EXTENDS Naturals, Sequences, FiniteSets

CONSTANTS
  Files,        \* documents that may be ingested: each a content at a path
  Path,         \* the path of each; one may arrive where another has been
  Outside,      \* those that are not under raw/, given on the command line
  Unsupported,  \* those whose suffix is not in SUPPORTED_SUFFIXES
  Unreadable,   \* those that parse_ingest_file refuses
  Hashes,       \* contents, by their sha256 digest
  Hash,         \* the content of each file
  Titles,       \* candidate titles (lower-cased) a provider may extract
  Reasons,      \* wordings of the reason of a classification review
  Verdicts,     \* the integration verdicts that occur besides "unrelated"
  None

ASSUME FileAssumption ==
  /\ Outside \subseteq Files /\ Unsupported \subseteq Files /\ Unreadable \subseteq Files
  /\ Hash \in [Files -> Hashes]
  /\ \A f \in Outside, g \in Files : Path[f] = Path[g] => f = g
  /\ Verdicts \subseteq {"identical", "adds_nuance", "contradicts"}
ASSUME NoneAssumption == None \notin Files \cup Titles \cup Reasons

VARIABLES
  place,   \* where each file is
  ledger,  \* .kb/ingested.json
  notes,   \* the notes under topics/, in order of creation
  review,  \* review/review-items.json
  index,   \* the generated indexes: "none" yet, "fresh" or "stale"
  ckpt,    \* the "ingest" entry of .kb/state.json
  run      \* the local variables of the run, if one is on

durable == <<place, ledger, notes, review, index, ckpt>>
vars == <<place, ledger, notes, review, index, ckpt, run>>

-----------------------------------------------------------------------------
Places   == {"absent", "raw", "outside", "processed", "duplicates"}
Entry    == [file : Files, hash : Hashes, status : {"success", "duplicate", "error"}]
Dispute  == Hashes \X Titles
Note     == [title : Titles, origin : Hashes, sources : SUBSET Files,
             disputes : SUBSET Dispute]
Queues   == {"classification", "merge", "dispute", "duplicate", "unsupported",
             "parser-failure"}
(* An item is the key its fingerprint is made of: adding it twice is one.  *)
Item     == [queue : Queues, hash : Hashes, title : Titles \cup {None},
             reason : Reasons \cup {None}]
Checkpoint == [status : {"none", "running", "error", "complete"},
               pending : SUBSET Files, current : Files \cup {None},
               archived : BOOLEAN]

(* Where a run is.  Inside the try block of the loop an exception the loop *)
(* catches can strike.                                                     *)
TryLabels == {"opened", "parsed", "dup", "duprecord", "dupqueue", "cand", "verdict",
              "append", "dispute", "reindex", "record", "complete"}
Labels == TryLabels \cup {"off", "next", "caught", "refused", "queuefailure",
                        "recorderror"}

Locals == [at : Labels, force : BOOLEAN, queue : SUBSET Files,
           file : Files \cup {None}, errors : BOOLEAN, archived : BOOLEAN,
           cands : SUBSET Titles, due : SUBSET Titles, cand : Titles \cup {None},
           targets : SUBSET Nat, same : SUBSET (Titles \X Nat),
           mutated : BOOLEAN, loaded : Seq(Note)]

NoRun == [at |-> "off", force |-> FALSE, queue |-> {}, file |-> None,
          errors |-> FALSE, archived |-> FALSE, cands |-> {}, due |-> {},
          cand |-> None, targets |-> {}, same |-> {}, mutated |-> FALSE,
          loaded |-> << >>]

-----------------------------------------------------------------------------
Exists(f) == place[f] \in {"raw", "outside"}

(* The document that is now where f is, or was.                            *)
AtPathOf(f) == {g \in Files : Exists(g) /\ Path[g] = Path[f]}

Resumable == ckpt.status \in {"running", "error"}

(* The file in hand and its content.                                       *)
File   == run.file
Digest == Hash[run.file]

At(label) == run.at = label
Goto(label) == run' = [run EXCEPT !.at = label]

(* The file's turn is over: on to the next one.                            *)
EndTurn == [NoRun EXCEPT !.at = "next", !.force = run.force, !.queue = run.queue,
                         !.errors = run.errors]

(* The candidate in hand is dealt with: on to the next one.                *)
NextCandidate == [run EXCEPT !.at = "cand", !.cand = None, !.mutated = FALSE,
                             !.cands = @ \ {run.cand}]

ItemFor(queue, reason) ==
  [queue |-> queue, hash |-> Digest, title |-> run.cand, reason |-> reason]

Stale == IF index = "fresh" THEN "stale" ELSE index

Init ==
  /\ place \in [Files -> {"absent", "raw", "outside"}]
  /\ \A f \in Files : place[f] = "outside" <=> f \in Outside
  /\ \A f, g \in Files : Exists(f) /\ g \in AtPathOf(f) => g = f
  /\ ledger = {} /\ notes = << >> /\ review = {} /\ index = "none"
  /\ ckpt = [status |-> "none", pending |-> {}, current |-> None, archived |-> FALSE]
  /\ run = NoRun

(* The user, or `kb add`, puts a document into raw/; its path may be that  *)
(* of one that has been archived.                                          *)
Arrive(f) ==
  /\ place[f] = "absent" /\ AtPathOf(f) = {}
  /\ place' = [place EXCEPT ![f] = "raw"]
  /\ UNCHANGED <<ledger, notes, review, index, ckpt, run>>

-----------------------------------------------------------------------------
(* Starting a run.                                                         *)

(* What there is at the paths an interrupted run was to ingest.            *)
ResumeFiles == UNION {AtPathOf(f) : f \in ckpt.pending \cup ({ckpt.current} \ {None})}

(* _resume_files returns a list: there is a file, or nothing is left to do *)
(* because the last one has been archived.  Otherwise it raises.           *)
CanResume == ResumeFiles # {} \/ ckpt.archived

(* _selected_files: everything in raw/, or the file named.                 *)
Selections == {{f \in Files : place[f] = "raw"}} \cup {{f} : f \in {g \in Files : Exists(g)}}

StartOperation(files, force) ==
  /\ ckpt' = [status |-> "running", pending |-> files, current |-> None,
              archived |-> FALSE]
  /\ run' = [NoRun EXCEPT !.at = "next", !.queue = files, !.force = force]
  /\ UNCHANGED <<place, ledger, notes, review, index>>

StartPlain(files)  == At("off") /\ ~Resumable /\ StartOperation(files, FALSE)
StartForced(files) == At("off") /\ StartOperation(files, TRUE)
StartResumed ==
  /\ At("off") /\ Resumable /\ CanResume
  /\ \E force \in BOOLEAN : StartOperation(ResumeFiles, force)

-----------------------------------------------------------------------------
(* The loop over the files.                                                *)

StartFile(f) ==
  /\ At("next") /\ f \in run.queue
  /\ ckpt' = [ckpt EXCEPT !.status = "running", !.current = f, !.archived = FALSE]
  /\ run' = [run EXCEPT !.at = "opened", !.queue = @ \ {f}, !.file = f]
  /\ UNCHANGED <<place, ledger, notes, review, index>>

(* Faulty: every operation ends "complete".                                *)
Finish_IgnoresErrors ==
  /\ At("next") /\ run.queue = {}
  /\ ckpt' = [ckpt EXCEPT !.status = "complete"]
  /\ run' = NoRun
  /\ UNCHANGED <<place, ledger, notes, review, index>>

Finish ==
  /\ At("next") /\ run.queue = {}
  /\ ckpt' = [ckpt EXCEPT !.status = IF run.errors THEN "error" ELSE "complete"]
  /\ run' = NoRun
  /\ UNCHANGED <<place, ledger, notes, review, index>>

QueueUnsupported ==
  /\ At("opened") /\ File \in Unsupported
  /\ review' = review \cup {ItemFor("unsupported", None)}
  /\ run' = EndTurn
  /\ UNCHANGED <<place, ledger, notes, index, ckpt>>

Parse ==
  /\ At("opened") /\ File \notin Unsupported
  /\ Goto(IF File \in Unreadable THEN "refused" ELSE "parsed")
  /\ UNCHANGED durable

(* Faulty: an error entry makes the content known.                         *)
KnownContent_AnyStatus == \E e \in ledger : e.hash = Digest

(* The content has been ingested before.                                   *)
KnownContent == \E e \in ledger : e.hash = Digest /\ e.status = "success"

IsDuplicate ==
  /\ At("parsed") /\ ~run.force /\ KnownContent
  /\ Goto("dup")
  /\ UNCHANGED durable

(* _archive_if_raw_file(duplicate=True)                                    *)
ArchiveDuplicate ==
  /\ At("dup")
  /\ place' = [place EXCEPT ![File] = IF @ = "raw" THEN "duplicates" ELSE @]
  /\ Goto("duprecord")
  /\ UNCHANGED <<ledger, notes, review, index, ckpt>>

Entered(status) == ledger \cup {[file |-> File, hash |-> Digest, status |-> status]}

RecordDuplicate ==
  /\ At("duprecord")
  /\ ledger' = Entered("duplicate")
  /\ Goto("dupqueue")
  /\ UNCHANGED <<place, notes, review, index, ckpt>>

QueueDuplicate ==
  /\ At("dupqueue")
  /\ review' = review \cup {ItemFor("duplicate", None)}
  /\ run' = [run EXCEPT !.at = "complete", !.archived = TRUE]
  /\ UNCHANGED <<place, ledger, notes, index, ckpt>>

-----------------------------------------------------------------------------
(* _ingest_one                                                             *)

(* The provider extracts candidates, then the notes are loaded.            *)
Extract(titles) ==
  /\ At("parsed") /\ (run.force \/ ~KnownContent)
  /\ run' = [run EXCEPT !.at = "cand", !.cands = titles, !.due = titles,
                        !.same = {}, !.loaded = notes, !.archived = FALSE]
  /\ UNCHANGED durable

(* A candidate of low utility is dropped.                                  *)
SkipCandidate(t) ==
  /\ At("cand") /\ t \in run.cands
  /\ run' = [run EXCEPT !.cands = @ \ {t}, !.due = @ \ {t}]
  /\ UNCHANGED durable

(* It is classified; _candidate_matches builds the indexes if there are    *)
(* notes and no index yet.                                                 *)
MatchCandidate(t) ==
  /\ At("cand") /\ t \in run.cands
  /\ index' = IF run.loaded # << >> /\ index = "none" THEN "fresh" ELSE index
  /\ run' = [run EXCEPT !.at = "verdict", !.cand = t]
  /\ UNCHANGED <<place, ledger, notes, review, ckpt>>

(* Low confidence, or no topic or type: a person decides.                  *)
QueueClassification(t, reason) ==
  /\ At("cand") /\ t \in run.cands
  /\ review' = review \cup {[queue |-> "classification", hash |-> Digest,
                             title |-> t, reason |-> reason]}
  /\ run' = [run EXCEPT !.cands = @ \ {t}]
  /\ UNCHANGED <<place, ledger, notes, index, ckpt>>

(* Faulty: the error is counted, the candidate lost.                       *)
VerdictFails_Drops(reason) ==
  /\ At("verdict")
  /\ run' = [NextCandidate EXCEPT !.errors = TRUE]
  /\ UNCHANGED durable

(* Faulty: the candidate is asked about again, until there is a verdict.   *)
VerdictFails_Retries(reason) ==
  /\ At("verdict")
  /\ run' = [NextCandidate EXCEPT !.cands = run.cands, !.errors = TRUE]
  /\ UNCHANGED durable

(* The provider fails, names a note that is no match, or its verdict is    *)
(* unknown: the candidate goes to a person, and the run counts an error.   *)
VerdictFails(reason) ==
  /\ At("verdict")
  /\ review' = review \cup {ItemFor("classification", reason)}
  /\ run' = [NextCandidate EXCEPT !.errors = TRUE]
  /\ UNCHANGED <<place, ledger, notes, index, ckpt>>

(* Faulty: nobody looks for the note.                                      *)
NoteOfThisSource_Skipped == FALSE

(* A note's sources have digests and refs: those of the documents.         *)
Cites(note, hash) == \E g \in note.sources : Hash[g] = hash

(* _find_existing_note_for_source, over the notes loaded before.           *)
NoteOfThisSource ==
  \E i \in DOMAIN run.loaded : /\ run.loaded[i].title = run.cand
                               /\ Cites(run.loaded[i], Digest)

UnrelatedKnown ==
  /\ At("verdict") /\ NoteOfThisSource
  /\ run' = NextCandidate
  /\ UNCHANGED durable

UnrelatedNew ==
  /\ At("verdict") /\ ~NoteOfThisSource
  /\ notes' = Append(notes, [title |-> run.cand, origin |-> Digest,
                             sources |-> {File}, disputes |-> {}])
  /\ index' = Stale
  /\ Goto("reindex")
  /\ UNCHANGED <<place, ledger, review, ckpt>>

(* _target_records: at least one, all of them loaded notes.  Of the        *)
(* decisions, the run remembers what was found to be the same as what.     *)
AimAt(targets, label) ==
  /\ At("verdict")
  /\ targets # {} /\ targets \subseteq DOMAIN run.loaded
  /\ run' = [run EXCEPT !.at = label, !.targets = targets,
                        !.same = IF label = "append" THEN @ \cup ({run.cand} \X targets)
                                                     ELSE @]
  /\ UNCHANGED durable

Identical(targets)   == "identical" \in Verdicts /\ AimAt(targets, "append")
Contradicts(targets) == "contradicts" \in Verdicts /\ AimAt(targets, "dispute")

AddsNuance ==
  /\ At("verdict") /\ run.loaded # << >> /\ "adds_nuance" \in Verdicts
  /\ review' = review \cup {ItemFor("merge", None)}
  /\ run' = NextCandidate
  /\ UNCHANGED <<place, ledger, notes, index, ckpt>>

(* Rewriting one target note, unless it has what is to be added already.   *)
Rewrite(i, note) ==
  /\ notes' = [notes EXCEPT ![i] = note]
  /\ index' = IF note = notes[i] THEN index ELSE Stale
  /\ run' = [run EXCEPT !.targets = @ \ {i}, !.mutated = @ \/ note # notes[i]]
  /\ UNCHANGED <<place, ledger, review, ckpt>>

(* A source of the note has this digest or this ref.                       *)
HasSource(note, f) == Cites(note, Hash[f]) \/ \E g \in note.sources : Path[g] = Path[f]

AppendSource(i) ==
  /\ At("append") /\ i \in run.targets
  /\ Rewrite(i, IF HasSource(notes[i], File) THEN notes[i]
                ELSE [notes[i] EXCEPT !.sources = @ \cup {File}])

MarkDisputed(i) ==
  /\ At("dispute") /\ i \in run.targets
  /\ Rewrite(i, [notes[i] EXCEPT !.disputes = @ \cup {<<Digest, run.cand>>}])

(* All targets are written: reindex if one changed.                        *)
Settled == IF run.mutated THEN [run EXCEPT !.at = "reindex"] ELSE NextCandidate

AppendsDone ==
  /\ At("append") /\ run.targets = {}
  /\ run' = Settled
  /\ UNCHANGED durable

QueueDispute ==
  /\ At("dispute") /\ run.targets = {}
  /\ review' = review \cup {ItemFor("dispute", None)}
  /\ run' = Settled
  /\ UNCHANGED <<place, ledger, notes, index, ckpt>>

(* reindex_data_dir, and the notes are loaded again.                       *)
Reindex ==
  /\ At("reindex")
  /\ index' = "fresh"
  /\ run' = [NextCandidate EXCEPT !.loaded = notes]
  /\ UNCHANGED <<place, ledger, notes, review, ckpt>>

-----------------------------------------------------------------------------
(* The end of a file's turn.                                               *)

(* Faulty: the file is copied, not moved.                                  *)
Archive_Copies ==
  /\ At("cand") /\ run.cands = {}
  /\ run' = [run EXCEPT !.at = "record", !.archived = TRUE, !.loaded = << >>]
  /\ UNCHANGED durable

Archive ==
  /\ At("cand") /\ run.cands = {}
  /\ place' = [place EXCEPT ![File] = IF @ = "raw" THEN "processed" ELSE @]
  /\ run' = [run EXCEPT !.at = "record", !.archived = (place[File] = "raw"),
                        !.loaded = << >>]
  /\ UNCHANGED <<ledger, notes, review, index, ckpt>>

RecordSuccess ==
  /\ At("record")
  /\ ledger' = Entered("success")
  /\ Goto("complete")
  /\ UNCHANGED <<place, notes, review, index, ckpt>>

CompleteFile ==
  /\ At("complete")
  /\ ckpt' = [ckpt EXCEPT !.archived = run.archived]
  /\ run' = EndTurn
  /\ UNCHANGED <<place, ledger, notes, review, index>>

(* Faulty: the first error ends the loop.                                  *)
CatchError_Breaks ==
  /\ run.at \in {"caught", "refused"}
  /\ ckpt' = [ckpt EXCEPT !.status = "error"]
  /\ run' = [EndTurn EXCEPT !.at = IF At("refused") THEN "queuefailure" ELSE "recorderror",
                            !.file = run.file, !.queue = {}, !.errors = TRUE]
  /\ UNCHANGED <<place, ledger, notes, review, index>>

(* except (IngestError, NoteValidationError, ProviderError, OSError): the  *)
(* checkpoint is marked, a parser failure queued, the ledger told, and the *)
(* loop goes on with the next file.                                        *)
CatchError ==
  /\ run.at \in {"caught", "refused"}
  /\ ckpt' = [ckpt EXCEPT !.status = "error"]
  /\ run' = [EndTurn EXCEPT !.at = IF At("refused") THEN "queuefailure" ELSE "recorderror",
                            !.file = run.file, !.errors = TRUE]
  /\ UNCHANGED <<place, ledger, notes, review, index>>

QueueParserFailure ==
  /\ At("queuefailure")
  /\ review' = review \cup {ItemFor("parser-failure", None)}
  /\ Goto("recorderror")
  /\ UNCHANGED <<place, ledger, notes, index, ckpt>>

(* What there is at the path by now is told to have failed.                *)
RecordError ==
  /\ At("recorderror")
  /\ ledger' = ledger \cup {[file |-> g, hash |-> Hash[g], status |-> "error"] :
                               g \in AtPathOf(File)}
  /\ run' = EndTurn
  /\ UNCHANGED <<place, notes, review, index, ckpt>>

-----------------------------------------------------------------------------
(* Faults.                                                                 *)

(* A provider or a file-system call raises what the loop catches.          *)
CallFails ==
  /\ run.at \in TryLabels
  /\ ~(At("opened") /\ File \in Unsupported)
  /\ Goto("caught")
  /\ UNCHANGED durable

(* Faulty: a status that the type of the checkpoint does not have.         *)
Interrupt_OwnStatus ==
  /\ ~At("off")
  /\ ckpt' = [ckpt EXCEPT !.status = "interrupted"]
  /\ run' = NoRun
  /\ UNCHANGED <<place, ledger, notes, review, index>>

(* ctrl-C or an exception nobody catches: fail(stage="fatal"), release.    *)
Interrupt ==
  /\ ~At("off")
  /\ ckpt' = [ckpt EXCEPT !.status = "error"]
  /\ run' = NoRun
  /\ UNCHANGED <<place, ledger, notes, review, index>>

(* kill -9 or a power cut.                                                 *)
Crash ==
  /\ ~At("off")
  /\ run' = NoRun
  /\ UNCHANGED durable

Fault == CallFails \/ Interrupt \/ Crash

-----------------------------------------------------------------------------
Start == \/ \E files \in Selections : StartPlain(files) \/ StartForced(files)
         \/ StartResumed

TurnStep == \/ \E f \in Files : StartFile(f)
            \/ QueueUnsupported \/ Parse
            \/ IsDuplicate \/ ArchiveDuplicate \/ RecordDuplicate \/ QueueDuplicate
            \/ Archive \/ RecordSuccess \/ CompleteFile
            \/ CatchError \/ QueueParserFailure \/ RecordError
            \/ Finish

CandidateStep ==
  \/ \E titles \in SUBSET Titles : Extract(titles)
  \/ \E t \in Titles : SkipCandidate(t) \/ MatchCandidate(t)
  \/ \E t \in Titles, reason \in Reasons : QueueClassification(t, reason)
  \/ \E reason \in Reasons : VerdictFails(reason)
  \/ UnrelatedKnown \/ UnrelatedNew \/ AddsNuance
  \/ \E targets \in SUBSET DOMAIN run.loaded : Identical(targets) \/ Contradicts(targets)
  \/ \E i \in DOMAIN notes : AppendSource(i) \/ MarkDisputed(i)
  \/ AppendsDone \/ QueueDispute \/ Reindex

RunStep == TurnStep \/ CandidateStep

Next == Start \/ RunStep \/ Fault \/ \E f \in Files : Arrive(f)

Spec == Init /\ [][Next]_vars

(* The user comes back: again and again the pending files are ingested; an *)
(* operation that is left unfinished is resumed, and is started over with  *)
(* everything in raw/ (--force), as long as some is left unfinished.       *)
Pending == {f \in Files : place[f] = "raw"}
UserReturns == /\ SF_vars(StartPlain(Pending))
               /\ SF_vars(StartResumed)
               /\ SF_vars(Resumable /\ StartForced(Pending))

(* And a run that is on goes on: kb ingest has no step that waits for      *)
(* another actor, and every provider call has a timeout.                   *)
Fairness == WF_vars(RunStep) /\ UserReturns
FairSpec == Spec /\ Fairness

-----------------------------------------------------------------------------
TypeOK ==
  /\ place \in [Files -> Places]
  /\ ledger \subseteq Entry
  /\ notes \in Seq(Note)
  /\ review \subseteq Item
  /\ index \in {"none", "fresh", "stale"}
  /\ ckpt \in Checkpoint
  /\ run \in Locals

(* A source gives at most one note of a title, however often its file is   *)
(* interrupted, resumed, forced or put into raw/ again: resume works       *)
(* "without duplicating notes" (ADR robustness-patterns).                  *)
NoDuplicateNotes ==
  \A i, j \in DOMAIN notes :
    notes[i].title = notes[j].title /\ notes[i].origin = notes[j].origin => i = j

(* The candidate is kept: in a note of its title that cites the content,   *)
(* in a question to a person, or in the notes the provider found to say    *)
(* the same already, each of which cites the content or an earlier one of  *)
(* this path.                                                              *)
SameAs(title) == {i \in DOMAIN notes : <<title, i>> \in run.same}
Disposed(f, title) ==
  \/ \E i \in DOMAIN notes : notes[i].title = title /\ Cites(notes[i], Hash[f])
  \/ \E item \in review : /\ item.hash = Hash[f] /\ item.title = title
                          /\ item.queue \in {"classification", "merge", "dispute"}
  \/ SameAs(title) # {} /\ \A i \in SameAs(title) : HasSource(notes[i], f)

(* A file leaves raw/ for raw/processed only when each candidate of it     *)
(* that was worth keeping has been kept, whatever became of the others.    *)
ArchivedOnlyWhenDisposed ==
  [][\A f \in Files : place[f] = "raw" /\ place'[f] = "processed" =>
       \A t \in run.due : Disposed(f, t)]_vars

(* A file is put away as a duplicate only if the same content is archived  *)
(* as processed, or was ingested from outside raw/: the source is kept.    *)
DuplicateHasOriginal ==
  \A f \in Files : place[f] = "duplicates" =>
    \E g \in Files : Hash[g] = Hash[f] /\ place[g] \in {"processed", "outside"}

(* An operation that ended "complete" has left no file it was to ingest in *)
(* raw/, but those of an unsupported format: what failed stays resumable.  *)
CompleteMeansDone ==
  ckpt.status = "complete" /\ At("off") =>
    \A f \in ckpt.pending \ Unsupported : place[f] # "raw"

(* How far a file's turn is, and how far a candidate of it.                *)
Stage(r) ==
  CASE r.at = "opened" -> 1
    [] r.at = "parsed" -> 2
    [] r.at \in {"cand", "verdict", "append", "dispute", "reindex", "dup"} -> 3
    [] r.at \in {"record", "duprecord"} -> 4
    [] r.at = "dupqueue" -> 5
    [] r.at = "complete" -> 6
    [] r.at \in {"caught", "refused"} -> 7
    [] r.at = "queuefailure" -> 8
    [] r.at = "recorderror" -> 9
    [] r.at = "next" -> 10
    [] r.at = "off" -> 11
Phase(r) ==
  CASE r.at = "verdict" -> 1
    [] r.at \in {"append", "dispute"} -> 2
    [] r.at = "reindex" -> 3
    [] OTHER -> 0

(* s is nearer to the end of the run than r is.                            *)
Fewer(S, T) == S \subseteq T /\ S # T
Nearer(s, r) ==
  \/ Fewer(s.queue, r.queue)
  \/ /\ s.queue = r.queue
     /\ \/ Stage(s) > Stage(r)
        \/ /\ Stage(s) = Stage(r)
           /\ \/ Fewer(s.cands, r.cands)
              \/ s.cands = r.cands /\ Phase(s) > Phase(r)
              \/ s.cands = r.cands /\ Phase(s) = Phase(r) /\ Fewer(s.targets, r.targets)

(* Every run comes to its end, or stops before it: each of its steps, the  *)
(* faults included, brings the end nearer, whatever the provider answers   *)
(* and however often it fails.  Files, candidates and targets are finite,  *)
(* so this cannot go on for ever.                                          *)
RunsDescend ==
  [][~At("off") => Nearer(run', run) \/ \E f \in Files : Arrive(f)]_vars

(* Each readable file leaves raw/ some day, if only its own processing is  *)
(* not stopped or failing for ever: other files may fail again and again,  *)
(* which keeps the operation unfinished, and neither they nor a crash nor  *)
(* a stuck checkpoint keep this one from being ingested.                   *)
Ingestible(f) == place[f] = "raw" /\ f \notin Unsupported \cup Unreadable
Undisturbed(f) ==
  Start \/ RunStep \/ (\E g \in Files : Arrive(g)) \/ (CallFails /\ File # f)
RawIsEmptied ==
  \A f \in Files : <>[][Undisturbed(f)]_vars => (Ingestible(f) ~> place[f] # "raw")

-----------------------------------------------------------------------------
(* What the documentation says, and the code does not do.                  *)

(* "If an earlier ingest was interrupted, run kb ingest --resume": the     *)
(* checkpoint of a run that was stopped at one of its files can be resumed.*)
InterruptedIsResumable ==
  At("off") /\ Resumable /\ ckpt.current # None => CanResume

(* A successful ingest has written its indexes: no note a run created is   *)
(* missing from them when the operation is complete.                       *)
CompleteMeansIndexed == At("off") /\ ckpt.status = "complete" => index # "stale"

-----------------------------------------------------------------------------
(* What the runs promise about the source files, and this module keeps.    *)
Ingested == {f \in Files : \E e \in ledger : e.file = f /\ e.status = "success"}
Abstract == INSTANCE SourceLife WITH ingested <- Ingested
KeepsSources == Abstract!Spec
===============================================================================
