--------------------------- MODULE IngestRunProofs ---------------------------
(***************************************************************************)
(* What IngestRun keeps for every set of files, contents, titles, reasons  *)
(* and verdicts, however the runs are interrupted.                         *)
(***************************************************************************)
EXTENDS IngestRun, TLAPS, SequenceTheorems

USE FileAssumption, NoneAssumption

-----------------------------------------------------------------------------
(* Types.                                                                  *)

(* The files of a run are files.                                           *)
LEMMA ChosenFiles ==
  ASSUME TypeOK
  PROVE  ResumeFiles \subseteq Files /\ Selections \subseteq SUBSET Files
BY DEF TypeOK, ResumeFiles, AtPathOf, Selections, Exists, Checkpoint

(* The labels, the items, the entries and the records that steps build.    *)
LEMMA LabelNames ==
  /\ "off" \in Labels /\ "next" \in Labels /\ "opened" \in Labels /\ "parsed" \in Labels
  /\ "dup" \in Labels /\ "duprecord" \in Labels /\ "dupqueue" \in Labels
  /\ "cand" \in Labels /\ "verdict" \in Labels /\ "append" \in Labels
  /\ "dispute" \in Labels /\ "reindex" \in Labels /\ "record" \in Labels
  /\ "complete" \in Labels /\ "caught" \in Labels /\ "refused" \in Labels
  /\ "queuefailure" \in Labels /\ "recorderror" \in Labels
BY DEF Labels, TryLabels

(* The queues that steps add items to.                                     *)
LEMMA QueueNames ==
  /\ "classification" \in Queues /\ "merge" \in Queues /\ "dispute" \in Queues
  /\ "duplicate" \in Queues /\ "unsupported" \in Queues /\ "parser-failure" \in Queues
BY DEF Queues

(* The records and items that steps build have their types.                *)
LEMMA Records ==
  ASSUME TypeOK
  PROVE  /\ NoRun \in Locals /\ EndTurn \in Locals /\ NextCandidate \in Locals
         /\ \A queue \in Queues, reason \in Reasons \cup {None} :
              run.file \in Files => ItemFor(queue, reason) \in Item
         /\ \A status \in {"success", "duplicate", "error"} :
              run.file \in Files => Entered(status) \subseteq Entry
<1>1. NoRun \in Locals
  BY LabelNames DEF NoRun, Locals
<1>2. EndTurn \in Locals
  BY <1>1, LabelNames DEF EndTurn, Locals, TypeOK
<1>3. NextCandidate \in Locals
  BY LabelNames DEF NextCandidate, Locals, TypeOK
<1>4. \A queue \in Queues, reason \in Reasons \cup {None} :
        run.file \in Files => ItemFor(queue, reason) \in Item
  BY DEF TypeOK, Locals, ItemFor, Digest, Item
<1>5. \A status \in {"success", "duplicate", "error"} :
        run.file \in Files => Entered(status) \subseteq Entry
  BY DEF TypeOK, Entered, File, Digest, Entry
<1>6. QED
  BY <1>1, <1>2, <1>3, <1>4, <1>5

(* Adding a source, or a dispute, to a note.                               *)
LEMMA NoteUpdates ==
  ASSUME NEW note \in Note, run.file \in Files, NEW title \in Titles
  PROVE  /\ [note EXCEPT !.sources = @ \cup {File}] \in Note
         /\ [note EXCEPT !.disputes = @ \cup {<<Digest, title>>}] \in Note
<1>1. Digest \in Hashes /\ <<Digest, title>> \in Dispute
  BY DEF Digest, Dispute
<1>2. QED
  BY <1>1 DEF Note, File

(* The initial states are typed.                                           *)
LEMMA TypeInit == Init => TypeOK
BY LabelNames DEF Init, TypeOK, Places, Checkpoint, NoRun, Locals

(* The start of a run keeps the types.                                     *)
LEMMA StartType ==
  ASSUME TypeOK, Start PROVE TypeOK'
<1>1. ASSUME NEW files \in SUBSET Files, NEW force \in BOOLEAN,
             StartOperation(files, force)
      PROVE  TypeOK'
  <2>1. run' \in Locals
    BY <1>1, Records, LabelNames DEF StartOperation, Locals
  <2>2. ckpt' \in Checkpoint
    BY <1>1 DEF StartOperation, Checkpoint
  <2>3. QED
    BY <1>1, <2>1, <2>2 DEF StartOperation, TypeOK
<1>2. ASSUME NEW files \in Selections, StartPlain(files) \/ StartForced(files) PROVE TypeOK'
  BY <1>1, <1>2, ChosenFiles DEF StartPlain, StartForced
<1>3. ASSUME StartResumed PROVE TypeOK'
  BY <1>1, <1>3, ChosenFiles DEF StartResumed
<1>4. QED
  BY <1>2, <1>3, Start DEF Start

(* So does each step of the loop over the files,                           *)
LEMMA TurnType ==
  ASSUME TypeOK, TurnStep, run.at \notin {"off", "next"} => run.file \in Files
  PROVE  TypeOK'
<1> USE DEF TypeOK, Locals, At, Goto, durable
<1>1. ASSUME NEW f \in Files, StartFile(f) PROVE TypeOK'
  BY <1>1, LabelNames DEF StartFile, Checkpoint
<1>2. CASE QueueUnsupported
  BY <1>2, QueueNames, Records DEF QueueUnsupported
<1>3. CASE Parse
  BY <1>3, LabelNames DEF Parse
<1>4. CASE IsDuplicate
  BY <1>4, LabelNames DEF IsDuplicate
<1>5. CASE ArchiveDuplicate
  BY <1>5, LabelNames DEF ArchiveDuplicate, Places
<1>6. CASE RecordDuplicate
  BY <1>6, LabelNames, Records DEF RecordDuplicate
<1>7. CASE QueueDuplicate
  <2>1. run' \in Locals
    BY <1>7, LabelNames DEF QueueDuplicate
  <2>2. review' \subseteq Item
    BY <1>7, QueueNames, Records DEF QueueDuplicate
  <2>3. UNCHANGED <<place, ledger, notes, index, ckpt>>
    BY <1>7 DEF QueueDuplicate
  <2>4. QED
    BY <2>1, <2>2, <2>3
<1>8. CASE Archive
  <2>1. place' \in [Files -> Places]
    BY <1>8 DEF Archive, Places
  <2>2. run' \in Locals
    <3>1. PICK b \in BOOLEAN : run' = [run EXCEPT !.at = "record", !.archived = b,
                                                  !.loaded = << >>]
      BY <1>8 DEF Archive
    <3>2. << >> \in Seq(Note)
      OBVIOUS
    <3>3. QED
      BY <3>1, <3>2, LabelNames DEF Locals
  <2>3. UNCHANGED <<ledger, notes, review, index, ckpt>>
    BY <1>8 DEF Archive
  <2>4. QED
    BY <2>1, <2>2, <2>3
<1>9. CASE RecordSuccess
  BY <1>9, LabelNames, Records DEF RecordSuccess
<1>10. CASE CompleteFile
  BY <1>10, Records DEF CompleteFile, Checkpoint
<1>11. CASE CatchError
  BY <1>11, LabelNames, Records DEF CatchError, Checkpoint
<1>12. CASE QueueParserFailure
  <2>1. run' \in Locals
    BY <1>12, LabelNames DEF QueueParserFailure
  <2>2. review' \subseteq Item
    BY <1>12, QueueNames, Records DEF QueueParserFailure
  <2>3. UNCHANGED <<place, ledger, notes, index, ckpt>>
    BY <1>12 DEF QueueParserFailure
  <2>4. QED
    BY <2>1, <2>2, <2>3
<1>13. CASE RecordError
  <2>1. {[file |-> g, hash |-> Hash[g], status |-> "error"] : g \in AtPathOf(File)}
          \subseteq Entry
    BY DEF AtPathOf, Entry
  <2>2. ledger' \subseteq Entry
    BY <1>13, <2>1 DEF RecordError
  <2>3. run' \in Locals
    BY <1>13, Records DEF RecordError
  <2>4. UNCHANGED <<place, notes, review, index, ckpt>>
    BY <1>13 DEF RecordError
  <2>5. QED
    BY <2>2, <2>3, <2>4
<1>14. CASE Finish
  BY <1>14, Records DEF Finish, Checkpoint
<1>15. QED
  BY <1>1, <1>2, <1>3, <1>4, <1>5, <1>6, <1>7, <1>8, <1>9, <1>10, <1>11, <1>12,
     <1>13, <1>14, TurnStep DEF TurnStep

(* each step on a candidate,                                               *)
LEMMA CandidateType ==
  ASSUME TypeOK, CandidateStep,
         run.at \notin {"off", "next"} => run.file \in Files,
         run.at \in {"verdict", "append", "dispute", "reindex"} => run.cand \in Titles
  PROVE  TypeOK'
<1> USE DEF TypeOK, At, Goto, durable
<1>1. ASSUME NEW titles \in SUBSET Titles, Extract(titles) PROVE TypeOK'
  BY <1>1, LabelNames DEF Extract, Locals
<1>2. ASSUME NEW t \in Titles, SkipCandidate(t) PROVE TypeOK'
  BY <1>2 DEF SkipCandidate, Locals
<1>3. ASSUME NEW t \in Titles, MatchCandidate(t) PROVE TypeOK'
  BY <1>3, LabelNames DEF MatchCandidate, Locals
<1>4. ASSUME NEW t \in Titles, NEW reason \in Reasons, QueueClassification(t, reason)
      PROVE TypeOK'
  <2>1. run' \in Locals
    BY <1>4 DEF QueueClassification, Locals
  <2>2. review' \subseteq Item
    BY <1>4, QueueNames DEF QueueClassification, Item, Digest
  <2>3. QED
    BY <1>4, <2>1, <2>2 DEF QueueClassification
<1>5. ASSUME NEW reason \in Reasons, VerdictFails(reason) PROVE TypeOK'
  <2>1. run' \in Locals
    BY <1>5, Records DEF VerdictFails, Locals
  <2>2. review' \subseteq Item
    BY <1>5, QueueNames, Records DEF VerdictFails
  <2>3. QED
    BY <1>5, <2>1, <2>2 DEF VerdictFails
<1>6. CASE UnrelatedKnown
  BY <1>6, Records DEF UnrelatedKnown
<1>7. CASE UnrelatedNew
  <2>1. run' \in Locals
    BY <1>7, LabelNames DEF UnrelatedNew, Locals
  <2>2. [title |-> run.cand, origin |-> Digest, sources |-> {File}, disputes |-> {}]
          \in Note
    BY <1>7 DEF UnrelatedNew, Note, Digest, File
  <2>3. notes' \in Seq(Note)
    BY <1>7, <2>2 DEF UnrelatedNew
  <2>4. QED
    BY <1>7, <2>1, <2>3 DEF UnrelatedNew, Stale
<1>8. CASE AddsNuance
  <2>1. review' \subseteq Item
    BY <1>8, QueueNames, Records DEF AddsNuance
  <2>2. QED
    BY <1>8, <2>1, Records DEF AddsNuance
<1>9. ASSUME NEW targets \in SUBSET DOMAIN run.loaded,
             Identical(targets) \/ Contradicts(targets)
      PROVE TypeOK'
  <2>1. targets \in SUBSET Nat
    BY DEF Locals
  <2>2. run' \in Locals
    <3>1. PICK label \in Labels : AimAt(targets, label)
      BY <1>9, LabelNames DEF Identical, Contradicts
    <3>2. QED
      BY <2>1, <3>1 DEF AimAt, Locals
  <2>3. QED
    BY <1>9, <2>2 DEF Identical, Contradicts, AimAt
<1>10. ASSUME NEW i \in DOMAIN notes, NEW note \in Note, Rewrite(i, note)
       PROVE TypeOK'
  <2>1. run' \in Locals
    <3>1. PICK b \in BOOLEAN :
            run' = [run EXCEPT !.targets = @ \ {i}, !.mutated = b]
      BY <1>10 DEF Rewrite, Locals
    <3>2. QED
      BY <3>1 DEF Locals
  <2>2. notes' \in Seq(Note)
    BY <1>10 DEF Rewrite
  <2>3. QED
    BY <1>10, <2>1, <2>2 DEF Rewrite, Stale
<1>11. ASSUME NEW i \in DOMAIN notes, AppendSource(i) PROVE TypeOK'
  <2>1. notes[i] \in Note /\ run.file \in Files /\ run.cand \in Titles
    BY <1>11 DEF AppendSource
  <2>2. [notes[i] EXCEPT !.sources = @ \cup {File}] \in Note
    BY <2>1, NoteUpdates
  <2>3. QED
    BY <1>10, <1>11, <2>2 DEF AppendSource
<1>12. ASSUME NEW i \in DOMAIN notes, MarkDisputed(i) PROVE TypeOK'
  <2>1. notes[i] \in Note /\ run.file \in Files /\ run.cand \in Titles
    BY <1>12 DEF MarkDisputed
  <2>2. [notes[i] EXCEPT !.disputes = @ \cup {<<Digest, run.cand>>}] \in Note
    BY <2>1, NoteUpdates
  <2>3. QED
    BY <1>10, <1>12, <2>2 DEF MarkDisputed
<1>13. Settled \in Locals
  BY Records, LabelNames DEF Settled, Locals
<1>14. CASE AppendsDone
  BY <1>13, <1>14 DEF AppendsDone
<1>15. CASE QueueDispute
  <2>1. review' \subseteq Item
    BY <1>15, QueueNames, Records DEF QueueDispute
  <2>2. QED
    BY <1>13, <1>15, <2>1 DEF QueueDispute
<1>16. CASE Reindex
  BY <1>16, Records DEF Reindex, Locals
<1>17. QED
  BY <1>1, <1>2, <1>3, <1>4, <1>5, <1>6, <1>7, <1>8, <1>9, <1>11, <1>12, <1>14,
     <1>15, <1>16, CandidateStep DEF CandidateStep

(* and each fault, arrival or stutter.                                     *)
LEMMA OtherType ==
  ASSUME TypeOK, Fault \/ (\E f \in Files : Arrive(f)) \/ UNCHANGED vars
  PROVE  TypeOK'
<1> USE DEF TypeOK, At, Goto, durable
<1>1. CASE CallFails
  BY <1>1, LabelNames DEF CallFails, Locals
<1>2. CASE Interrupt
  BY <1>2, Records DEF Interrupt, Checkpoint
<1>3. CASE Crash
  BY <1>3, Records DEF Crash
<1>4. ASSUME NEW f \in Files, Arrive(f) PROVE TypeOK'
  BY <1>4 DEF Arrive, Places
<1>5. CASE UNCHANGED vars
  BY <1>5 DEF vars
<1>6. QED
  BY <1>1, <1>2, <1>3, <1>4, <1>5 DEF Fault

-----------------------------------------------------------------------------
(* What the parts of a step leave alone.                                   *)

(* Where the file in hand has not left its place, and where a candidate of *)
(* it is in hand.                                                          *)
CandidateLabels == {"cand", "verdict", "append", "dispute", "reindex"}
BeforeArchive   == CandidateLabels \cup {"opened", "parsed", "dup"}

(* The fields of the records that local variables are reset to.            *)
LEMMA Fields ==
  ASSUME TypeOK
  PROVE  /\ NoRun.at = "off" /\ NoRun.queue = {}
         /\ NoRun.mutated = FALSE /\ EndTurn.mutated = FALSE
         /\ EndTurn.at = "next" /\ EndTurn.queue = run.queue
         /\ NextCandidate.at = "cand" /\ NextCandidate.mutated = FALSE
         /\ NextCandidate.cands = run.cands \ {run.cand}
         /\ NextCandidate.file = run.file /\ NextCandidate.queue = run.queue
         /\ NextCandidate.due = run.due /\ NextCandidate.loaded = run.loaded
BY DEF TypeOK, Locals, NoRun, EndTurn, NextCandidate

(* A step on a candidate stays at the file and touches no source.          *)
LEMMA CandidateFrame ==
  ASSUME TypeOK, CandidateStep
  PROVE  /\ UNCHANGED <<place, ledger, ckpt>>
         /\ run.at \in CandidateLabels \cup {"parsed"} /\ run'.at \in CandidateLabels
         /\ run'.file = run.file /\ run'.queue = run.queue
<1> USE DEF At, Goto, durable
<1>0. run \in Locals
  BY DEF TypeOK
<1>1. ASSUME NEW titles \in SUBSET Titles, Extract(titles)
      PROVE  /\ UNCHANGED <<place, ledger, ckpt>>
             /\ run.at = "parsed" /\ run'.at = "cand"
             /\ run'.file = run.file /\ run'.queue = run.queue
  BY <1>0, <1>1 DEF Extract, Locals
<1>2. ASSUME NEW t \in Titles,
             \/ SkipCandidate(t) \/ MatchCandidate(t)
             \/ \E reason \in Reasons : QueueClassification(t, reason)
      PROVE  /\ UNCHANGED <<place, ledger, ckpt>>
             /\ run.at = "cand" /\ run'.at \in {"cand", "verdict"}
             /\ run'.file = run.file /\ run'.queue = run.queue
  <2>1. CASE SkipCandidate(t)
    BY <1>0, <2>1 DEF SkipCandidate, Locals
  <2>2. CASE MatchCandidate(t)
    BY <1>0, <2>2 DEF MatchCandidate, Locals
  <2>3. CASE \E reason \in Reasons : QueueClassification(t, reason)
    BY <1>0, <2>3 DEF QueueClassification, Locals
  <2>4. QED
    BY <1>2, <2>1, <2>2, <2>3
<1>3. ASSUME \/ \E reason \in Reasons : VerdictFails(reason)
             \/ UnrelatedKnown \/ UnrelatedNew \/ AddsNuance
      PROVE  /\ UNCHANGED <<place, ledger, ckpt>>
             /\ run.at = "verdict" /\ run'.at \in {"cand", "reindex"}
             /\ run'.file = run.file /\ run'.queue = run.queue
  <2>1. CASE UnrelatedNew
    BY <1>0, <2>1 DEF UnrelatedNew, Locals
  <2>2. QED
    BY <1>3, <2>1, Records, Fields DEF VerdictFails, UnrelatedKnown, AddsNuance, Locals
<1>4. ASSUME NEW targets \in SUBSET DOMAIN run.loaded, NEW label \in {"append", "dispute"},
             AimAt(targets, label)
      PROVE  /\ UNCHANGED <<place, ledger, ckpt>>
             /\ run.at = "verdict" /\ run'.at = label
             /\ run'.file = run.file /\ run'.queue = run.queue
  BY <1>0, <1>4 DEF AimAt, Locals
<1>5. ASSUME NEW i \in DOMAIN notes, AppendSource(i) \/ MarkDisputed(i)
      PROVE  /\ UNCHANGED <<place, ledger, ckpt>>
             /\ run.at \in {"append", "dispute"} /\ run'.at = run.at
             /\ run'.file = run.file /\ run'.queue = run.queue
  <2>1. PICK note : Rewrite(i, note) /\ run.at \in {"append", "dispute"}
    BY <1>5 DEF AppendSource, MarkDisputed
  <2>2. QED
    BY <1>0, <2>1 DEF Rewrite, Locals
<1>6. ASSUME AppendsDone \/ QueueDispute \/ Reindex
      PROVE  /\ UNCHANGED <<place, ledger, ckpt>>
             /\ run.at \in {"append", "dispute", "reindex"}
             /\ run'.at \in {"cand", "reindex"}
             /\ run'.file = run.file /\ run'.queue = run.queue
  <2>1. Settled.at \in {"cand", "reindex"}
        /\ Settled.file = run.file /\ Settled.queue = run.queue
    BY <1>0, Fields DEF Settled, Locals
  <2>2. CASE AppendsDone \/ QueueDispute
    BY <2>1, <2>2 DEF AppendsDone, QueueDispute
  <2>3. CASE Reindex
    <3>1. NextCandidate \in Locals
      BY Records
    <3>2. QED
      BY <2>3, <3>1, Fields DEF Reindex, Locals
  <2>4. QED
    BY <1>6, <2>2, <2>3
<1>7. QED
  BY <1>1, <1>2, <1>3, <1>4, <1>5, <1>6, CandidateStep
  DEF CandidateStep, Identical, Contradicts, CandidateLabels

(* The other steps of a run write no note and lose no review item.         *)
LEMMA TurnFrame ==
  ASSUME TypeOK, Start \/ TurnStep \/ Fault \/ (\E f \in Files : Arrive(f))
  PROVE  /\ notes' = notes /\ review \subseteq review'
         /\ run'.at \notin CandidateLabels \/ run' = run
         /\ run'.at \in {"next", "opened", "parsed"} =>
              \/ run'.mutated = FALSE
              \/ run.at \in {"next", "opened", "parsed"} /\ run'.mutated = run.mutated
<1> USE Fields DEF At, Goto, durable, CandidateLabels
<1>0. run \in Locals
  BY DEF TypeOK
<1>1. ASSUME Start
      PROVE  notes' = notes /\ review' = review /\ run'.at = "next"
             /\ run'.mutated = FALSE
  BY <1>1 DEF Start, StartPlain, StartForced, StartResumed, StartOperation, NoRun
<1>2. CASE TurnStep
  <2>1. ASSUME NEW f \in Files, StartFile(f)
        PROVE  notes' = notes /\ review' = review /\ run'.at = "opened"
               /\ run.at = "next" /\ run'.mutated = run.mutated
    BY <1>0, <2>1 DEF StartFile, Locals
  <2>2. CASE QueueUnsupported \/ Parse
    BY <1>0, <2>2 DEF QueueUnsupported, Parse, Locals
  <2>3. CASE IsDuplicate \/ ArchiveDuplicate \/ RecordDuplicate \/ QueueDuplicate
    <3>1. run'.at \in {"dup", "duprecord", "dupqueue", "complete"}
      BY <1>0, <2>3 DEF IsDuplicate, ArchiveDuplicate, RecordDuplicate, QueueDuplicate,
         Locals
    <3>2. notes' = notes /\ review \subseteq review'
      BY <2>3 DEF IsDuplicate, ArchiveDuplicate, RecordDuplicate, QueueDuplicate
    <3>3. QED
      BY <3>1, <3>2
  <2>4. CASE Archive \/ RecordSuccess
    <3>1. run'.at \in {"record", "complete"}
      BY <1>0, <2>4 DEF Archive, RecordSuccess, Locals
    <3>2. notes' = notes /\ review \subseteq review'
      BY <2>4 DEF Archive, RecordSuccess
    <3>3. QED
      BY <3>1, <3>2
  <2>8. CASE CompleteFile
    BY <2>8 DEF CompleteFile
  <2>5. CASE CatchError
    BY <1>0, <2>5, Records DEF CatchError, Locals
  <2>6. CASE QueueParserFailure \/ RecordError \/ Finish
    BY <1>0, <2>6 DEF QueueParserFailure, RecordError, Finish, Locals
  <2>7. QED
    BY <1>2, <2>1, <2>2, <2>3, <2>4, <2>5, <2>6, <2>8 DEF TurnStep
<1>3. CASE Fault
  BY <1>0, <1>3 DEF Fault, CallFails, Interrupt, Crash, Locals
<1>4. ASSUME NEW f \in Files, Arrive(f)
      PROVE  notes' = notes /\ review' = review /\ run' = run
  BY <1>4 DEF Arrive
<1>5. QED
  BY <1>1, <1>2, <1>3, <1>4

-----------------------------------------------------------------------------
(* The source files.                                                       *)

(* There is a file in hand throughout its turn, where it was when the run  *)
(* chose it until it is archived, and it is not queued as well.            *)
FileInHand ==
  /\ run.at \notin {"off", "next"} => run.file \in Files /\ run.file \notin run.queue
  /\ run.at \in BeforeArchive => Exists(run.file)
  /\ \A f \in run.queue : Exists(f)

(* The ledger knows the content of its files, and that what it calls a     *)
(* success is out of raw/.                                                 *)
LedgerTrue ==
  \A e \in ledger : /\ e.hash = Hash[e.file]
                    /\ e.status = "success" => place[e.file] \in {"processed", "outside"}

(* What a run goes by when it sets a file aside or records a success.      *)
RecordEarned ==
  /\ run.at = "dup" => KnownContent
  /\ run.at = "record" => place[run.file] \in {"processed", "outside"}

SetAsideEarned ==
  \A f \in Files : place[f] = "duplicates" =>
    \E e \in ledger : e.hash = Hash[f] /\ e.status = "success"

SourceInv == FileInHand /\ LedgerTrue /\ RecordEarned /\ SetAsideEarned

(* A success entry of the ledger names a file that is kept.                *)
LEMMA SuccessEntry ==
  ASSUME TypeOK, LedgerTrue, NEW e \in ledger, e.status = "success"
  PROVE  /\ e.file \in Files /\ e.hash = Hash[e.file]
         /\ place[e.file] \in {"processed", "outside"}
<1>1. e \in Entry
  BY DEF TypeOK
<1>2. e.file \in Files
  BY <1>1 DEF Entry
<1>3. QED
  BY <1>2 DEF LedgerTrue

(* Nothing is claimed of a source at first.                                *)
LEMMA SourceInit == Init => SourceInv
BY DEF Init, SourceInv, FileInHand, LedgerTrue, RecordEarned, SetAsideEarned,
       NoRun, BeforeArchive, CandidateLabels

(* Chosen files exist.                                                     *)
LEMMA StartKeepsSources ==
  ASSUME TypeOK, SourceInv, Start PROVE SourceInv'
<1>1. ASSUME NEW files \in SUBSET Files, NEW force \in BOOLEAN,
             \A f \in files : Exists(f), StartOperation(files, force)
      PROVE  SourceInv'
  <2>1. run'.at = "next" /\ run'.queue = files
    BY <1>1 DEF StartOperation, NoRun
  <2>2. UNCHANGED <<place, ledger>>
    BY <1>1 DEF StartOperation
  <2>3. QED
    BY <1>1, <2>1, <2>2 DEF SourceInv, FileInHand, LedgerTrue, RecordEarned,
       SetAsideEarned, BeforeArchive, CandidateLabels, Exists
<1>2. \A f \in ResumeFiles : Exists(f)
  BY DEF ResumeFiles, AtPathOf
<1>3. \A files \in Selections : \A f \in files : Exists(f)
  BY DEF Selections, Exists
<1>4. ASSUME NEW files \in Selections, StartPlain(files) \/ StartForced(files)
      PROVE  SourceInv'
  BY <1>1, <1>3, <1>4, ChosenFiles DEF StartPlain, StartForced
<1>5. CASE StartResumed
  BY <1>1, <1>2, <1>5, ChosenFiles DEF StartResumed
<1>6. QED
  BY <1>4, <1>5, Start DEF Start

(* A turn: what is moved is the file in hand, and what is recorded of it   *)
(* has been earned.                                                        *)
LEMMA TurnKeepsSources ==
  ASSUME TypeOK, SourceInv, TurnStep PROVE SourceInv'
<1>0. run \in Locals /\ run.queue \subseteq Files /\ place \in [Files -> Places]
  BY DEF TypeOK, Locals
<1> USE DEF At, Goto, durable, File
<1> DEFINE Quiet == UNCHANGED <<place, ledger>>
<1>1. ASSUME Quiet,
             run'.at \notin {"off", "next"} =>
               run'.file \in Files /\ run'.file \notin run'.queue,
             run'.at \in BeforeArchive => Exists(run'.file),
             \A f \in run'.queue : Exists(f),
             run'.at = "dup" => KnownContent /\ run'.file = run.file,
             run'.at # "record"
      PROVE  SourceInv'
  BY <1>1 DEF SourceInv, FileInHand, LedgerTrue, RecordEarned, SetAsideEarned,
     Exists, KnownContent, Digest
<1>2. ASSUME NEW f \in Files, StartFile(f) PROVE SourceInv'
  <2>1. Quiet /\ run'.at = "opened" /\ run'.file = f /\ run'.queue = run.queue \ {f}
    BY <1>0, <1>2 DEF StartFile, Locals
  <2>2. Exists(f) /\ \A g \in run'.queue : Exists(g)
    BY <1>2, <2>1 DEF StartFile, SourceInv, FileInHand
  <2>3. QED
    BY <1>1, <2>1, <2>2
<1>3. ASSUME Quiet, run'.at \in {"off", "next"}, run'.queue \subseteq run.queue
      PROVE  SourceInv'
  BY <1>1, <1>3 DEF SourceInv, FileInHand, BeforeArchive, CandidateLabels
<1>4. ASSUME Quiet, run.at \notin {"off", "next"}, run'.at # "record",
             run'.file = run.file, run'.queue = run.queue,
             run'.at \in BeforeArchive => run.at \in BeforeArchive,
             run'.at = "dup" => KnownContent
      PROVE  SourceInv'
  BY <1>1, <1>4 DEF SourceInv, FileInHand
<1>5. CASE QueueUnsupported \/ CompleteFile
  BY <1>3, <1>5, Fields DEF QueueUnsupported, CompleteFile
<1>6. CASE Finish
  BY <1>3, <1>6, Fields DEF Finish
<1>7. CASE Parse
  <2>1. Quiet /\ run.at = "opened" /\ run'.at \in {"refused", "parsed"}
        /\ run'.file = run.file /\ run'.queue = run.queue
    BY <1>0, <1>7 DEF Parse, Locals
  <2>2. QED
    BY <1>4, <2>1 DEF BeforeArchive
<1>8. CASE IsDuplicate
  <2>1. Quiet /\ run.at = "parsed" /\ run'.at = "dup" /\ KnownContent
        /\ run'.file = run.file /\ run'.queue = run.queue
    BY <1>0, <1>8 DEF IsDuplicate, Locals
  <2>2. QED
    BY <1>4, <2>1 DEF BeforeArchive
<1>9. CASE QueueDuplicate
  <2>1. Quiet /\ run.at = "dupqueue" /\ run'.at = "complete"
        /\ run'.file = run.file /\ run'.queue = run.queue
    BY <1>0, <1>9 DEF QueueDuplicate, Locals
  <2>2. QED
    BY <1>4, <2>1 DEF BeforeArchive, CandidateLabels
<1>10. CASE CatchError
  <2>1. Quiet /\ run.at \in {"caught", "refused"}
        /\ run'.at \in {"queuefailure", "recorderror"}
        /\ run'.file = run.file /\ run'.queue = run.queue
    BY <1>0, <1>10, Records, Fields DEF CatchError, Locals
  <2>2. QED
    BY <1>4, <2>1 DEF BeforeArchive, CandidateLabels
<1>11. CASE QueueParserFailure
  <2>1. Quiet /\ run.at = "queuefailure" /\ run'.at = "recorderror"
        /\ run'.file = run.file /\ run'.queue = run.queue
    BY <1>0, <1>11 DEF QueueParserFailure, Locals
  <2>2. QED
    BY <1>4, <2>1 DEF BeforeArchive, CandidateLabels
<1>12. ASSUME NEW status \in {"success", "duplicate", "error"},
              place' = place, ledger' = ledger \/ ledger' = Entered(status),
              run.at \notin {"off", "next"},
              status = "success" => place[run.file] \in {"processed", "outside"},
              \/ run'.at \in {"dupqueue", "complete"}
                 /\ run'.file = run.file /\ run'.queue = run.queue
              \/ run'.at = "next" /\ run'.queue = run.queue
       PROVE  SourceInv'
  <2>1. LedgerTrue'
    BY <1>12 DEF SourceInv, LedgerTrue, Entered, Digest
  <2>2. SetAsideEarned'
    BY <1>12 DEF SourceInv, SetAsideEarned, Entered
  <2>3. QED
    BY <1>12, <2>1, <2>2 DEF SourceInv, FileInHand, RecordEarned, BeforeArchive,
       CandidateLabels, Exists
<1>13. CASE RecordDuplicate
  <2>1. run'.at = "dupqueue" /\ run'.file = run.file /\ run'.queue = run.queue
    BY <1>0, <1>13 DEF RecordDuplicate, Locals
  <2>2. QED
    BY <1>12, <1>13, <2>1 DEF RecordDuplicate
<1>14. CASE RecordSuccess
  <2>1. run'.at = "complete" /\ run'.file = run.file /\ run'.queue = run.queue
    BY <1>0, <1>14 DEF RecordSuccess, Locals
  <2>2. QED
    BY <1>12, <1>14, <2>1 DEF RecordSuccess, SourceInv, RecordEarned
<1>15. CASE RecordError
  <2>1. place' = place /\ run'.at = "next" /\ run'.queue = run.queue
    BY <1>15, Fields DEF RecordError
  <2>2. PICK there : ledger' = ledger \cup {[file |-> g, hash |-> Hash[g],
                                             status |-> "error"] : g \in there}
    BY <1>15 DEF RecordError
  <2>3. \A entry \in ledger' \ ledger :
          entry.hash = Hash[entry.file] /\ entry.status = "error"
    BY <2>2
  <2>4. LedgerTrue' /\ SetAsideEarned'
    BY <2>1, <2>2, <2>3 DEF SourceInv, LedgerTrue, SetAsideEarned
  <2>5. QED
    BY <2>1, <2>4 DEF SourceInv, FileInHand, RecordEarned, BeforeArchive,
       CandidateLabels, Exists
<1>16. ASSUME NEW there \in {"processed", "duplicates"},
              place' = [place EXCEPT ![File] = IF @ = "raw" THEN there ELSE @],
              ledger' = ledger,
              run.at \in BeforeArchive,
              run'.file = run.file, run'.queue = run.queue,
              there = "processed" => run'.at = "record",
              there = "duplicates" => run'.at = "duprecord" /\ KnownContent
       PROVE  SourceInv'
  <2>1. run.file \in Files /\ Exists(run.file) /\ run.file \notin run.queue
    BY <1>16 DEF SourceInv, FileInHand, BeforeArchive, CandidateLabels
  <2>2. FileInHand'
    BY <1>0, <1>16, <2>1 DEF SourceInv, FileInHand, BeforeArchive, CandidateLabels, Exists
  <2>3. LedgerTrue'
    BY <1>0, <1>16, <2>1 DEF SourceInv, LedgerTrue
  <2>4. RecordEarned'
    BY <1>0, <1>16, <2>1 DEF RecordEarned, Exists
  <2>5. SetAsideEarned'
    BY <1>0, <1>16, <2>1 DEF SourceInv, SetAsideEarned, KnownContent, Digest
  <2>6. QED
    BY <2>2, <2>3, <2>4, <2>5 DEF SourceInv
<1>17. CASE ArchiveDuplicate
  <2>1. run'.at = "duprecord" /\ run'.file = run.file /\ run'.queue = run.queue
    BY <1>0, <1>17 DEF ArchiveDuplicate, Locals
  <2>2. run.at \in BeforeArchive /\ KnownContent
    BY <1>17 DEF ArchiveDuplicate, BeforeArchive, SourceInv, RecordEarned
  <2>3. QED
    BY <1>16, <1>17, <2>1, <2>2 DEF ArchiveDuplicate
<1>18. CASE Archive
  <2>1. run'.at = "record" /\ run'.file = run.file /\ run'.queue = run.queue
    BY <1>0, <1>18 DEF Archive, Locals
  <2>2. run.at \in BeforeArchive
    BY <1>18 DEF Archive, BeforeArchive, CandidateLabels
  <2>3. QED
    BY <1>16, <1>18, <2>1, <2>2 DEF Archive
<1>19. QED
  BY <1>2, <1>5, <1>6, <1>7, <1>8, <1>9, <1>10, <1>11, <1>13, <1>14, <1>15, <1>17,
     <1>18, TurnStep DEF TurnStep

(* Candidate steps, faults and arrivals archive and record nothing.        *)
LEMMA RestKeepsSources ==
  ASSUME TypeOK, SourceInv,
         \/ CandidateStep \/ Fault \/ (\E f \in Files : Arrive(f)) \/ UNCHANGED vars
  PROVE  SourceInv'
<1>0. run \in Locals /\ run.queue \subseteq Files /\ place \in [Files -> Places]
  BY DEF TypeOK, Locals
<1>1. CASE CandidateStep
  <2>1. run.at \in BeforeArchive /\ run.at \notin {"off", "next"}
        /\ run'.at \notin {"off", "next", "dup", "record"}
    BY <1>1, CandidateFrame DEF BeforeArchive, CandidateLabels
  <2>2. QED
    BY <1>1, <2>1, CandidateFrame DEF SourceInv, FileInHand, LedgerTrue, RecordEarned,
       SetAsideEarned, Exists
<1>2. CASE Interrupt \/ Crash
  <2>1. run' = NoRun /\ UNCHANGED <<place, ledger>>
    BY <1>2 DEF Interrupt, Crash, durable
  <2>2. QED
    BY <2>1, Fields DEF SourceInv, FileInHand, LedgerTrue, RecordEarned,
       SetAsideEarned, BeforeArchive, CandidateLabels
<1>3. CASE CallFails
  <2>1. run'.at = "caught" /\ run'.file = run.file /\ run'.queue = run.queue
        /\ run.at \notin {"off", "next"} /\ UNCHANGED <<place, ledger>>
    BY <1>0, <1>3 DEF CallFails, Goto, TryLabels, Locals, durable
  <2>2. QED
    BY <2>1 DEF SourceInv, FileInHand, LedgerTrue, RecordEarned, SetAsideEarned,
       BeforeArchive, CandidateLabels, Exists
<1>4. ASSUME NEW f \in Files, Arrive(f) PROVE SourceInv'
  <2>1. \A g \in Files : place[g] # "absent" => place'[g] = place[g]
    BY <1>0, <1>4 DEF Arrive
  <2>2. \A g \in Files : place'[g] = "duplicates" => place[g] = "duplicates"
    BY <1>0, <1>4 DEF Arrive
  <2>3. LedgerTrue'
    BY <1>4, <2>1 DEF Arrive, SourceInv, LedgerTrue, TypeOK, Entry
  <2>4. FileInHand'
    BY <1>0, <1>4, <2>1 DEF Arrive, SourceInv, FileInHand, Exists, BeforeArchive,
       CandidateLabels
  <2>5. RecordEarned'
    BY <1>4, <2>1 DEF Arrive, SourceInv, FileInHand, RecordEarned, KnownContent, Digest
  <2>6. SetAsideEarned'
    BY <1>4, <2>2 DEF Arrive, SourceInv, SetAsideEarned
  <2>7. QED
    BY <2>3, <2>4, <2>5, <2>6 DEF SourceInv
<1>5. CASE UNCHANGED vars
  BY <1>5 DEF vars, SourceInv, FileInHand, LedgerTrue, RecordEarned, SetAsideEarned,
     Exists, KnownContent, Digest
<1>6. QED
  BY <1>1, <1>2, <1>3, <1>4, <1>5 DEF Fault

-----------------------------------------------------------------------------
(* The notes and the candidates.                                           *)

(* The candidate in hand is one of those left.                             *)
CandidateInHand ==
  run.at \in {"verdict", "append", "dispute", "reindex"} => run.cand \in run.cands

(* The notes a run has loaded are the notes there are, unless it has just  *)
(* rewritten one and is about to load them again.                          *)
SnapshotFresh ==
  /\ run.at \in {"next", "opened", "parsed", "cand", "verdict"} => ~run.mutated
  /\ run.at \in {"cand", "verdict", "append", "dispute"} /\ ~run.mutated =>
       run.loaded = notes

OriginKept == \A i \in DOMAIN notes : Cites(notes[i], notes[i].origin)

(* The notes found to be the same as a candidate of the file in hand have  *)
(* it as a source, but for the targets left of the candidate in hand.      *)
SameCited ==
  /\ run.at \in CandidateLabels =>
       \A t \in Titles, i \in Nat : <<t, i>> \in run.same =>
         /\ i \in DOMAIN notes
         /\ \/ HasSource(notes[i], run.file)
            \/ run.at = "append" /\ t = run.cand /\ i \in run.targets
  /\ run.at = "append" => SameAs(run.cand) # {}

(* What is due of the file in hand has been disposed of, but for the       *)
(* candidates left; that in hand has been when its notes are written.      *)
DueDisposed ==
  /\ run.at \in CandidateLabels =>
       \A t \in run.due \ run.cands : Disposed(run.file, t)
  /\ run.at = "reindex" => Disposed(run.file, run.cand)

NoteInv == /\ CandidateInHand /\ SnapshotFresh
           /\ OriginKept /\ NoDuplicateNotes /\ SameCited /\ DueDisposed

(* There are no notes at first.                                            *)
LEMMA NoteInit == Init => NoteInv
BY DEF Init, NoteInv, CandidateInHand, SnapshotFresh, OriginKept, NoDuplicateNotes,
       SameCited, DueDisposed, NoRun, CandidateLabels

(* Notes are never removed, keep title and origin, and lose no source; and *)
(* no review item is lost: what has been disposed of stays so.             *)
LEMMA NotesGrow ==
  ASSUME TypeOK, CandidateStep
  PROVE  /\ review \subseteq review'
         /\ \A i \in DOMAIN notes :
              /\ i \in DOMAIN notes'
              /\ notes'[i].title = notes[i].title /\ notes'[i].origin = notes[i].origin
              /\ notes[i].sources \subseteq notes'[i].sources
<1>0. notes \in Seq(Note)
  BY DEF TypeOK
<1> DEFINE Grown == \A i \in DOMAIN notes :
              /\ i \in DOMAIN notes'
              /\ notes'[i].title = notes[i].title /\ notes'[i].origin = notes[i].origin
              /\ notes[i].sources \subseteq notes'[i].sources
<1>1. CASE notes' = notes /\ review \subseteq review'
  BY <1>1
<1>2. CASE UnrelatedNew
  BY <1>0, <1>2 DEF UnrelatedNew
<1>3. ASSUME NEW i \in DOMAIN notes, NEW note \in Note, Rewrite(i, note),
             note.title = notes[i].title, note.origin = notes[i].origin,
             notes[i].sources \subseteq note.sources
      PROVE  Grown /\ review \subseteq review'
  BY <1>0, <1>3 DEF Rewrite
<1>4. ASSUME NEW i \in DOMAIN notes, AppendSource(i) \/ MarkDisputed(i)
      PROVE  Grown /\ review \subseteq review'
  <2>1. notes[i] \in Note
    BY <1>0
  <2>2. CASE AppendSource(i)
    BY <2>1, <2>2, <1>0 DEF AppendSource, Rewrite, Note
  <2>3. CASE MarkDisputed(i)
    BY <2>1, <2>3, <1>0 DEF MarkDisputed, Rewrite, Note
  <2>4. QED
    BY <1>4, <2>2, <2>3
<1>5. CASE \/ \E titles \in SUBSET Titles : Extract(titles)
           \/ \E t \in Titles : SkipCandidate(t) \/ MatchCandidate(t)
           \/ \E t \in Titles, reason \in Reasons : QueueClassification(t, reason)
           \/ \E reason \in Reasons : VerdictFails(reason)
           \/ UnrelatedKnown \/ AddsNuance
           \/ \E targets \in SUBSET DOMAIN run.loaded :
                Identical(targets) \/ Contradicts(targets)
           \/ AppendsDone \/ QueueDispute \/ Reindex
  BY <1>1, <1>5 DEF Extract, SkipCandidate, MatchCandidate, QueueClassification,
     VerdictFails, UnrelatedKnown, AddsNuance, Identical, Contradicts, AimAt,
     AppendsDone, QueueDispute, Reindex, durable
<1>6. QED
  BY <1>2, <1>4, <1>5, CandidateStep DEF CandidateStep

(* What a note has as a source it keeps.                                   *)
LEMMA SourcesStay ==
  ASSUME TypeOK, CandidateStep, NEW i \in DOMAIN notes, NEW f, NEW hash
  PROVE  /\ HasSource(notes[i], f) => HasSource(notes[i], f)'
         /\ Cites(notes[i], hash) => Cites(notes[i], hash)'
BY NotesGrow DEF HasSource, Cites

(* What has been found to be the same is forgotten when a file is begun,   *)
(* and more is found when a verdict says so.                               *)
LEMMA SameSteps ==
  ASSUME TypeOK, CandidateStep
  PROVE  \/ run.at \in CandidateLabels /\ run'.same = run.same
         \/ run.at = "parsed" /\ run'.at = "cand" /\ run'.same = {}
         \/ /\ run.at = "verdict" /\ run'.at = "append" /\ run'.cand = run.cand
            /\ run'.targets # {} /\ run'.targets \subseteq DOMAIN run.loaded
            /\ run'.same = run.same \cup ({run.cand} \X run'.targets)
<1> USE DEF At, Goto, durable, CandidateLabels
<1>0. run \in Locals /\ NextCandidate.same = run.same /\ NextCandidate \in Locals
  BY Records DEF TypeOK, Locals, NextCandidate
<1>1. ASSUME NEW titles \in SUBSET Titles, Extract(titles)
      PROVE  run.at = "parsed" /\ run'.at = "cand" /\ run'.same = {}
  BY <1>0, <1>1 DEF Extract, Locals
<1>2. ASSUME NEW t \in Titles,
             \/ SkipCandidate(t) \/ MatchCandidate(t)
             \/ \E reason \in Reasons : QueueClassification(t, reason)
      PROVE  run.at = "cand" /\ run'.same = run.same
  BY <1>0, <1>2 DEF SkipCandidate, MatchCandidate, QueueClassification, Locals
<1>3. ASSUME \/ \E reason \in Reasons : VerdictFails(reason)
             \/ UnrelatedKnown \/ UnrelatedNew \/ AddsNuance \/ Reindex
      PROVE  run.at \in {"verdict", "reindex"} /\ run'.same = run.same
  BY <1>0, <1>3 DEF VerdictFails, UnrelatedKnown, UnrelatedNew, AddsNuance, Reindex, Locals
<1>4. ASSUME NEW targets \in SUBSET DOMAIN run.loaded, Contradicts(targets)
      PROVE  run.at = "verdict" /\ run'.same = run.same
  BY <1>0, <1>4 DEF Contradicts, AimAt, Locals
<1>5. ASSUME NEW targets \in SUBSET DOMAIN run.loaded, Identical(targets)
      PROVE  /\ run.at = "verdict" /\ run'.at = "append" /\ run'.cand = run.cand
             /\ run'.targets # {} /\ run'.targets \subseteq DOMAIN run.loaded
             /\ run'.same = run.same \cup ({run.cand} \X run'.targets)
  BY <1>0, <1>5 DEF Identical, AimAt, Locals
<1>6. ASSUME NEW i \in DOMAIN notes, AppendSource(i) \/ MarkDisputed(i)
      PROVE  run.at \in {"append", "dispute"} /\ run'.same = run.same
  BY <1>0, <1>6 DEF AppendSource, MarkDisputed, Rewrite, Locals
<1>7. ASSUME AppendsDone \/ QueueDispute
      PROVE  run.at \in {"append", "dispute"} /\ run'.same = run.same
  BY <1>0, <1>7 DEF AppendsDone, QueueDispute, Settled, Locals
<1>8. QED
  BY <1>1, <1>2, <1>3, <1>4, <1>5, <1>6, <1>7 DEF CandidateStep

(* A pair is in a set to which a column of pairs is added.                *)
LEMMA PairAdded ==
  ASSUME NEW S, NEW s, NEW T, NEW t, NEW i
  PROVE  <<t, i>> \in S \cup ({s} \X T) <=> <<t, i>> \in S \/ (t = s /\ i \in T)
OBVIOUS

(* A candidate of which nothing new is found stays disposed of.            *)
LEMMA DisposedStays ==
  ASSUME TypeOK, TypeOK', SameCited, CandidateStep, run.at \in CandidateLabels,
         NEW title \in Titles, Disposed(run.file, title),
         \A i \in Nat : <<title, i>> \in run'.same <=> <<title, i>> \in run.same
  PROVE  Disposed(run.file, title)'
<1>0. run'.file = run.file /\ DOMAIN notes \subseteq Nat /\ DOMAIN notes' \subseteq Nat
  BY CandidateFrame DEF TypeOK
<1>1. SameAs(title)' = SameAs(title)
  BY <1>0, NotesGrow DEF SameAs, SameCited
<1>2. CASE \E i \in DOMAIN notes : notes[i].title = title /\ Cites(notes[i], Hash[run.file])
  BY <1>0, <1>2, NotesGrow, SourcesStay DEF Disposed
<1>3. CASE \E item \in review : /\ item.hash = Hash[run.file] /\ item.title = title
                               /\ item.queue \in {"classification", "merge", "dispute"}
  BY <1>0, <1>3, NotesGrow DEF Disposed
<1>4. CASE SameAs(title) # {} /\ \A i \in SameAs(title) : HasSource(notes[i], run.file)
  BY <1>0, <1>1, <1>4, SourcesStay DEF Disposed, SameAs
<1>5. QED
  BY <1>2, <1>3, <1>4 DEF Disposed

(* The sources found to be the same stay those, once the targets written   *)
(* have the file as a source.                                              *)
LEMMA SameStays ==
  ASSUME TypeOK, SameCited, CandidateStep, run.at \in CandidateLabels,
         run'.same = run.same,
         run'.at = "append" => run.at = "append" /\ run'.cand = run.cand,
         run.at = "append" =>
           \A i \in run.targets :
             HasSource(notes[i], run.file)' \/ (run'.at = "append" /\ i \in run'.targets)
  PROVE  SameCited'
<1>0. run'.file = run.file /\ DOMAIN notes \subseteq Nat
  BY CandidateFrame DEF TypeOK
<1>1. ASSUME NEW t \in Titles, NEW i \in Nat, <<t, i>> \in run'.same
      PROVE  /\ i \in DOMAIN notes'
             /\ \/ HasSource(notes'[i], run'.file)
                \/ run'.at = "append" /\ t = run'.cand /\ i \in run'.targets
  BY <1>0, <1>1, NotesGrow, SourcesStay DEF SameCited
<1>2. run'.at = "append" => SameAs(run.cand)' # {}
  BY NotesGrow DEF SameCited, SameAs
<1>3. QED
  BY <1>1, <1>2 DEF SameCited

(* The steps on a candidate.                                               *)
LEMMA CandidateKeepsNotes ==
  ASSUME TypeOK, TypeOK', NoteInv, run.file \in Files, CandidateStep PROVE NoteInv'
(* The title in hand before the step.                                      *)
<1>c. PICK c : c = run.cand
  OBVIOUS
<1>0. /\ run \in Locals /\ run.cands \subseteq Titles /\ run.mutated \in BOOLEAN
      /\ run.due \subseteq Titles
      /\ notes \in Seq(Note) /\ run'.file = run.file
  BY CandidateFrame DEF TypeOK, Locals
<1> USE <1>c DEF At, Goto, durable, NoteInv
(* Where only `run` and the queues change, the notes stay as good.         *)
<1>1. ASSUME notes' = notes PROVE OriginKept' /\ NoDuplicateNotes'
  BY <1>1 DEF OriginKept, NoDuplicateNotes
(* A review item about it disposes of a candidate.                         *)
<1>item. ASSUME NEW queue \in {"classification", "merge", "dispute"}, NEW title, NEW reason,
              [queue |-> queue, hash |-> Digest, title |-> title, reason |-> reason]
                \in review'
       PROVE  Disposed(run.file, title)'
  BY <1>0, <1>item DEF Disposed, Digest
(* A step that finds nothing to be the same leaves disposed what was.      *)
<1>kept. ASSUME run.at \in CandidateLabels, run'.at # "append" \/ run.at = "append",
                NEW title \in Titles, Disposed(run.file, title)
         PROVE  Disposed(run.file, title)'
  BY <1>kept, SameSteps, DisposedStays DEF CandidateLabels
(* Nor does it add to what is to be cited.                                 *)
<1>same. ASSUME run.at \in CandidateLabels, run'.at # "append",
                run.at = "append" => run.targets = {}
         PROVE  SameCited'
  BY <1>same, SameSteps, SameStays DEF CandidateLabels
(* Back to "cand", with at most one candidate less, which is disposed of.  *)
<1>2. ASSUME notes' = notes, NEW t \in Titles,
             run'.at = "cand", run'.cands = run.cands \ {t},
             run'.due \subseteq run.due, run'.loaded = notes, run'.mutated = FALSE,
             run.at \in CandidateLabels, run.at = "append" => run.targets = {},
             t \in run'.due => Disposed(run.file, t)'
      PROVE  NoteInv'
  <2>1. \A s \in run'.due \ run'.cands : Disposed(run.file, s)'
    BY <1>0, <1>2, <1>kept DEF DueDisposed
  <2>2. DueDisposed'
    BY <1>0, <1>2, <2>1 DEF DueDisposed
  <2>3. QED
    BY <1>1, <1>2, <1>same, <2>2 DEF CandidateInHand, SnapshotFresh
<1>3. ASSUME NEW titles \in SUBSET Titles, Extract(titles) PROVE NoteInv'
  <2>1. /\ notes' = notes /\ run'.at = "cand" /\ run'.cands = titles
        /\ run'.due = titles /\ run'.loaded = notes /\ run'.mutated = run.mutated
        /\ run.at = "parsed" /\ run'.same = {}
    BY <1>0, <1>3 DEF Extract, Locals
  <2>2. QED
    BY <1>1, <2>1 DEF CandidateInHand, SnapshotFresh, SameCited, DueDisposed
<1>4. ASSUME NEW t \in Titles, SkipCandidate(t) PROVE NoteInv'
  <2>1. /\ notes' = notes /\ run'.at = "cand" /\ run'.cands = run.cands \ {t}
        /\ run'.due = run.due \ {t} /\ run'.loaded = run.loaded
        /\ run'.mutated = run.mutated /\ run.at = "cand"
    BY <1>0, <1>4 DEF SkipCandidate, Locals
  <2>2. QED
    BY <1>0, <1>2, <2>1 DEF SnapshotFresh, CandidateLabels
<1>5. ASSUME NEW t \in Titles, MatchCandidate(t) PROVE NoteInv'
  <2>1. /\ notes' = notes /\ run'.at = "verdict" /\ run'.cands = run.cands
        /\ run'.due = run.due /\ run'.loaded = run.loaded
        /\ run'.mutated = run.mutated /\ run.at = "cand"
        /\ run'.cand = t /\ t \in run.cands
    BY <1>0, <1>5 DEF MatchCandidate, Locals
  <2>2. DueDisposed'
    BY <1>0, <1>kept, <2>1 DEF DueDisposed, CandidateLabels
  <2>3. QED
    BY <1>1, <1>same, <2>1, <2>2 DEF CandidateInHand, SnapshotFresh, CandidateLabels
<1>6. ASSUME NEW t \in Titles, NEW reason \in Reasons, QueueClassification(t, reason)
      PROVE  NoteInv'
  <2>1. /\ notes' = notes /\ run'.at = "cand" /\ run'.cands = run.cands \ {t}
        /\ run'.due = run.due /\ run'.loaded = run.loaded
        /\ run'.mutated = run.mutated /\ run.at = "cand"
    BY <1>0, <1>6 DEF QueueClassification, Locals
  <2>2. Disposed(run.file, t)'
    BY <1>6, <1>item DEF QueueClassification
  <2>3. QED
    BY <1>0, <1>2, <2>1, <2>2 DEF SnapshotFresh, CandidateLabels
(* Done with the candidate in hand.                                        *)
<1>7. ASSUME notes' = notes, run.at \in CandidateLabels, run.cand \in run.cands,
             run.at = "append" => run.targets = {},
             run'.at = "cand", run'.cands = run.cands \ {run.cand}, run'.due = run.due,
             run'.mutated = FALSE, run'.loaded = notes, Disposed(run.file, c)'
      PROVE  NoteInv'
  <2>1. run.cand \in Titles
    BY <1>0, <1>7
  <2>2. QED
    BY <1>2, <1>7, <2>1
<1>8. ASSUME run.at = "verdict", run' = NextCandidate, notes' = notes,
             Disposed(run.file, c)'
      PROVE  NoteInv'
  BY <1>7, <1>8, Fields DEF CandidateInHand, SnapshotFresh, CandidateLabels
<1>9. ASSUME NEW reason \in Reasons, VerdictFails(reason) PROVE NoteInv'
  <2>1. Disposed(run.file, c)'
    BY <1>9, <1>item DEF VerdictFails, ItemFor
  <2>2. /\ notes' = notes /\ run.at = "verdict" /\ run'.at = "cand"
        /\ run'.cands = run.cands \ {run.cand} /\ run'.due = run.due
        /\ run'.mutated = FALSE /\ run'.loaded = run.loaded
    BY <1>9, Records, Fields DEF VerdictFails, Locals
  <2>3. QED
    BY <1>7, <2>1, <2>2 DEF CandidateInHand, SnapshotFresh, CandidateLabels
<1>10. CASE UnrelatedKnown
  <2>1. run.at = "verdict" /\ run' = NextCandidate /\ notes' = notes
    BY <1>10 DEF UnrelatedKnown
  <2>2. run.cand \in Titles
    BY <1>0, <2>1 DEF CandidateInHand
  <2>3. Disposed(run.file, c)
    BY <1>10 DEF UnrelatedKnown, NoteOfThisSource, SnapshotFresh, Disposed, Digest
  <2>4. Disposed(run.file, c)'
    BY <1>kept, <2>1, <2>2, <2>3, Fields DEF CandidateLabels
  <2>5. QED
    BY <1>8, <2>1, <2>4
<1>11. CASE AddsNuance
  <2>1. Disposed(run.file, c)'
    BY <1>11, <1>item DEF AddsNuance, ItemFor
  <2>2. QED
    BY <1>8, <1>11, <2>1 DEF AddsNuance
<1>12. CASE UnrelatedNew
  <2> DEFINE new == [title |-> run.cand, origin |-> Digest, sources |-> {File},
                     disputes |-> {}]
  <2>1. /\ run.at = "verdict" /\ run'.at = "reindex" /\ run'.cands = run.cands
        /\ run'.cand = run.cand /\ run'.due = run.due /\ ~NoteOfThisSource
        /\ notes' = Append(notes, new)
    BY <1>0, <1>12 DEF UnrelatedNew, Locals
  <2>2. /\ DOMAIN notes' = 1 .. Len(notes) + 1 /\ DOMAIN notes = 1 .. Len(notes)
        /\ notes'[Len(notes) + 1] = new /\ Len(notes) \in Nat
        /\ \A i \in DOMAIN notes : notes'[i] = notes[i]
    BY <1>0, <2>1
  <2>3. \A i \in DOMAIN notes : ~(notes[i].title = run.cand /\ notes[i].origin = Digest)
    BY <2>1 DEF NoteOfThisSource, SnapshotFresh, OriginKept
  <2>0. Cites(new, Digest)
    BY DEF Cites, Digest, File
  <2>4. OriginKept'
    BY <2>0, <2>2 DEF OriginKept
  <2>5. NoDuplicateNotes'
    <3> SUFFICES ASSUME NEW i \in DOMAIN notes', NEW j \in DOMAIN notes',
                        notes'[i].title = notes'[j].title,
                        notes'[i].origin = notes'[j].origin
                 PROVE  i = j
      BY DEF NoDuplicateNotes
    <3>1. CASE i \in DOMAIN notes /\ j \in DOMAIN notes
      BY <2>2, <3>1 DEF NoDuplicateNotes
    <3>2. CASE i \notin DOMAIN notes \/ j \notin DOMAIN notes
      BY <2>2, <2>3, <3>2
    <3>3. QED
      BY <3>1, <3>2
  <2>6. Disposed(run.file, c)'
    BY <1>0, <2>0, <2>2 DEF Disposed, Digest
  <2>7. DueDisposed'
    BY <1>0, <1>kept, <2>1, <2>6 DEF DueDisposed, CandidateLabels
  <2>8. SameCited'
    BY <1>same, <2>1 DEF CandidateLabels
  <2>9. QED
    BY <2>1, <2>4, <2>5, <2>7, <2>8 DEF CandidateInHand, SnapshotFresh
<1>13. ASSUME NEW targets \in SUBSET DOMAIN run.loaded, NEW label \in {"append", "dispute"},
              AimAt(targets, label)
       PROVE  NoteInv'
  <2>1. /\ notes' = notes /\ run.at = "verdict" /\ run'.at = label
        /\ run'.cands = run.cands /\ run'.cand = run.cand /\ run'.due = run.due
        /\ run'.targets = targets /\ targets # {} /\ review' = review
        /\ run'.loaded = run.loaded /\ run'.mutated = run.mutated
        /\ run'.same = IF label = "append" THEN run.same \cup ({run.cand} \X targets)
                                           ELSE run.same
    BY <1>0, <1>13 DEF AimAt, Locals
  <2>2. targets \subseteq DOMAIN notes /\ targets \subseteq Nat
    BY <1>0, <2>1 DEF SnapshotFresh
  <2>3. \A t \in run.due \ run.cands : Disposed(run.file, t)'
    <3> SUFFICES ASSUME NEW t \in run.due \ run.cands PROVE Disposed(run.file, t)'
      OBVIOUS
    <3>1. t \in Titles /\ t # run.cand /\ Disposed(run.file, t)
      BY <1>0, <2>1 DEF CandidateInHand, DueDisposed, CandidateLabels
    <3>2. \A i \in Nat : <<t, i>> \in run'.same <=> <<t, i>> \in run.same
      BY <2>1, <3>1
    <3>3. QED
      BY <2>1, <3>1, <3>2, DisposedStays DEF CandidateLabels
  <2>4. DueDisposed'
    BY <1>0, <2>1, <2>3 DEF DueDisposed, CandidateLabels
  <2>8. CandidateInHand' /\ SnapshotFresh'
    BY <2>1 DEF CandidateInHand, SnapshotFresh
  <2>5. CASE label = "dispute"
    <3>1. SameCited'
      BY <1>same, <2>1, <2>5 DEF CandidateLabels
    <3>2. QED
      BY <1>1, <2>1, <2>4, <2>8, <3>1
  <2>6. CASE label = "append"
    <3>0. run'.same = run.same \cup ({run.cand} \X targets)
      BY <2>1, <2>6
    <3>1. \A t \in Titles, i \in Nat : <<t, i>> \in run'.same =>
            <<t, i>> \in run.same \/ (t = run.cand /\ i \in targets)
      BY <3>0, PairAdded
    <3>2. \A i \in targets : <<run.cand, i>> \in run'.same
      BY <3>0, PairAdded
    <3>3. SameAs(run.cand)' # {}
      BY <2>1, <2>2, <3>2 DEF SameAs
    <3>4. SameCited'
      BY <1>0, <2>1, <2>2, <2>6, <3>1, <3>3 DEF SameCited, HasSource, CandidateLabels
    <3>5. QED
      BY <1>1, <2>1, <2>4, <2>8, <3>4
  <2>7. QED
    BY <2>5, <2>6
<1>14. ASSUME NEW i \in DOMAIN notes, NEW note \in Note, Rewrite(i, note),
              run.at \in {"append", "dispute"},
              note.title = notes[i].title, note.origin = notes[i].origin,
              notes[i].sources \subseteq note.sources,
              run.at = "append" => HasSource(note, run.file)
       PROVE  NoteInv'
  <2>1. /\ run'.at = run.at /\ run'.cands = run.cands /\ run'.cand = run.cand
        /\ run'.due = run.due /\ run'.loaded = run.loaded /\ run'.same = run.same
        /\ run'.targets = run.targets \ {i}
        /\ run'.mutated = (run.mutated \/ note # notes[i])
        /\ notes' = [notes EXCEPT ![i] = note]
    BY <1>0, <1>14 DEF Rewrite, Locals
  <2>2. OriginKept' /\ NoDuplicateNotes'
    <3>1. \A j \in DOMAIN notes : notes'[j] = IF j = i THEN note ELSE notes[j]
      BY <1>0, <2>1
    <3>2. DOMAIN notes' = DOMAIN notes
      BY <1>0, <2>1
    <3>3. Cites(notes[i], notes[i].origin) => Cites(note, note.origin)
      BY <1>14 DEF Cites
    <3>4. QED
      BY <1>14, <3>1, <3>2, <3>3 DEF OriginKept, NoDuplicateNotes
  <2>3. ~run'.mutated => notes' = notes /\ ~run.mutated
    <3>1. [notes EXCEPT ![i] = notes[i]] = notes
      BY <1>0
    <3>2. QED
      BY <1>0, <2>1, <3>1
  <2>4. SnapshotFresh'
    BY <1>14, <2>1, <2>3 DEF SnapshotFresh
  <2>5. SameCited'
    <3>1. notes'[i] = note
      BY <1>0, <2>1
    <3>2. run.at = "append" => HasSource(notes[i], run.file)'
      BY <1>0, <1>14, <3>1
    <3>3. \A j \in run.targets : j # i => run'.at = run.at /\ j \in run'.targets
      BY <2>1
    <3>4. run.at \in CandidateLabels
      BY <1>14 DEF CandidateLabels
    <3>5. run.at = "append" =>
            \A j \in run.targets :
              HasSource(notes[j], run.file)' \/ (run'.at = "append" /\ j \in run'.targets)
      BY <3>2, <3>3
    <3>6. QED
      BY <2>1, <3>4, <3>5, SameStays
  <2>6. DueDisposed'
    BY <1>0, <1>14, <1>kept, <2>1 DEF DueDisposed, CandidateLabels
  <2>7. QED
    BY <1>14, <2>1, <2>2, <2>4, <2>5, <2>6 DEF CandidateInHand
<1>15. ASSUME NEW i \in DOMAIN notes, AppendSource(i) \/ MarkDisputed(i) PROVE NoteInv'
  <2>1. notes[i] \in Note
    BY <1>0
  <2>2. CASE AppendSource(i)
    <3> DEFINE new == [notes[i] EXCEPT !.sources = @ \cup {File}]
    <3>1. new \in Note
      BY <2>1, <2>2, NoteUpdates, <1>0 DEF AppendSource, CandidateInHand
    <3>2. /\ new.title = notes[i].title /\ new.origin = notes[i].origin
          /\ new.sources = notes[i].sources \cup {run.file}
      BY <2>1 DEF Note, File
    <3>3. HasSource(new, run.file)
      BY <3>2 DEF HasSource
    <3> HIDE DEF new
    <3>4. CASE HasSource(notes[i], File)
      BY <1>14, <2>1, <2>2, <3>4 DEF AppendSource, File
    <3>5. CASE ~HasSource(notes[i], File)
      BY <1>14, <2>2, <3>1, <3>2, <3>3, <3>5 DEF AppendSource, new
    <3>6. QED
      BY <3>4, <3>5
  <2>3. CASE MarkDisputed(i)
    <3>1. [notes[i] EXCEPT !.disputes = @ \cup {<<Digest, run.cand>>}] \in Note
      BY <2>1, <2>3, NoteUpdates, <1>0 DEF MarkDisputed, CandidateInHand
    <3>2. QED
      BY <1>14, <2>1, <2>3, <3>1 DEF MarkDisputed, Note
  <2>4. QED
    BY <1>15, <2>2, <2>3
(* The targets are written: reindex, or the next candidate.                *)
<1>16. ASSUME notes' = notes, run' = Settled, run.at \in {"append", "dispute"},
              run.targets = {},
              Disposed(run.file, c)'
       PROVE  NoteInv'
  <2>1. CASE run.mutated
    <3>1. /\ run'.at = "reindex" /\ run'.cands = run.cands /\ run'.cand = run.cand
          /\ run'.due = run.due
      BY <1>0, <1>16, <2>1 DEF Settled, Locals
    <3>2. DueDisposed'
      BY <1>0, <1>16, <1>kept, <3>1 DEF DueDisposed, CandidateLabels
    <3>3. QED
      BY <1>1, <1>16, <1>same, <3>1, <3>2 DEF CandidateInHand, SnapshotFresh, CandidateLabels
  <2>2. CASE ~run.mutated
    BY <1>7, <1>16, <2>2, Fields DEF Settled, CandidateInHand, SnapshotFresh,
       CandidateLabels
  <2>3. QED
    BY <2>1, <2>2
<1>17. CASE AppendsDone
  <2>1. /\ run.at = "append" /\ run.targets = {} /\ notes' = notes /\ run' = Settled
    BY <1>17 DEF AppendsDone
  <2>2. run.cand \in Titles /\ DOMAIN notes \subseteq Nat
    BY <1>0, <2>1 DEF CandidateInHand
  <2>3. Disposed(run.file, c)
    BY <2>1, <2>2 DEF SameCited, SameAs, Disposed, CandidateLabels
  <2>4. Disposed(run.file, c)'
    BY <1>kept, <2>1, <2>2, <2>3 DEF CandidateLabels
  <2>5. QED
    BY <1>16, <2>1, <2>4
<1>18. CASE QueueDispute
  <2>1. Disposed(run.file, c)'
    BY <1>18, <1>item DEF QueueDispute, ItemFor
  <2>2. QED
    BY <1>16, <1>18, <2>1 DEF QueueDispute
<1>19. CASE Reindex
  <2>1. /\ notes' = notes /\ run.at = "reindex" /\ run'.at = "cand"
        /\ run'.cands = run.cands \ {run.cand} /\ run'.due = run.due
        /\ run'.mutated = FALSE /\ run'.loaded = notes
    BY <1>19, Records, Fields DEF Reindex, Locals
  <2>2. Disposed(run.file, c)'
    BY <1>0, <1>kept, <2>1 DEF CandidateInHand, DueDisposed, CandidateLabels
  <2>3. QED
    BY <1>7, <2>1, <2>2 DEF CandidateInHand, CandidateLabels
<1>21. QED
  BY <1>3, <1>4, <1>5, <1>6, <1>9, <1>10, <1>11, <1>12, <1>13, <1>15, <1>17, <1>18,
     <1>19, CandidateStep DEF CandidateStep, Identical, Contradicts

(* The other steps.                                                        *)
LEMMA RestKeepsNotes ==
  ASSUME TypeOK, NoteInv,
         \/ Start \/ TurnStep \/ Fault \/ (\E f \in Files : Arrive(f)) \/ UNCHANGED vars
  PROVE  NoteInv'
<1>1. CASE run' = run /\ notes' = notes /\ review \subseteq review'
  BY <1>1 DEF NoteInv, CandidateInHand, SnapshotFresh, OriginKept, NoDuplicateNotes,
     SameCited, SameAs, DueDisposed, Disposed, HasSource, Cites
<1>2. CASE /\ run'.at \notin CandidateLabels /\ notes' = notes
           /\ run'.at \in {"next", "opened", "parsed"} => ~run'.mutated
  BY <1>2 DEF NoteInv, CandidateInHand, SnapshotFresh, OriginKept, NoDuplicateNotes,
     SameCited, DueDisposed, CandidateLabels
<1>3. CASE UNCHANGED vars
  BY <1>1, <1>3 DEF vars
<1>4. QED
  BY <1>1, <1>2, <1>3, TurnFrame DEF NoteInv, SnapshotFresh

-----------------------------------------------------------------------------
(* The inductive invariant: the files, the ledger, the notes and the       *)
(* candidates are as the steps of a run take them to be.                   *)
IInv == TypeOK /\ SourceInv /\ NoteInv

(* The invariant is inductive.                                             *)
LEMMA StepKeepsIInv ==
  ASSUME IInv, [Next]_vars PROVE IInv'
<1>1. TypeOK /\ SourceInv /\ NoteInv
  BY DEF IInv
<1>2. run.at \notin {"off", "next"} => run.file \in Files
  BY <1>1 DEF SourceInv, FileInHand
<1>3. CASE Start
  BY <1>1, <1>3, StartType, StartKeepsSources, RestKeepsNotes DEF IInv
<1>4. CASE TurnStep
  BY <1>1, <1>2, <1>4, TurnType, TurnKeepsSources, RestKeepsNotes DEF IInv
<1>5. CASE CandidateStep
  <2>1. run.cands \subseteq Titles
    BY <1>1 DEF TypeOK, Locals
  <2>2. run.at \in {"verdict", "append", "dispute", "reindex"} => run.cand \in Titles
    BY <1>1, <2>1 DEF NoteInv, CandidateInHand
  <2>3. run.file \in Files
    BY <1>1, <1>2, <1>5, CandidateFrame DEF CandidateLabels
  <2>4. TypeOK'
    BY <1>1, <1>2, <1>5, <2>2, CandidateType
  <2>5. QED
    BY <1>1, <1>5, <2>3, <2>4, RestKeepsSources, CandidateKeepsNotes DEF IInv
<1>6. CASE Fault \/ (\E f \in Files : Arrive(f)) \/ UNCHANGED vars
  BY <1>1, <1>6, OtherType, RestKeepsSources, RestKeepsNotes DEF IInv
<1>7. QED
  BY <1>3, <1>4, <1>5, <1>6 DEF Next, RunStep

(* The invariant holds throughout, whatever the faults.                    *)
THEOREM Invariance == Spec => []IInv
<1>1. Init => IInv
  BY TypeInit, SourceInit, NoteInit DEF IInv
<1>2. IInv /\ [Next]_vars => IInv'
  BY StepKeepsIInv
<1>3. QED
  BY <1>1, <1>2, PTL DEF Spec

(* Every variable keeps its type.                                          *)
THEOREM TypeCorrect == Spec => []TypeOK
<1>1. IInv => TypeOK
  BY DEF IInv
<1>2. QED
  BY <1>1, Invariance, PTL

(* No source gives two notes of one title, however often its file is       *)
(* interrupted, resumed, forced or put into raw/ again.                    *)
THEOREM NoDuplicateNotesHolds == Spec => []NoDuplicateNotes
<1>1. IInv => NoDuplicateNotes
  BY DEF IInv, NoteInv
<1>2. QED
  BY <1>1, Invariance, PTL

(* What is set aside as a duplicate has an original that is kept.          *)
THEOREM DuplicateHasOriginalHolds == Spec => []DuplicateHasOriginal
<1>1. ASSUME IInv PROVE DuplicateHasOriginal
  <2>1. ASSUME NEW f \in Files, place[f] = "duplicates"
        PROVE  \E g \in Files : Hash[g] = Hash[f] /\ place[g] \in {"processed", "outside"}
    <3>1. PICK e \in ledger : e.hash = Hash[f] /\ e.status = "success"
      BY <1>1, <2>1 DEF IInv, SourceInv, SetAsideEarned
    <3>2. e.file \in Files /\ e.hash = Hash[e.file]
          /\ place[e.file] \in {"processed", "outside"}
      BY <1>1, <3>1, SuccessEntry DEF IInv, SourceInv
    <3>3. QED
      BY <3>1, <3>2
  <2>2. QED
    BY <2>1 DEF DuplicateHasOriginal
<1>2. QED
  BY <1>1, Invariance, PTL

-----------------------------------------------------------------------------
(* The steps that touch a source or the ledger.                            *)
LEMMA SourceSteps ==
  ASSUME TypeOK, [Next]_vars
  PROVE  \/ UNCHANGED <<place, ledger>>
         \/ ArchiveDuplicate \/ RecordDuplicate \/ Archive \/ RecordSuccess \/ RecordError
         \/ \E f \in Files : Arrive(f)
<1>1. ASSUME Start PROVE UNCHANGED <<place, ledger>>
  BY <1>1 DEF Start, StartPlain, StartForced, StartResumed, StartOperation
<1>2. ASSUME \/ \E f \in Files : StartFile(f)
             \/ QueueUnsupported \/ Parse \/ IsDuplicate \/ QueueDuplicate
             \/ CompleteFile \/ CatchError \/ QueueParserFailure \/ Finish
      PROVE UNCHANGED <<place, ledger>>
  BY <1>2 DEF StartFile, QueueUnsupported, Parse, IsDuplicate, QueueDuplicate,
     CompleteFile, CatchError, QueueParserFailure, Finish, durable
<1>3. ASSUME Fault \/ UNCHANGED vars PROVE UNCHANGED <<place, ledger>>
  BY <1>3 DEF Fault, CallFails, Interrupt, Crash, durable, vars
<1>4. QED
  BY <1>1, <1>2, <1>3, CandidateFrame DEF Next, RunStep, TurnStep

(* Only Archive moves a file to processed, and the file in hand.           *)
LEMMA ArchiveStep ==
  ASSUME IInv, [Next]_vars, NEW f \in Files, place[f] = "raw", place'[f] = "processed"
  PROVE  Archive /\ f = run.file
<1>1. place \in [Files -> Places]
  BY DEF IInv, TypeOK
<1>2. QED
  BY <1>1, SourceSteps DEF IInv, ArchiveDuplicate, RecordDuplicate, Archive,
     RecordSuccess, RecordError, Arrive, File

(* No file is archived before each candidate of it that was worth keeping  *)
(* has been kept: by a note of its title that cites the file, by a person  *)
(* who is asked, or by the notes found to say the same, each of which      *)
(* cites the content or an earlier one of this path.                       *)
THEOREM ArchivedOnlyWhenDisposedHolds == Spec => ArchivedOnlyWhenDisposed
<1>1. ASSUME IInv, [Next]_vars, NEW f \in Files,
             place[f] = "raw", place'[f] = "processed"
      PROVE  \A t \in run.due : Disposed(f, t)
  <2>1. run.at = "cand" /\ run.cands = {} /\ f = run.file
    BY <1>1, ArchiveStep DEF Archive, At
  <2>2. QED
    BY <1>1, <2>1 DEF IInv, NoteInv, DueDisposed, CandidateLabels
<1>2. IInv /\ [Next]_vars =>
        [\A f \in Files : place[f] = "raw" /\ place'[f] = "processed" =>
           \A t \in run.due : Disposed(f, t)]_vars
  BY <1>1
<1>3. QED
  BY <1>2, Invariance, PTL DEF Spec, ArchivedOnlyWhenDisposed

-----------------------------------------------------------------------------
(* The runs keep what SourceLife promises about the source files.          *)
LEMMA SourceStepRefines ==
  ASSUME IInv, [Next]_vars PROVE [Abstract!Next]_Abstract!vars
<1>0. /\ place \in [Files -> Places] /\ TypeOK
      /\ run.at \notin {"off", "next"} => run.file \in Files
  BY DEF IInv, TypeOK, SourceInv, FileInHand
<1> USE DEF File, At
<1>1. CASE UNCHANGED <<place, ledger>>
  BY <1>1 DEF Abstract!vars, Ingested
<1>2. CASE ArchiveDuplicate
  <2>1. \E g \in Ingested : Hash[g] = Hash[run.file]
    <3>1. PICK e \in ledger : e.hash = Hash[run.file] /\ e.status = "success"
      BY <1>2 DEF ArchiveDuplicate, IInv, SourceInv, RecordEarned, KnownContent, Digest
    <3>2. e.file \in Files /\ e.hash = Hash[e.file]
      BY <3>1, SuccessEntry DEF IInv, SourceInv
    <3>3. QED
      BY <3>1, <3>2 DEF Ingested
  <2>2. Ingested' = Ingested
    BY <1>2 DEF ArchiveDuplicate, Ingested
  <2>3. CASE place[run.file] = "raw"
    BY <1>0, <1>2, <2>1, <2>2, <2>3 DEF ArchiveDuplicate, Abstract!Next,
       Abstract!SetAside, Abstract!Move
  <2>4. CASE place[run.file] # "raw"
    BY <1>0, <1>2, <2>2, <2>4 DEF ArchiveDuplicate, Abstract!vars
  <2>5. QED
    BY <2>3, <2>4
<1>3. CASE Archive
  <2>1. Ingested' = Ingested
    BY <1>3 DEF Archive, Ingested
  <2>2. CASE place[run.file] = "raw"
    BY <1>0, <1>3, <2>1, <2>2 DEF Archive, Abstract!Next, Abstract!Keep, Abstract!Move
  <2>3. CASE place[run.file] # "raw"
    BY <1>0, <1>3, <2>1, <2>3 DEF Archive, Abstract!vars
  <2>4. QED
    BY <2>2, <2>3
<1>4. CASE RecordDuplicate \/ RecordError
  <2>1. place' = place /\ Ingested' = Ingested
    <3>1. place' = place /\ ledger \subseteq ledger'
          /\ \A entry \in ledger' \ ledger : entry.status # "success"
      BY <1>4 DEF RecordDuplicate, RecordError, Entered
    <3>2. QED
      BY <3>1 DEF Ingested
  <2>2. QED
    BY <2>1 DEF Abstract!vars
<1>5. CASE RecordSuccess
  <2>1. run.file \in Files /\ place[run.file] \in {"processed", "outside"}
    BY <1>0, <1>5 DEF RecordSuccess, IInv, SourceInv, RecordEarned
  <2>2. place' = place /\ Ingested' = Ingested \cup {run.file}
    <3> DEFINE new == [file |-> run.file, hash |-> Digest, status |-> "success"]
    <3>1. ledger' = ledger \cup {new} /\ place' = place
      BY <1>5 DEF RecordSuccess, Entered
    <3>4. new.file = run.file /\ new.status = "success"
      OBVIOUS
    <3> HIDE DEF new
    <3>2. \A f \in Files : (\E e \in ledger' : e.file = f /\ e.status = "success")
            <=> (\E e \in ledger : e.file = f /\ e.status = "success") \/ f = run.file
      BY <3>1, <3>4
    <3>3. QED
      BY <2>1, <3>1, <3>2 DEF Ingested
  <2>3. QED
    BY <2>1, <2>2 DEF Abstract!Next, Abstract!Count
<1>6. ASSUME NEW f \in Files, Arrive(f) PROVE Abstract!Next
  <2>1. Ingested' = Ingested
    BY <1>6 DEF Arrive, Ingested
  <2>2. QED
    BY <1>6, <2>1 DEF Arrive, Abstract!Next, Abstract!Arrive, Abstract!Move
<1>7. QED
  BY <1>0, <1>1, <1>2, <1>3, <1>4, <1>5, <1>6, SourceSteps

(* Every behaviour of the runs, with their crashes and errors, is one of   *)
(* SourceLife: sources are archived once, counted when they are archived,  *)
(* and set aside only as copies of one that counts.                        *)
THEOREM SourcesRefine == Spec => KeepsSources
<1>1. Init => Abstract!Init
  BY DEF Init, Abstract!Init, Ingested
<1>2. IInv /\ [Next]_vars => [Abstract!Next]_Abstract!vars
  BY SourceStepRefines
<1>3. QED
  BY <1>1, <1>2, Invariance, PTL DEF Spec, Abstract!Spec, KeepsSources

-----------------------------------------------------------------------------
(* The files an operation was to ingest.                                   *)

(* What a run has left of them, as long as it has counted no error: a file *)
(* that is still in raw/ is queued, or in hand and not archived yet.       *)
Archived == {"duprecord", "dupqueue", "record", "complete"}
Remaining ==
  {f \in ckpt.pending \ Unsupported :
     /\ place[f] = "raw"
     /\ f \notin run.queue
     /\ f # run.file \/ run.at \in Archived \cup {"next"}}

(* An operation that is complete has ended, and has left nothing.          *)
PendingInv ==
  /\ \A f \in ckpt.pending : place[f] # "absent"
  /\ ckpt.status = "complete" => run.at = "off"
  /\ CompleteMeansDone
  /\ run.at \in {"queuefailure", "recorderror"} => run.errors
  /\ run.at # "off" /\ ~run.errors => Remaining = {}

(* A candidate step forgets no error.                                      *)
LEMMA ErrorsStay ==
  ASSUME TypeOK, CandidateStep
  PROVE  run.errors => run'.errors
<1> USE DEF At, Goto, durable
<1>0. run \in Locals /\ NextCandidate.errors = run.errors /\ NextCandidate \in Locals
  BY Records DEF TypeOK, Locals, NextCandidate
<1>1. ASSUME NEW titles \in SUBSET Titles, Extract(titles)
      PROVE  run'.errors = run.errors
  BY <1>0, <1>1 DEF Extract, Locals
<1>2. ASSUME NEW t \in Titles,
             \/ SkipCandidate(t) \/ MatchCandidate(t)
             \/ \E reason \in Reasons : QueueClassification(t, reason)
      PROVE  run'.errors = run.errors
  <2>1. CASE SkipCandidate(t)
    BY <1>0, <2>1 DEF SkipCandidate, Locals
  <2>2. CASE MatchCandidate(t)
    BY <1>0, <2>2 DEF MatchCandidate, Locals
  <2>3. ASSUME NEW reason \in Reasons, QueueClassification(t, reason)
        PROVE  run'.errors = run.errors
    BY <1>0, <2>3 DEF QueueClassification, Locals
  <2> QED
    BY <1>2, <2>1, <2>2, <2>3
<1>3. ASSUME \/ \E reason \in Reasons : VerdictFails(reason)
             \/ UnrelatedKnown \/ UnrelatedNew \/ AddsNuance \/ Reindex
      PROVE  run.errors => run'.errors
  BY <1>0, <1>3 DEF VerdictFails, UnrelatedKnown, UnrelatedNew, AddsNuance, Reindex, Locals
<1>4. ASSUME NEW targets \in SUBSET DOMAIN run.loaded, NEW label \in {"append", "dispute"},
             AimAt(targets, label)
      PROVE  run'.errors = run.errors
  BY <1>0, <1>4 DEF AimAt, Locals
<1>5. ASSUME NEW i \in DOMAIN notes, AppendSource(i) \/ MarkDisputed(i)
      PROVE  run'.errors = run.errors
  BY <1>0, <1>5 DEF AppendSource, MarkDisputed, Rewrite, Locals
<1>6. ASSUME AppendsDone \/ QueueDispute
      PROVE  run'.errors = run.errors
  BY <1>0, <1>6 DEF AppendsDone, QueueDispute, Settled, Locals
<1>7. QED
  BY <1>1, <1>2, <1>3, <1>4, <1>5, <1>6 DEF CandidateStep, Identical, Contradicts

(* A step within a turn that moves nothing.                                *)
LEMMA TurnStays ==
  ASSUME PendingInv, place' = place, ckpt'.pending = ckpt.pending,
         ckpt'.status # "complete", run.at # "off", run'.at # "off",
         run'.file = run.file, run'.queue = run.queue,
         run.errors => run'.errors,
         run'.at \in {"queuefailure", "recorderror"} => run'.errors,
         run'.at \in Archived \cup {"next"} => run.at \in Archived \cup {"next"} \/ run'.errors
  PROVE  PendingInv'
BY DEF PendingInv, Remaining, CompleteMeansDone, At

(* A turn that ends.                                                       *)
LEMMA TurnEnds ==
  ASSUME PendingInv, place' = place, ckpt'.pending = ckpt.pending,
         ckpt'.status # "complete", run' = EndTurn, TypeOK, run.at # "off",
         run.errors \/ run.at = "complete" \/ run.file \in Unsupported
  PROVE  PendingInv'
<1>1. run'.at = "next" /\ run'.errors = run.errors /\ run'.queue = run.queue
  BY DEF EndTurn, NoRun
<1>2. ~run.errors => Remaining' = {}
  BY <1>1 DEF PendingInv, Remaining, Archived
<1>3. QED
  BY <1>1, <1>2 DEF PendingInv, CompleteMeansDone, At

(* What is left when the file in hand is archived.                         *)
LEMMA FileLeaves ==
  ASSUME PendingInv, TypeOK, NEW there \in Places \ {"raw", "absent"},
         place' = [place EXCEPT ![File] = IF @ = "raw" THEN there ELSE @],
         ckpt' = ckpt, run.at \notin {"off"} \cup Archived, run'.at \in Archived,
         run'.file = run.file, run'.queue = run.queue, run'.errors = run.errors
  PROVE  PendingInv'
<1>1. place \in [Files -> Places] /\ ckpt.pending \subseteq Files
  BY DEF TypeOK, Checkpoint
<1>2. \A f \in Files : place'[f] = IF f = run.file /\ place[f] = "raw" THEN there ELSE place[f]
  BY <1>1 DEF File
<1>3. ~run.errors => Remaining' = {}
  BY <1>1, <1>2 DEF PendingInv, Remaining, Archived
<1>4. \A f \in ckpt.pending : place'[f] # "absent"
  BY <1>1, <1>2 DEF PendingInv
<1>5. QED
  BY <1>3, <1>4 DEF PendingInv, CompleteMeansDone, At, Archived

(* A new operation has all its files queued.                               *)
LEMMA StartKeepsPending ==
  ASSUME TypeOK, Start PROVE PendingInv'
<1>1. ASSUME NEW files \in SUBSET Files, NEW force \in BOOLEAN,
             \A f \in files : Exists(f), StartOperation(files, force)
      PROVE  PendingInv'
  <2>1. /\ run'.at = "next" /\ run'.queue = files
        /\ ckpt'.pending = files /\ ckpt'.status = "running" /\ place' = place
    BY <1>1 DEF StartOperation, NoRun
  <2>2. QED
    BY <1>1, <2>1 DEF PendingInv, Remaining, CompleteMeansDone, At, Exists
<1>2. \A f \in ResumeFiles : Exists(f)
  BY DEF ResumeFiles, AtPathOf
<1>3. \A files \in Selections : \A f \in files : Exists(f)
  BY DEF Selections, Exists
<1>4. ASSUME NEW files \in Selections, StartPlain(files) \/ StartForced(files)
      PROVE  PendingInv'
  BY <1>1, <1>3, <1>4, ChosenFiles DEF StartPlain, StartForced
<1>5. CASE StartResumed
  BY <1>1, <1>2, <1>5, ChosenFiles DEF StartResumed
<1>6. QED
  BY <1>4, <1>5, Start DEF Start

(* Each step of a turn: the file in hand is archived, or an error counted. *)
LEMMA TurnKeepsPending ==
  ASSUME TypeOK, SourceInv, PendingInv, TurnStep PROVE PendingInv'
<1>0. run \in Locals /\ ckpt \in Checkpoint
  BY DEF TypeOK
<1> USE DEF At, Goto, durable
<1>1. ASSUME NEW f \in Files, StartFile(f) PROVE PendingInv'
  <2>1. /\ run.at = "next" /\ run'.at = "opened" /\ run'.file = f
        /\ run'.queue = run.queue \ {f} /\ run'.errors = run.errors /\ place' = place
        /\ ckpt'.pending = ckpt.pending /\ ckpt'.status = "running"
    BY <1>0, <1>1 DEF StartFile, Locals, Checkpoint
  <2>2. ~run.errors => Remaining' = {}
    BY <2>1 DEF PendingInv, Remaining, Archived
  <2>3. QED
    BY <2>1, <2>2 DEF PendingInv, CompleteMeansDone
<1>2. CASE Finish
  <2>1. /\ run.at = "next" /\ run.queue = {} /\ run' = NoRun /\ place' = place
        /\ ckpt'.pending = ckpt.pending
        /\ ckpt'.status = "complete" => ~run.errors
    BY <1>0, <1>2 DEF Finish, Checkpoint
  <2>2. CompleteMeansDone'
    BY <2>1 DEF PendingInv, Remaining, CompleteMeansDone
  <2>3. QED
    BY <2>1, <2>2, Fields DEF PendingInv
<1>3. CASE QueueUnsupported
  BY <1>0, <1>3, TurnEnds DEF QueueUnsupported, File, PendingInv
<1>4. CASE Parse
  <2>1. run.at = "opened" /\ run'.at \in {"refused", "parsed"} /\ run'.file = run.file
        /\ run'.queue = run.queue /\ run'.errors = run.errors
    BY <1>0, <1>4 DEF Parse, Locals
  <2>2. QED
    BY <1>4, <2>1, TurnStays DEF Parse, PendingInv, Archived
<1>5. CASE IsDuplicate
  <2>1. run.at = "parsed" /\ run'.at = "dup" /\ run'.file = run.file
        /\ run'.queue = run.queue /\ run'.errors = run.errors
    BY <1>0, <1>5 DEF IsDuplicate, Locals
  <2>2. QED
    BY <1>5, <2>1, TurnStays DEF IsDuplicate, PendingInv, Archived
<1>6. CASE ArchiveDuplicate
  <2>1. run.at = "dup" /\ run'.at = "duprecord" /\ run'.file = run.file
        /\ run'.queue = run.queue /\ run'.errors = run.errors
    BY <1>0, <1>6 DEF ArchiveDuplicate, Locals
  <2>2. /\ place' = [place EXCEPT ![File] = IF @ = "raw" THEN "duplicates" ELSE @]
        /\ ckpt' = ckpt /\ "duplicates" \in Places \ {"raw", "absent"}
    BY <1>6 DEF ArchiveDuplicate, Places
  <2>3. QED
    BY <2>1, <2>2, FileLeaves DEF Archived, Places
<1>7. CASE RecordDuplicate \/ QueueDuplicate \/ RecordSuccess
  <2>1. run.at \in Archived /\ run'.at \in Archived /\ run'.file = run.file
        /\ run'.queue = run.queue /\ run'.errors = run.errors
    <3>1. CASE RecordDuplicate
      BY <1>0, <3>1 DEF RecordDuplicate, Locals, Archived
    <3>2. CASE QueueDuplicate
      BY <1>0, <3>2 DEF QueueDuplicate, Locals, Archived
    <3>3. CASE RecordSuccess
      BY <1>0, <3>3 DEF RecordSuccess, Locals, Archived
    <3>4. QED
      BY <1>7, <3>1, <3>2, <3>3
  <2>2. QED
    BY <1>7, <2>1, TurnStays
    DEF RecordDuplicate, QueueDuplicate, RecordSuccess, PendingInv, Archived
<1>8. CASE Archive
  <2>1. run.at = "cand" /\ run'.at = "record" /\ run'.file = run.file
        /\ run'.queue = run.queue /\ run'.errors = run.errors
    BY <1>0, <1>8 DEF Archive, Locals
  <2>2. QED
    BY <1>8, <2>1, FileLeaves DEF Archive, Archived, Places
<1>9. CASE CompleteFile
  <2>1. /\ run.at = "complete" /\ run' = EndTurn /\ place' = place
        /\ ckpt'.pending = ckpt.pending /\ ckpt'.status = ckpt.status
    BY <1>0, <1>9 DEF CompleteFile, Checkpoint
  <2>2. QED
    BY <2>1, TurnEnds DEF PendingInv
<1>10. CASE CatchError
  <2>1. /\ run.at \in {"caught", "refused"} /\ run'.at \in {"queuefailure", "recorderror"}
        /\ run'.file = run.file /\ run'.queue = run.queue /\ run'.errors
        /\ place' = place /\ ckpt'.pending = ckpt.pending /\ ckpt'.status = "error"
    BY <1>0, <1>10, Records, Fields DEF CatchError, Locals, Checkpoint
  <2>2. QED
    BY <2>1, TurnStays DEF Archived
<1>11. CASE QueueParserFailure
  <2>1. run.at = "queuefailure" /\ run'.at = "recorderror" /\ run'.file = run.file
        /\ run'.queue = run.queue /\ run'.errors = run.errors
    BY <1>0, <1>11 DEF QueueParserFailure, Locals
  <2>2. QED
    BY <1>11, <2>1, TurnStays DEF QueueParserFailure, PendingInv, Archived
<1>12. CASE RecordError
  BY <1>12, TurnEnds DEF RecordError, PendingInv
<1>13. QED
  BY <1>1, <1>2, <1>3, <1>4, <1>5, <1>6, <1>7, <1>8, <1>9, <1>10, <1>11, <1>12, TurnStep
  DEF TurnStep

(* Candidates, faults and files that arrive in raw/ during the operation.  *)
LEMMA RestKeepsPending ==
  ASSUME TypeOK, PendingInv,
         \/ CandidateStep \/ Fault \/ (\E f \in Files : Arrive(f)) \/ UNCHANGED vars
  PROVE  PendingInv'
<1>0. run \in Locals /\ place \in [Files -> Places] /\ ckpt \in Checkpoint
  BY DEF TypeOK
<1>1. CASE CandidateStep
  <2>1. /\ UNCHANGED <<place, ckpt>> /\ run.at # "off"
        /\ run'.at \notin {"off", "next", "queuefailure", "recorderror"} \cup Archived
        /\ run'.file = run.file /\ run'.queue = run.queue
    BY <1>1, CandidateFrame DEF CandidateLabels, Archived
  <2>2. QED
    BY <1>1, <2>1, ErrorsStay, TurnStays DEF PendingInv
<1>2. CASE Interrupt \/ Crash
  <2>1. /\ run.at # "off" /\ run'.at = "off" /\ place' = place
        /\ ckpt'.pending = ckpt.pending /\ ckpt'.status \in {"error", ckpt.status}
    BY <1>0, <1>2, Fields DEF Interrupt, Crash, durable, At, Checkpoint
  <2>2. QED
    BY <2>1 DEF PendingInv, CompleteMeansDone, At
<1>3. CASE CallFails
  <2>1. /\ run.at # "off" /\ run'.at = "caught" /\ UNCHANGED <<place, ckpt>>
        /\ run'.file = run.file /\ run'.queue = run.queue /\ run'.errors = run.errors
    BY <1>0, <1>3 DEF CallFails, Goto, TryLabels, Locals, durable
  <2>2. QED
    BY <2>1, TurnStays DEF PendingInv, Archived
<1>4. ASSUME NEW f \in Files, Arrive(f) PROVE PendingInv'
  <2>1. /\ UNCHANGED <<ckpt, run>> /\ f \notin ckpt.pending
        /\ \A g \in Files : g # f => place'[g] = place[g]
    BY <1>0, <1>4 DEF Arrive, PendingInv
  <2>2. ckpt.pending \subseteq Files
    BY <1>0 DEF Checkpoint
  <2>3. QED
    BY <2>1, <2>2 DEF PendingInv, Remaining, CompleteMeansDone, At
<1>5. CASE UNCHANGED vars
  BY <1>5 DEF vars, PendingInv, Remaining, CompleteMeansDone, At
<1>6. QED
  BY <1>1, <1>2, <1>3, <1>4, <1>5 DEF Fault

(* An operation of kb ingest that is recorded as complete has left none of *)
(* its files in raw/, those of unsupported formats apart, however earlier  *)
(* operations were interrupted (ingest.py, ingest; ingest_recovery.py,     *)
(* finish).                                                                *)
THEOREM CompleteMeansDoneHolds == Spec => []CompleteMeansDone
<1>1. Init => PendingInv
  BY Fields DEF Init, PendingInv, Remaining, CompleteMeansDone, NoRun, At
<1>2. IInv /\ PendingInv /\ [Next]_vars => PendingInv'
  BY StartKeepsPending, TurnKeepsPending, RestKeepsPending DEF IInv, Next, RunStep
<1>3. PendingInv => CompleteMeansDone
  BY DEF PendingInv
<1>4. QED
  BY <1>1, <1>2, <1>3, Invariance, PTL DEF Spec

-----------------------------------------------------------------------------
(* The end of a run.                                                       *)

(* The order of the labels.                                                *)
LEMMA Stages ==
  ASSUME NEW r
  PROVE  /\ r.at = "opened" => Stage(r) = 1
         /\ r.at = "parsed" => Stage(r) = 2
         /\ r.at \in CandidateLabels \cup {"dup"} => Stage(r) = 3
         /\ r.at \in {"record", "duprecord"} => Stage(r) = 4
         /\ r.at = "dupqueue" => Stage(r) = 5
         /\ r.at = "complete" => Stage(r) = 6
         /\ r.at \in {"caught", "refused"} => Stage(r) = 7
         /\ r.at = "queuefailure" => Stage(r) = 8
         /\ r.at = "recorderror" => Stage(r) = 9
         /\ r.at = "next" => Stage(r) = 10
         /\ r.at = "off" => Stage(r) = 11
BY DEF Stage, CandidateLabels

LEMMA Phases ==
  ASSUME NEW r
  PROVE  /\ r.at = "cand" => Phase(r) = 0
         /\ r.at = "verdict" => Phase(r) = 1
         /\ r.at \in {"append", "dispute"} => Phase(r) = 2
         /\ r.at = "reindex" => Phase(r) = 3
BY DEF Phase

(* The loop over the files: one is taken out of the queue, or its turn     *)
(* gets further.                                                           *)
LEMMA TurnDescends ==
  ASSUME TypeOK, TurnStep PROVE Nearer(run', run)
<1>0. run \in Locals
  BY DEF TypeOK
<1> USE DEF At, Goto, durable
<1>1. ASSUME NEW f \in Files, StartFile(f) PROVE Nearer(run', run)
  <2>1. f \in run.queue /\ run'.queue = run.queue \ {f}
    BY <1>0, <1>1 DEF StartFile, Locals
  <2>2. QED
    BY <2>1 DEF Nearer, Fewer
<1>2. ASSUME run'.queue = run.queue, Stage(run') > Stage(run) PROVE Nearer(run', run)
  BY <1>2 DEF Nearer
<1>3. CASE QueueUnsupported \/ CompleteFile \/ RecordError
  <2>1. run.at \in {"opened", "complete", "recorderror"} /\ run' = EndTurn
    BY <1>3 DEF QueueUnsupported, CompleteFile, RecordError
  <2>2. run'.at = "next" /\ run'.queue = run.queue
    BY <2>1, Fields
  <2>3. QED
    BY <1>2, <2>1, <2>2, Stages
<1>4. CASE Parse
  <2>1. run.at = "opened" /\ run'.at \in {"refused", "parsed"} /\ run'.queue = run.queue
    BY <1>0, <1>4 DEF Parse, Locals
  <2>2. QED
    BY <1>2, <2>1, Stages
<1>5. CASE IsDuplicate
  <2>1. run.at = "parsed" /\ run'.at = "dup" /\ run'.queue = run.queue
    BY <1>0, <1>5 DEF IsDuplicate, Locals
  <2>2. QED
    BY <1>2, <2>1, Stages
<1>6. CASE ArchiveDuplicate
  <2>1. run.at = "dup" /\ run'.at = "duprecord" /\ run'.queue = run.queue
    BY <1>0, <1>6 DEF ArchiveDuplicate, Locals
  <2>2. QED
    BY <1>2, <2>1, Stages
<1>7. CASE RecordDuplicate
  <2>1. run.at = "duprecord" /\ run'.at = "dupqueue" /\ run'.queue = run.queue
    BY <1>0, <1>7 DEF RecordDuplicate, Locals
  <2>2. QED
    BY <1>2, <2>1, Stages
<1>8. CASE QueueDuplicate
  <2>1. run.at = "dupqueue" /\ run'.at = "complete" /\ run'.queue = run.queue
    BY <1>0, <1>8 DEF QueueDuplicate, Locals
  <2>2. QED
    BY <1>2, <2>1, Stages
<1>9. CASE Archive
  <2>1. run.at = "cand" /\ run'.at = "record" /\ run'.queue = run.queue
    BY <1>0, <1>9 DEF Archive, Locals
  <2>2. QED
    BY <1>2, <2>1, Stages DEF CandidateLabels
<1>10. CASE RecordSuccess
  <2>1. run.at = "record" /\ run'.at = "complete" /\ run'.queue = run.queue
    BY <1>0, <1>10 DEF RecordSuccess, Locals
  <2>2. QED
    BY <1>2, <2>1, Stages
<1>11. CASE CatchError
  <2>1. /\ run.at \in {"caught", "refused"} /\ run'.queue = run.queue
        /\ run'.at \in {"queuefailure", "recorderror"}
    BY <1>0, <1>11, Records, Fields DEF CatchError, Locals
  <2>2. QED
    BY <1>2, <2>1, Stages
<1>12. CASE QueueParserFailure
  <2>1. run.at = "queuefailure" /\ run'.at = "recorderror" /\ run'.queue = run.queue
    BY <1>0, <1>12 DEF QueueParserFailure, Locals
  <2>2. QED
    BY <1>2, <2>1, Stages
<1>13. CASE Finish
  <2>1. run.at = "next" /\ run.queue = {} /\ run' = NoRun
    BY <1>13 DEF Finish
  <2>2. QED
    BY <1>2, <2>1, Fields, Stages
<1>14. QED
  BY <1>1, <1>3, <1>4, <1>5, <1>6, <1>7, <1>8, <1>9, <1>10, <1>11, <1>12, <1>13, TurnStep
  DEF TurnStep

(* The loop over the candidates, and that over the targets of one.         *)
LEMMA CandidateDescends ==
  ASSUME TypeOK, CandidateInHand, CandidateStep PROVE Nearer(run', run)
<1>0. run \in Locals
  BY DEF TypeOK
<1> USE DEF At, Goto, durable
<1>1. run'.queue = run.queue
  BY CandidateFrame
<1>2. ASSUME run.at \in CandidateLabels, run'.at \in CandidateLabels,
             Fewer(run'.cands, run.cands)
      PROVE  Nearer(run', run)
  BY <1>1, <1>2, Stages DEF Nearer
<1>3. ASSUME run.at \in CandidateLabels, run'.at \in CandidateLabels,
             run'.cands = run.cands, Phase(run') > Phase(run)
      PROVE  Nearer(run', run)
  BY <1>1, <1>3, Stages DEF Nearer
<1>4. ASSUME run.at \in {"verdict", "append", "dispute", "reindex"},
             run'.at = "cand", run'.cands = NextCandidate.cands
      PROVE  Nearer(run', run)
  <2>1. run.cand \in run.cands /\ run'.cands = run.cands \ {run.cand}
    BY <1>4, Fields DEF CandidateInHand
  <2>2. QED
    BY <1>2, <1>4, <2>1 DEF Fewer, CandidateLabels
<1>5. ASSUME NEW titles \in SUBSET Titles, Extract(titles) PROVE Nearer(run', run)
  <2>1. run.at = "parsed" /\ run'.at = "cand"
    BY <1>0, <1>5 DEF Extract, Locals
  <2>2. QED
    BY <1>1, <2>1, Stages DEF Nearer, CandidateLabels
<1>6. ASSUME NEW t \in Titles,
             SkipCandidate(t) \/ \E reason \in Reasons : QueueClassification(t, reason)
      PROVE  Nearer(run', run)
  <2>1. /\ run.at = "cand" /\ run'.at = "cand"
        /\ t \in run.cands /\ run'.cands = run.cands \ {t}
    BY <1>0, <1>6 DEF SkipCandidate, QueueClassification, Locals
  <2>2. QED
    BY <1>2, <2>1 DEF Fewer, CandidateLabels
<1>7. ASSUME NEW t \in Titles, MatchCandidate(t) PROVE Nearer(run', run)
  <2>1. run.at = "cand" /\ run'.at = "verdict" /\ run'.cands = run.cands
    BY <1>0, <1>7 DEF MatchCandidate, Locals
  <2>2. QED
    BY <1>3, <2>1, Phases DEF CandidateLabels
<1>8. ASSUME \/ \E reason \in Reasons : VerdictFails(reason)
             \/ UnrelatedKnown \/ AddsNuance \/ Reindex
      PROVE  Nearer(run', run)
  <2>1. NextCandidate \in Locals
    BY Records
  <2>2. /\ run.at \in {"verdict", "reindex"}
        /\ run'.at = NextCandidate.at /\ run'.cands = NextCandidate.cands
    BY <1>8, <2>1 DEF VerdictFails, UnrelatedKnown, AddsNuance, Reindex, Locals
  <2>3. QED
    BY <1>4, <2>2, Fields
<1>9. CASE UnrelatedNew
  <2>1. run.at = "verdict" /\ run'.at = "reindex" /\ run'.cands = run.cands
    BY <1>0, <1>9 DEF UnrelatedNew, Locals
  <2>2. QED
    BY <1>3, <2>1, Phases DEF CandidateLabels
<1>10. ASSUME NEW targets, NEW label \in {"append", "dispute"}, AimAt(targets, label)
       PROVE  Nearer(run', run)
  <2>1. run.at = "verdict" /\ run'.at = label /\ run'.cands = run.cands
    BY <1>0, <1>10 DEF AimAt, Locals
  <2>2. QED
    BY <1>3, <2>1, Phases DEF CandidateLabels
<1>11. ASSUME NEW i \in DOMAIN notes, AppendSource(i) \/ MarkDisputed(i)
       PROVE  Nearer(run', run)
  <2>1. /\ run.at \in {"append", "dispute"} /\ run'.at = run.at
        /\ run'.cands = run.cands
        /\ i \in run.targets /\ run'.targets = run.targets \ {i}
    BY <1>0, <1>11 DEF AppendSource, MarkDisputed, Rewrite, Locals
  <2>2. Stage(run') = Stage(run) /\ Phase(run') = Phase(run)
    BY <2>1, Stages, Phases DEF CandidateLabels
  <2>3. QED
    BY <1>1, <2>1, <2>2 DEF Nearer, Fewer
<1>12. ASSUME AppendsDone \/ QueueDispute PROVE Nearer(run', run)
  <2>1. run.at \in {"append", "dispute"} /\ run' = Settled
    BY <1>12 DEF AppendsDone, QueueDispute
  <2>2. CASE run.mutated
    <3>1. run'.at = "reindex" /\ run'.cands = run.cands
      BY <1>0, <2>1, <2>2 DEF Settled, Locals
    <3>2. QED
      BY <1>3, <2>1, <3>1, Phases DEF CandidateLabels
  <2>3. CASE ~run.mutated
    BY <1>4, <2>1, <2>3, Fields DEF Settled
  <2>4. QED
    BY <2>2, <2>3
<1>13. QED
  BY <1>5, <1>6, <1>7, <1>8, <1>9, <1>10, <1>11, <1>12
  DEF CandidateStep, Identical, Contradicts

(* A fault ends the turn of a file, or the run.                            *)
LEMMA FaultDescends ==
  ASSUME TypeOK, Fault PROVE Nearer(run', run)
<1>0. run \in Locals
  BY DEF TypeOK
<1>1. CASE CallFails
  <2>1. run.at \in TryLabels /\ run'.at = "caught" /\ run'.queue = run.queue
    BY <1>0, <1>1 DEF CallFails, Goto, Locals
  <2>2. Stage(run) \in 1..6 /\ Stage(run') = 7
    BY <2>1, Stages DEF TryLabels, CandidateLabels
  <2>3. QED
    BY <2>1, <2>2 DEF Nearer
<1>2. CASE Interrupt \/ Crash
  <2>1. run.at \in Labels \ {"off"} /\ run' = NoRun
    BY <1>0, <1>2 DEF Interrupt, Crash, At, Locals
  <2>2. Stage(run) \in 1..10 /\ Stage(run') = 11 /\ run'.queue = {}
    BY <2>1, Fields, Stages DEF Labels, TryLabels, CandidateLabels
  <2>3. QED
    BY <2>2 DEF Nearer, Fewer
<1>3. QED
  BY <1>1, <1>2 DEF Fault

(* The loops of ingest.py over files, candidates and target notes end,     *)
(* whatever providers answer and whichever calls fail: what RawIsEmptied   *)
(* needs besides the user's return and CompleteMeansDone.                  *)
THEOREM RunsDescendHolds == Spec => RunsDescend
<1>1. IInv /\ [Next]_vars =>
        [~At("off") => Nearer(run', run) \/ \E f \in Files : Arrive(f)]_vars
  <2> SUFFICES ASSUME IInv, Next, ~At("off"), ~\E f \in Files : Arrive(f)
               PROVE  Nearer(run', run)
    OBVIOUS
  <2>1. TypeOK /\ CandidateInHand
    BY DEF IInv, NoteInv
  <2>2. ~Start
    BY DEF Start, StartPlain, StartForced, StartResumed
  <2>3. QED
    BY <2>1, <2>2, TurnDescends, CandidateDescends, FaultDescends DEF Next, RunStep
<1>2. QED
  BY <1>1, Invariance, PTL DEF Spec, RunsDescend
===============================================================================
