--------------------------- MODULE IngestLockProofs ---------------------------
(***************************************************************************)
(* Proofs about IngestLock, for every set of runs, both recovery modes and *)
(* pid reuse or not.  The lock only excludes when recovery runs do not     *)
(* overlap other acquisitions, so the theorems assume Serialized.          *)
(***************************************************************************)
EXTENDS IngestLock, TLAPS

(* No recovery run acquires the lock while another run does.               *)
AcquireAlone ==
  \A p, q \in Procs :
    p # q /\ pc[p] \in Acquiring /\ pc[q] \in Acquiring => mode[p] = "plain"

(* The run that is about to write owns the empty file it opened.           *)
WriterHasFile == \A p \in Procs : pc[p] = "write" => lock = EmptyOf(p)

(* What a recovery run is about to unlink is still stale.                  *)
UnlinksStale ==
  \A p \in Procs : pc[p] = "unlink" => mode[p] # "plain" /\ LooksStale

(* A written lock is that of a run that holds it, or died.                 *)
OwnerKnown ==
  lock.kind = "owned" => /\ lock.pid \in Procs
                         /\ pc[lock.pid] \in Critical \cup {"dead"}

(* The payload a run edits is its own.                                     *)
SwapsOwn == \A p \in Procs : pc[p] \in {"swap", "lastswap"} => seen[p] = p

(* What a plain run checked is still so when it starts its operation.      *)
PlainChecked ==
  \A p \in Procs : pc[p] = "start" /\ mode[p] = "plain" => ~Resumable

LockInv == /\ LockNamesHolder /\ AcquireAlone /\ WriterHasFile
           /\ UnlinksStale /\ OwnerKnown /\ SwapsOwn

IInv == TypeOK /\ LockInv /\ CheckpointStaysOwn /\ PlainChecked

-----------------------------------------------------------------------------
(* Every variable keeps its type: the lock file and the checkpoint have    *)
(* one of the shapes the code writes, each run one of the labels.          *)
THEOREM TypeCorrect == Spec => []TypeOK
<1> USE DEF TypeOK, LockType, CkptType, Labels, Acquiring, Critical, Modes, Maybe
<1>1. Init => TypeOK
  BY DEF Init, Absent
<1>2. ASSUME TypeOK, NEW p \in Procs, Step(p) PROVE TypeOK'
  <2>1. CASE Acquire(p)
    BY <1>2, <2>1 DEF Acquire, OpenCreates, OpenExists, InspectRefuses,
       InspectDiscards, Unlink, WritePayload, Goto, Absent, EmptyOf, OwnedBy
  <2>2. CASE CheckPasses(p) \/ CheckFails(p) \/ StartOperation(p)
    BY <1>2, <2>2 DEF CheckPasses, CheckFails, StartOperation, Goto
  <2>3. CASE ReadOwnLock(p) \/ ReplaceLock(p) \/ SkipClear(p)
    BY <1>2, <2>3 DEF ReadOwnLock, ReplaceLock, SkipClear, Goto, OwnedBy
  <2>4. CASE \E status \in {"running", "error"} : SaveProgress(p, status)
    BY <1>2, <2>4 DEF SaveProgress
  <2>5. CASE Leave(p)
    BY <1>2, <2>5 DEF Leave, Finish, Fatal, Goto
  <2>6. CASE Release(p)
    BY <1>2, <2>6 DEF Release, ReleaseReads, ReleaseRemoves, Goto, Absent
  <2> QED
    BY <1>2, <2>1, <2>2, <2>3, <2>4, <2>5, <2>6 DEF Step, Process
<1>3. ASSUME TypeOK, NEW p \in Procs, NEW m \in {"plain"} \cup Recovery, Start(p, m)
      PROVE  TypeOK'
  BY <1>3, RecoveryAssumption DEF Start, Goto
<1>4. ASSUME TypeOK, NEW p \in Procs, Crash(p) PROVE TypeOK'
  BY <1>4 DEF Crash, Goto
<1>5. ASSUME TypeOK, UNCHANGED vars PROVE TypeOK'
  BY <1>5 DEF vars
<1>6. TypeOK /\ [Next]_vars => TypeOK'
  <2> HIDE DEF TypeOK
  <2> QED
    BY <1>2, <1>3, <1>4, <1>5 DEF Next, AllEnded
<1> QED
  BY <1>1, <1>6, PTL DEF Spec

(* LockNamesHolder alone makes the runs exclusive.                         *)
LEMMA HolderIsUnique ==
  ASSUME LockNamesHolder PROVE MutualExclusion
BY DEF LockNamesHolder, MutualExclusion, OwnedBy
-----------------------------------------------------------------------------
(* At first there is no run, no lock file and no checkpoint.               *)
LEMMA LockInvInit == Init => IInv
BY DEF Init, IInv, TypeOK, LockType, CkptType, Labels, Acquiring, Critical,
   Modes, Maybe, Absent, LockInv, LockNamesHolder, AcquireAlone, WriterHasFile,
   UnlinksStale, OwnerKnown, SwapsOwn, CheckpointStaysOwn, PlainChecked

(* Starting a run touches no file and, because recovery runs acquire the   *)
(* lock alone, breaks nothing that other runs rely on.                     *)
LEMMA StartKeepsLockInv ==
  ASSUME Serialized, TypeOK, LockInv,
         NEW p \in Procs, NEW m \in {"plain"} \cup Recovery, Start(p, m)
  PROVE  LockInv'
<1> USE DEF TypeOK, Labels, Acquiring, Critical, Maybe, Modes
<1>1. /\ pc[p] = "idle" /\ lock' = lock /\ seen' = seen
      /\ mode' = [mode EXCEPT ![p] = m]
      /\ pc' \in {[pc EXCEPT ![p] = "open"], [pc EXCEPT ![p] = "done"]}
      /\ op' \in [Procs -> Maybe]
      /\ \A q \in Procs \ {p} : op'[q] = op[q]
  BY DEF Start, Goto, CkptType
<1>2. \A q \in Procs \ {p} : /\ pc'[q] = pc[q] /\ mode'[q] = mode[q]
                             /\ op'[q] = op[q]
                             /\ pc[q] \in Acquiring => m = "plain" /\ mode[q] = "plain"
  BY <1>1 DEF Start, MayStart
<1>3. pc'[p] \in {"open", "done"} /\ mode'[p] = m
  BY <1>1
<1>4. LockNamesHolder'
  BY <1>1, <1>2, <1>3 DEF LockInv, LockNamesHolder, OwnedBy
<1>5. AcquireAlone'
  BY <1>2, <1>3 DEF LockInv, AcquireAlone
<1>6. WriterHasFile'
  BY <1>1, <1>2, <1>3 DEF LockInv, WriterHasFile, EmptyOf
<1>7. OwnerKnown'
  BY <1>1, <1>2 DEF LockInv, OwnerKnown
<1>8. UnlinksStale'
  BY <1>1, <1>2, <1>3, <1>7 DEF LockInv, UnlinksStale
<1>9. SwapsOwn'
  BY <1>1, <1>2, <1>3 DEF LockInv, SwapsOwn
<1>10. QED
  BY <1>4, <1>5, <1>6, <1>7, <1>8, <1>9 DEF LockInv

(* Acquiring the lock: only Unlink and WritePayload are delicate.          *)
LEMMA AcquireKeepsLockInv ==
  ASSUME TypeOK, LockInv, NEW p \in Procs, Acquire(p)
  PROVE  LockInv'
<1> USE DEF TypeOK, Labels, Acquiring, Critical, Maybe, Modes, LockInv, Goto
<1>1. CASE OpenCreates(p)
  <2> USE <1>1 DEF OpenCreates
  <2>1. LockNamesHolder'
    BY DEF LockNamesHolder, OwnedBy
  <2>2. AcquireAlone'
    BY DEF AcquireAlone
  <2>3. WriterHasFile'
    BY DEF WriterHasFile, EmptyOf
  <2>4. UnlinksStale' /\ OwnerKnown' /\ SwapsOwn'
    BY DEF UnlinksStale, OwnerKnown, SwapsOwn, EmptyOf, LooksStale, OwnerLives, AcquireAlone
  <2>5. QED
    BY <2>1, <2>2, <2>3, <2>4
<1>2. CASE OpenExists(p) \/ InspectRefuses(p)
  <2> USE <1>2 DEF OpenExists, InspectRefuses
  <2>1. LockNamesHolder' /\ WriterHasFile'
    BY DEF LockNamesHolder, WriterHasFile, OwnedBy, EmptyOf
  <2>2. AcquireAlone' /\ SwapsOwn'
    BY DEF AcquireAlone, SwapsOwn
  <2>3. OwnerKnown'
    BY DEF OwnerKnown
  <2>4. UnlinksStale'
    BY DEF UnlinksStale, LooksStale, OwnerLives, Live, OwnerKnown
  <2>5. QED
    BY <2>1, <2>2, <2>3, <2>4
<1>3. CASE InspectDiscards(p)
  <2> USE <1>3 DEF InspectDiscards
  <2>1. LockNamesHolder' /\ WriterHasFile'
    BY DEF LockNamesHolder, WriterHasFile, OwnedBy, EmptyOf
  <2>2. AcquireAlone' /\ SwapsOwn'
    BY DEF AcquireAlone, SwapsOwn
  <2>3. OwnerKnown'
    BY DEF OwnerKnown
  <2>4. UnlinksStale'
    BY DEF UnlinksStale, LooksStale, OwnerLives, Live, OwnerKnown
  <2>5. QED
    BY <2>1, <2>2, <2>3, <2>4
<1>4. CASE Unlink(p)
  <2> USE <1>4 DEF Unlink
  <2>1. mode[p] # "plain" /\ ~OwnerLives
    BY DEF UnlinksStale, LooksStale
  <2>2. \A q \in Procs : pc[q] \notin Critical /\ pc[q] # "write"
    BY <2>1 DEF LockNamesHolder, AcquireAlone, OwnerLives, Live, OwnedBy
  <2>3. LockNamesHolder' /\ WriterHasFile' /\ OwnerKnown' /\ SwapsOwn'
    BY <2>2 DEF LockNamesHolder, WriterHasFile, OwnerKnown, SwapsOwn, Absent
  <2>4. AcquireAlone' /\ UnlinksStale'
    BY DEF AcquireAlone, UnlinksStale, LooksStale, OwnerLives, Absent
  <2>5. QED
    BY <2>3, <2>4
<1>5. CASE WritePayload(p)
  <2> USE <1>5 DEF WritePayload
  <2>1. lock = EmptyOf(p) /\ lock' = OwnedBy(op[p], p)
    BY DEF WriterHasFile
  <2>2. \A q \in Procs : pc[q] \notin Critical /\ (pc[q] = "write" => q = p)
    BY <2>1 DEF LockNamesHolder, WriterHasFile, OwnedBy, EmptyOf
  <2>3. LockNamesHolder' /\ WriterHasFile' /\ OwnerKnown' /\ SwapsOwn'
    BY <2>1, <2>2 DEF LockNamesHolder, WriterHasFile, OwnerKnown, SwapsOwn, OwnedBy
  <2>4. AcquireAlone' /\ UnlinksStale'
    BY DEF AcquireAlone, UnlinksStale
  <2>5. QED
    BY <2>3, <2>4
<1>6. QED
  BY <1>1, <1>2, <1>3, <1>4, <1>5 DEF Acquire

(* A run that holds the lock writes at most its own payload again.         *)
LEMMA ProcessKeepsLockInv ==
  ASSUME TypeOK, LockInv, NEW p \in Procs, Process(p)
  PROVE  LockInv'
<1> USE DEF TypeOK, Labels, Acquiring, Critical, Maybe, Modes, LockInv, Goto
<1>1. /\ pc[p] \in Critical /\ pc'[p] \in Critical
      /\ pc' = [pc EXCEPT ![p] = pc'[p]]
      /\ mode' = mode /\ op' = op
      /\ \A q \in Procs \ {p} : seen'[q] = seen[q]
  <2>1. CASE CheckPasses(p) \/ CheckFails(p) \/ StartOperation(p)
    BY <2>1 DEF CheckPasses, CheckFails, StartOperation
  <2>2. CASE ReadOwnLock(p) \/ ReplaceLock(p) \/ SkipClear(p)
    BY <2>2 DEF ReadOwnLock, ReplaceLock, SkipClear
  <2>3. CASE \E status \in {"running", "error"} : SaveProgress(p, status)
    BY <2>3 DEF SaveProgress
  <2>4. CASE Leave(p)
    BY <2>4 DEF Leave, Finish, Fatal
  <2>5. QED
    BY <2>1, <2>2, <2>3, <2>4 DEF Process
<1>2. lock = OwnedBy(op[p], p)
  BY <1>1 DEF LockNamesHolder
<1>3. lock' = lock /\ (pc'[p] \in {"swap", "lastswap"} => seen'[p] = p)
  <2>1. CASE ReadOwnLock(p)
    BY <2>1, <1>2 DEF ReadOwnLock, OwnedBy
  <2>2. CASE ReplaceLock(p)
    BY <2>2, <1>2 DEF ReplaceLock, SwapsOwn
  <2>3. CASE CheckPasses(p) \/ CheckFails(p) \/ StartOperation(p) \/ SkipClear(p)
    BY <2>3 DEF CheckPasses, CheckFails, StartOperation, SkipClear
  <2>4. CASE \E status \in {"running", "error"} : SaveProgress(p, status)
    BY <2>4 DEF SaveProgress
  <2>5. CASE Leave(p)
    BY <2>5 DEF Leave, Finish, Fatal
  <2> QED
    BY <2>1, <2>2, <2>3, <2>4, <2>5 DEF Process
<1>4. LockNamesHolder' /\ WriterHasFile'
  BY <1>1, <1>3 DEF LockNamesHolder, WriterHasFile, OwnedBy, EmptyOf
<1>5. AcquireAlone' /\ SwapsOwn'
  BY <1>1, <1>3 DEF AcquireAlone, SwapsOwn
<1>6. OwnerKnown'
  BY <1>1, <1>3 DEF OwnerKnown
<1>7. UnlinksStale'
  BY <1>1, <1>3 DEF UnlinksStale, LooksStale, OwnerLives, Live, OwnerKnown
<1>8. QED
  BY <1>4, <1>5, <1>6, <1>7

(* Releasing and dying.                                                    *)
LEMMA ReleaseKeepsLockInv ==
  ASSUME TypeOK, LockInv, NEW p \in Procs, Release(p) \/ Crash(p)
  PROVE  LockInv'
<1> USE DEF TypeOK, Labels, Acquiring, Critical, Maybe, Modes, LockInv, Goto
<1>1. CASE ReleaseReads(p)
  <2>1. lock = OwnedBy(op[p], p)
    BY <1>1 DEF ReleaseReads, LockNamesHolder
  <2>2. pc' = [pc EXCEPT ![p] = "remove"] /\ lock' = lock /\ mode' = mode
        /\ op' = op /\ seen' = seen
    BY <1>1, <2>1 DEF ReleaseReads, OwnedBy
  <2>3. LockNamesHolder' /\ WriterHasFile' /\ OwnerKnown' /\ SwapsOwn'
    BY <1>1, <2>2 DEF ReleaseReads, LockNamesHolder, WriterHasFile, OwnerKnown,
       SwapsOwn, OwnedBy, EmptyOf
  <2>4. AcquireAlone' /\ UnlinksStale'
    BY <1>1, <2>2 DEF ReleaseReads, AcquireAlone, UnlinksStale, LooksStale,
       OwnerLives, Live, OwnerKnown
  <2>5. QED
    BY <2>3, <2>4
<1>2. CASE ReleaseRemoves(p)
  <2> USE <1>2 DEF ReleaseRemoves
  <2>1. lock = OwnedBy(op[p], p)
    BY DEF LockNamesHolder
  <2>2. \A q \in Procs \ {p} : pc[q] \notin Critical /\ pc[q] # "write"
    BY <2>1 DEF LockNamesHolder, WriterHasFile, OwnedBy, EmptyOf
  <2>3. LockNamesHolder' /\ WriterHasFile' /\ OwnerKnown' /\ SwapsOwn'
    BY <2>2 DEF LockNamesHolder, WriterHasFile, OwnerKnown, SwapsOwn, Absent
  <2>4. AcquireAlone' /\ UnlinksStale'
    BY DEF AcquireAlone, UnlinksStale, LooksStale, OwnerLives, Absent
  <2>5. QED
    BY <2>3, <2>4
<1>3. CASE Crash(p)
  <2> USE <1>3 DEF Crash
  <2>1. LockNamesHolder' /\ WriterHasFile' /\ SwapsOwn' /\ AcquireAlone'
    BY DEF LockNamesHolder, WriterHasFile, SwapsOwn, AcquireAlone, OwnedBy, EmptyOf
  <2>2. OwnerKnown'
    BY DEF OwnerKnown
  <2>3. UnlinksStale'
    BY DEF UnlinksStale, LooksStale, OwnerLives, Live, OwnerKnown
  <2>4. QED
    BY <2>1, <2>2, <2>3
<1>4. QED
  BY <1>1, <1>2, <1>3 DEF Release

-----------------------------------------------------------------------------
(* Only the holder of the lock changes the checkpoint.                     *)
LEMMA CheckpointWriter ==
  ASSUME TypeOK, LockInv, [Next]_vars
  PROVE  \/ ckpt' = ckpt
         \/ \E p \in Procs :
              /\ pc[p] \in {"start", "work", "swap", "clear", "lastswap"} /\ pc'[p] # "start"
              /\ op' = op /\ mode' = mode
              /\ pc' = [pc EXCEPT ![p] = pc'[p]]
              /\ \A q \in Procs \ {p} : pc[q] \notin Critical
              /\ \/ pc[p] = "start" /\ ckpt'.op = op[p]
                 \/ pc[p] # "start" /\ ckpt'.op = ckpt.op
<1> USE DEF TypeOK, CkptType
<1>1. ASSUME NEW p \in Procs, ckpt' # ckpt, Process(p)
      PROVE  /\ pc[p] \in {"start", "work", "swap", "clear", "lastswap"} /\ pc'[p] # "start"
             /\ op' = op /\ mode' = mode
             /\ pc' = [pc EXCEPT ![p] = pc'[p]]
             /\ \/ pc[p] = "start" /\ ckpt'.op = op[p]
                \/ pc[p] # "start" /\ ckpt'.op = ckpt.op
  <2>1. CASE StartOperation(p)
    BY <2>1 DEF StartOperation, Goto
  <2>2. CASE \E status \in {"running", "error"} : SaveProgress(p, status)
    BY <2>2 DEF SaveProgress
  <2>3. CASE Leave(p)
    BY <1>1, <2>3 DEF Leave, Finish, Fatal, Goto
  <2>4. CASE CheckPasses(p) \/ CheckFails(p) \/ ReadOwnLock(p) \/ ReplaceLock(p)
             \/ SkipClear(p)
    BY <1>1, <2>4 DEF CheckPasses, CheckFails, ReadOwnLock, ReplaceLock, SkipClear
  <2>5. QED
    BY <1>1, <2>1, <2>2, <2>3, <2>4 DEF Process
<1>2. ASSUME NEW p \in Procs, Acquire(p) \/ Release(p) \/ Crash(p)
      PROVE  ckpt' = ckpt
  BY <1>2 DEF Acquire, OpenCreates, OpenExists, InspectRefuses, InspectDiscards,
     Unlink, WritePayload, Release, ReleaseReads, ReleaseRemoves, Crash
<1>3. ASSUME NEW p \in Procs, pc[p] \in {"start", "work", "swap", "clear", "lastswap"}
      PROVE  \A q \in Procs \ {p} : pc[q] \notin Critical
  BY <1>3, HolderIsUnique DEF LockInv, MutualExclusion, Critical
<1>4. ASSUME NEW p \in Procs, NEW m \in {"plain"} \cup Recovery, Start(p, m)
      PROVE  ckpt' = ckpt
  BY <1>4 DEF Start
<1>5. QED
  BY <1>1, <1>2, <1>3, <1>4 DEF Next, Step, AllEnded, vars

(* So a run keeps the checkpoint it wrote, and what a plain run checked    *)
(* cannot change before it starts its operation.                           *)
LEMMA CheckpointStep ==
  ASSUME TypeOK, LockInv, CheckpointStaysOwn, PlainChecked, [Next]_vars
  PROVE  CheckpointStaysOwn' /\ PlainChecked'
<1> USE DEF TypeOK, Labels, Acquiring, Critical, Maybe, Modes
(* How a run comes to the labels the two invariants speak of.              *)
<1> DEFINE FromStart(p) ==
             pc'[p] \in {"work", "swap"} =>
               /\ op'[p] = op[p]
               /\ pc[p] \in {"work", "swap"} \/ (pc[p] = "start" /\ ckpt'.op = op[p])
           FromCheck(p) ==
             pc'[p] = "start" =>
               /\ mode'[p] = mode[p]
               /\ \/ pc[p] = "start"
                  \/ ckpt' = ckpt /\ (mode[p] = "plain" => ~Resumable)
<1>1. ASSUME NEW p \in Procs PROVE FromStart(p) /\ FromCheck(p)
  <2>1. ASSUME NEW q \in Procs, Step(q) PROVE FromStart(p) /\ FromCheck(p)
    <3>1. CASE Acquire(q)
      BY <3>1 DEF Acquire, OpenCreates, OpenExists, InspectRefuses,
         InspectDiscards, Unlink, WritePayload, Goto
    <3>2. CASE CheckPasses(q) \/ CheckFails(q) \/ StartOperation(q)
      BY <3>2 DEF CheckPasses, CheckFails, StartOperation, Goto
    <3>3. CASE ReadOwnLock(q) \/ ReplaceLock(q) \/ SkipClear(q)
      BY <3>3 DEF ReadOwnLock, ReplaceLock, SkipClear, Goto
    <3>4. CASE \E status \in {"running", "error"} : SaveProgress(q, status)
      BY <3>4 DEF SaveProgress
    <3>5. CASE Leave(q)
      BY <3>5 DEF Leave, Finish, Fatal, Goto
    <3>6. CASE Release(q)
      BY <3>6 DEF Release, ReleaseReads, ReleaseRemoves, Goto
    <3> QED
      BY <2>1, <3>1, <3>2, <3>3, <3>4, <3>5, <3>6 DEF Step, Process
  <2>2. ASSUME NEW q \in Procs,
               Crash(q) \/ \E m \in {"plain"} \cup Recovery : Start(q, m)
        PROVE  FromStart(p) /\ FromCheck(p)
    BY <2>2 DEF Crash, Start, Goto
  <2>3. UNCHANGED vars => FromStart(p) /\ FromCheck(p)
    BY DEF vars
  <2> QED
    BY <2>1, <2>2, <2>3 DEF Next, AllEnded
<1>2. CASE ckpt' = ckpt
  <2>1. CheckpointStaysOwn'
    BY <1>1, <1>2 DEF CheckpointStaysOwn, OwnCheckpoint
  <2>2. PlainChecked'
    BY <1>1, <1>2 DEF PlainChecked, Resumable
  <2>3. QED
    BY <2>1, <2>2
<1>3. CASE ckpt' # ckpt
  <2>1. PICK p \in Procs :
          /\ pc[p] \in Critical \ {"check"} /\ pc'[p] # "start"
          /\ op' = op /\ mode' = mode
          /\ pc' = [pc EXCEPT ![p] = pc'[p]]
          /\ \A q \in Procs \ {p} : pc[q] \notin Critical
          /\ \/ pc[p] = "start" /\ ckpt'.op = op[p]
             \/ pc[p] # "start" /\ ckpt'.op = ckpt.op
    BY <1>3, CheckpointWriter
  <2>2. \A q \in Procs : pc'[q] \in {"work", "swap", "start"} => q = p
    BY <2>1
  <2>3. CheckpointStaysOwn'
    BY <1>1, <2>1, <2>2 DEF CheckpointStaysOwn, OwnCheckpoint
  <2>4. PlainChecked'
    BY <2>1, <2>2 DEF PlainChecked
  <2>5. QED
    BY <2>3, <2>4
<1>4. QED
  BY <1>2, <1>3

-----------------------------------------------------------------------------
(* The two parts together: every step keeps the inductive invariant.       *)
LEMMA StepKeepsIInv ==
  ASSUME Serialized, TypeOK, LockInv, CheckpointStaysOwn, PlainChecked, [Next]_vars
  PROVE  LockInv' /\ CheckpointStaysOwn' /\ PlainChecked'
<1>1. LockInv'
  <2>1. CASE UNCHANGED vars
    BY <2>1 DEF vars, LockInv, LockNamesHolder, AcquireAlone, WriterHasFile,
       UnlinksStale, LooksStale, OwnerLives, Live, OwnerKnown, SwapsOwn
  <2>2. CASE Next
    BY <2>1, <2>2, StartKeepsLockInv, AcquireKeepsLockInv, ProcessKeepsLockInv,
       ReleaseKeepsLockInv DEF Next, Step, AllEnded
  <2>3. QED
    BY <2>1, <2>2
<1>2. QED
  BY <1>1, CheckpointStep

(* The inductive invariant: while recovery runs acquire the lock alone.    *)
THEOREM Invariance == ASSUME Serialized PROVE Spec => []IInv
<1>1. Init => IInv
  BY LockInvInit
<1>2. TypeOK /\ TypeOK' /\ IInv /\ [Next]_vars => IInv'
  BY StepKeepsIInv DEF IInv
<1>3. QED
  BY <1>1, <1>2, TypeCorrect, PTL DEF Spec

(* At most one run of kb ingest works on the data directory at a time.     *)
THEOREM MutualExclusionHolds == ASSUME Serialized PROVE Spec => []MutualExclusion
<1>1. IInv => MutualExclusion
  BY HolderIsUnique DEF IInv, LockInv
<1>2. QED
  BY <1>1, Invariance, PTL

(* The lock file names the run that works, and its operation.              *)
THEOREM LockNamesHolderHolds == ASSUME Serialized PROVE Spec => []LockNamesHolder
<1>1. IInv => LockNamesHolder
  BY DEF IInv, LockInv
<1>2. QED
  BY <1>1, Invariance, PTL

(* A working run never finds the checkpoint of another operation.          *)
THEOREM CheckpointStaysOwnHolds ==
  ASSUME Serialized PROVE Spec => []CheckpointStaysOwn
<1>1. IInv => CheckpointStaysOwn
  BY DEF IInv
<1>2. QED
  BY <1>1, Invariance, PTL

(* A plain run never discards an interrupted checkpoint.                   *)
THEOREM PlainKeepsInterruptedHolds ==
  ASSUME Serialized PROVE Spec => PlainKeepsInterrupted
<1>1. IInv /\ [Next]_vars => [PlainStart => ~Resumable]_vars
  BY DEF IInv, PlainChecked, PlainStart
<1>2. QED
  BY <1>1, Invariance, PTL DEF Spec, PlainKeepsInterrupted

-----------------------------------------------------------------------------
(* The lock file implements the abstract lock: every step takes, gives up, *)
(* discards or leaves alone.                                               *)
LEMMA LockStepRefines ==
  ASSUME TypeOK, LockInv, NEW p \in Procs, Acquire(p) \/ Process(p) \/ Release(p)
  PROVE  [Abstract!Next]_<<Owner, Dead>>
<1> USE DEF TypeOK, LockInv
<1> USE DEF Labels, Acquiring, Critical, Maybe, Modes
<1>1. pc[p] # "dead" /\ Dead' = Dead
  BY DEF Dead, Goto, Acquire, OpenCreates, OpenExists, InspectRefuses, InspectDiscards,
     Unlink, WritePayload, Process, CheckPasses, CheckFails, StartOperation, ReadOwnLock,
     ReplaceLock, SkipClear, SaveProgress, Leave, Finish, Fatal,
     Release, ReleaseReads, ReleaseRemoves
<1>2. CASE lock' = lock
  BY <1>1, <1>2 DEF Owner
<1>3. CASE OpenCreates(p)
  BY <1>1, <1>3 DEF OpenCreates, Owner, EmptyOf
<1>4. CASE Unlink(p)
  <2>1. ~OwnerLives /\ Owner' = None
    BY <1>4 DEF Unlink, UnlinksStale, LooksStale, Owner, Absent
  <2>2. CASE lock.kind = "owned"
    BY <1>1, <2>1, <2>2 DEF OwnerKnown, OwnerLives, Live, Owner, Dead,
       Abstract!Next, Abstract!Discard
  <2>3. CASE lock.kind # "owned"
    BY <1>1, <2>1, <2>3 DEF Owner
  <2>4. QED
    BY <2>2, <2>3
<1>5. CASE WritePayload(p)
  <2>1. Owner = None /\ Owner' = p
    BY <1>5 DEF WritePayload, WriterHasFile, EmptyOf, OwnedBy, Owner
  <2>2. QED
    BY <1>1, <2>1 DEF Dead, Abstract!Next, Abstract!Take
<1>6. CASE ReleaseRemoves(p)
  <2>1. Owner = p /\ Owner' = None
    BY <1>6 DEF ReleaseRemoves, LockNamesHolder, OwnedBy, Absent, Owner
  <2>2. QED
    BY <1>1, <2>1 DEF Dead, Abstract!Next, Abstract!GiveUp
<1>7. CASE ReplaceLock(p)
  BY <1>2, <1>7 DEF ReplaceLock, LockNamesHolder, SwapsOwn
<1>8. CASE OpenExists(p) \/ InspectRefuses(p) \/ InspectDiscards(p)
  BY <1>2, <1>8 DEF OpenExists, InspectRefuses, InspectDiscards
<1>9. CASE Process(p)
  BY <1>2, <1>7, <1>9 DEF Process, CheckPasses, CheckFails, StartOperation, ReadOwnLock,
     SkipClear, SaveProgress, Leave, Finish, Fatal
<1>10. CASE ReleaseReads(p)
  BY <1>2, <1>10 DEF ReleaseReads
<1>11. QED
  BY <1>3, <1>4, <1>5, <1>6, <1>8, <1>9, <1>10 DEF Acquire, Release

(* The whole protocol implements the abstract lock of ExclusiveLock: its   *)
(* first state is an abstract first state, its steps abstract steps.       *)
THEOREM LockRefines == ASSUME Serialized PROVE Spec => ImplementsExclusiveLock
<1>1. Init => Abstract!Init
  BY DEF Init, Abstract!Init, Owner, Dead, Absent
<1>2. TypeOK /\ IInv /\ [Next]_vars => [Abstract!Next]_<<Owner, Dead>>
  <2> SUFFICES ASSUME TypeOK, IInv, [Next]_vars
               PROVE  [Abstract!Next]_<<Owner, Dead>>
    OBVIOUS
  <2>1. ASSUME NEW p \in Procs, NEW m \in {"plain"} \cup Recovery, Start(p, m)
        PROVE  [Abstract!Next]_<<Owner, Dead>>
    BY <2>1 DEF Start, Goto, Owner, Dead, TypeOK
  <2>2. ASSUME NEW p \in Procs, Step(p)
        PROVE  [Abstract!Next]_<<Owner, Dead>>
    BY <2>2, LockStepRefines DEF Step, IInv
  <2>3. ASSUME NEW p \in Procs, Crash(p)
        PROVE  [Abstract!Next]_<<Owner, Dead>>
    <3>1. Owner' = Owner /\ p \notin Dead /\ Dead' = Dead \cup {p}
      BY <2>3 DEF Crash, Goto, Live, Owner, Dead, TypeOK
    <3>2. QED
      BY <3>1 DEF Abstract!Next, Abstract!Die
  <2>4. CASE UNCHANGED vars
    BY <2>4 DEF vars, Owner, Dead
  <2>5. QED
    BY <2>1, <2>2, <2>3, <2>4 DEF Next, AllEnded
<1>3. QED
  BY <1>1, <1>2, TypeCorrect, Invariance, PTL
     DEF Spec, ImplementsExclusiveLock, Abstract!Spec, Abstract!vars
===============================================================================
