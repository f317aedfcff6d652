------------------------------ MODULE IngestLock ------------------------------
(***************************************************************************)
(* The lock protocol of `kb ingest`: the file .kb/ingest.lock and the      *)
(* operation record of .kb/state.json, as several ingest processes use     *)
(* them (ingest_recovery.py, and the frame of ingest() in ingest.py).      *)
(*                                                                         *)
(* A process of Procs is one run of the command.  It is started once, in   *)
(* one of three modes (plain, --force, --resume), and ends "done" or, at   *)
(* any point, "dead" (killed).  What it does with the files it ingests is  *)
(* module IngestRun; here the whole loop over them is the label "work".    *)
(*                                                                         *)
(* Every file-system call of the code is a step of its own: open with      *)
(* O_CREAT|O_EXCL and the write of the payload are two steps, so the lock  *)
(* file is empty in between; reading the lock and unlinking or replacing   *)
(* it are two steps, so it may change in between.                          *)
(*                                                                         *)
(* A definition marked "Faulty" is not part of the specification: it is a  *)
(* way the one after it could be wrong that a property below rules out.    *)
(***************************************************************************)
EXTENDS Naturals, FiniteSets

CONSTANTS
  Procs,       \* the runs of `kb ingest` on one data directory
  Recovery,    \* the recovery modes that runs may use: SUBSET {"force", "resume"}
  Serialized,  \* TRUE: no run acquires the lock while a recovery run acquires it
  PidReuse,    \* TRUE: the pid of a dead run may belong to a live program
  None         \* no process, no operation

ASSUME RecoveryAssumption == Recovery \subseteq {"force", "resume"}
ASSUME SwitchAssumption == Serialized \in BOOLEAN /\ PidReuse \in BOOLEAN
ASSUME NoneAssumption == None \notin Procs

VARIABLES
  lock,   \* .kb/ingest.lock: which kind of content, and the payload's fields
  ckpt,   \* the "ingest" entry of .kb/state.json: its operation and status
  pc,     \* where each run is
  mode,   \* how each run was started
  op,     \* each run's operation id; the fresh id of run p is p itself
  seen    \* the pid in the payload a run read before it replaces the lock

vars == <<lock, ckpt, pc, mode, op, seen>>

-----------------------------------------------------------------------------
(* Faulty: a lock without a pid.                                           *)
EmptyOf_NoPid(p) == [kind |-> "empty", op |-> None]

(* The file's content.  In an "empty" file nothing can be read; its pid is *)
(* kept to tell whose open file descriptor it still is.                    *)
Absent     == [kind |-> "absent", op |-> None, pid |-> None]
EmptyOf(p) == [kind |-> "empty", op |-> None, pid |-> p]
OwnedBy(o, p) == [kind |-> "owned", op |-> o, pid |-> p]

Maybe == Procs \cup {None}
Modes == {"plain", "force", "resume"}

LockType == [kind : {"absent", "empty", "owned"}, op : Maybe, pid : Maybe]
CkptType == [op : Maybe, status : {"none", "running", "error", "complete"}]

(* RUNNING_INGEST_STATUSES, without "interrupted", which nothing writes.   *)
Resumable == ckpt.status \in {"running", "error"}

Acquiring == {"open", "inspect", "unlink", "write"}
Critical  == {"check", "start", "work", "swap", "clear", "lastswap",
              "release", "remove"}
Labels    == {"idle", "done", "dead"} \cup Acquiring \cup Critical

Live(p) == pc[p] \notin {"idle", "done", "dead"}

Goto(p, label) == pc' = [pc EXCEPT ![p] = label]

Init ==
  /\ lock = Absent
  /\ ckpt = [op |-> None, status |-> "none"]
  /\ pc = [p \in Procs |-> "idle"]
  /\ mode = [p \in Procs |-> "plain"]
  /\ op = [p \in Procs |-> None]
  /\ seen = [p \in Procs |-> None]

-----------------------------------------------------------------------------
(* The operator's side: `kb ingest`, `kb ingest --force|--resume`.         *)

MayStart(p, m) ==
  Serialized => \A q \in Procs \ {p} :
                   pc[q] \in Acquiring => m = "plain" /\ mode[q] = "plain"

(* A plain or forced run takes a fresh operation id, a resuming run the id *)
(* of the checkpoint it finds, before it has the lock; with none, it ends. *)
Start(p, m) ==
  /\ pc[p] = "idle"
  /\ MayStart(p, m)
  /\ mode' = [mode EXCEPT ![p] = m]
  /\ \/ /\ m # "resume"
        /\ op' = [op EXCEPT ![p] = p]
        /\ Goto(p, "open")
     \/ /\ m = "resume" /\ Resumable
        /\ op' = [op EXCEPT ![p] = ckpt.op]
        /\ Goto(p, "open")
     \/ /\ m = "resume" /\ ~Resumable
        /\ op' = op
        /\ Goto(p, "done")
  /\ UNCHANGED <<lock, ckpt, seen>>

-----------------------------------------------------------------------------
(* IngestLock.acquire                                                      *)

(* Faulty: the file is opened without O_EXCL.                              *)
OpenCreates_NotExclusive(p) ==
  /\ pc[p] = "open"
  /\ lock' = EmptyOf(p)
  /\ Goto(p, "write")
  /\ UNCHANGED <<ckpt, mode, op, seen>>

OpenCreates(p) ==
  /\ pc[p] = "open"
  /\ lock.kind = "absent"
  /\ lock' = EmptyOf(p)
  /\ Goto(p, "write")
  /\ UNCHANGED <<ckpt, mode, op, seen>>

OpenExists(p) ==
  /\ pc[p] = "open"
  /\ lock.kind # "absent"
  /\ Goto(p, "inspect")
  /\ UNCHANGED <<lock, ckpt, mode, op, seen>>

OwnerLives == lock.kind = "owned" /\ Live(lock.pid)

(* Faulty: an unreadable lock counts as active.                            *)
LooksActive_Unreadable == OwnerLives \/ lock.kind = "empty"

(* _lock_is_active, os.kill(pid, 0): the run that wrote the payload lives, *)
(* or its pid may belong to another program by now (or to another host).   *)
LooksActive == OwnerLives \/ (PidReuse /\ lock.kind = "owned")

(* Faulty: nobody looks for the owner.                                     *)
LooksStale_Always == TRUE

(* Nothing to read (an empty file, or no file any more) counts as stale.   *)
LooksStale == ~OwnerLives

(* Faulty: a refused run releases the lock it never had.                   *)
InspectRefuses_Releases(p) ==
  /\ pc[p] = "inspect"
  /\ LooksActive \/ (LooksStale /\ mode[p] = "plain")
  /\ Goto(p, "remove")
  /\ UNCHANGED <<lock, ckpt, mode, op, seen>>

InspectRefuses(p) ==
  /\ pc[p] = "inspect"
  /\ LooksActive \/ (LooksStale /\ mode[p] = "plain")
  /\ Goto(p, "done")
  /\ UNCHANGED <<lock, ckpt, mode, op, seen>>

InspectDiscards(p) ==
  /\ pc[p] = "inspect"
  /\ LooksStale
  /\ mode[p] # "plain"
  /\ Goto(p, "unlink")
  /\ UNCHANGED <<lock, ckpt, mode, op, seen>>

(* Faulty: the retry does not remove the stale lock.                       *)
Unlink_KeepsFile(p) ==
  /\ pc[p] = "unlink"
  /\ Goto(p, "open")
  /\ UNCHANGED <<lock, ckpt, mode, op, seen>>

(* path.unlink() removes whatever file has the name by now.                *)
Unlink(p) ==
  /\ pc[p] = "unlink"
  /\ lock' = Absent
  /\ Goto(p, "open")
  /\ UNCHANGED <<ckpt, mode, op, seen>>

(* The payload goes to the file this run opened: when that one has been    *)
(* unlinked, the write is lost and the run goes on without a lock file.    *)
WritePayload(p) ==
  /\ pc[p] = "write"
  /\ lock' = IF lock = EmptyOf(p) THEN OwnedBy(op[p], p) ELSE lock
  /\ Goto(p, "check")
  /\ UNCHANGED <<ckpt, mode, op, seen>>

-----------------------------------------------------------------------------
(* The frame of ingest(): the checkpoint guard, start_operation, the loop, *)
(* finish.                                                                 *)

(* Faulty: _refuse_unresolved_checkpoint is left out.                      *)
CheckPasses_Unchecked(p) ==
  /\ pc[p] = "check"
  /\ mode[p] = "resume" => Resumable
  /\ Goto(p, "start")
  /\ UNCHANGED <<lock, ckpt, mode, op, seen>>

(* _refuse_unresolved_checkpoint and _selected_files, or _resume_files.    *)
(* The choice of files may fail whatever the checkpoint says (no such      *)
(* file, nothing left to resume).                                          *)
CheckPasses(p) ==
  /\ pc[p] = "check"
  /\ \/ mode[p] = "force"
     \/ mode[p] = "plain" /\ ~Resumable
     \/ mode[p] = "resume" /\ Resumable
  /\ Goto(p, "start")
  /\ UNCHANGED <<lock, ckpt, mode, op, seen>>

CheckFails(p) ==
  /\ pc[p] = "check"
  /\ Goto(p, "release")
  /\ UNCHANGED <<lock, ckpt, mode, op, seen>>

(* Faulty: the operation id of the old checkpoint stays.                   *)
StartOperation_KeepsId(p) ==
  /\ pc[p] = "start"
  /\ ckpt' = [ckpt EXCEPT !.status = "running"]
  /\ Goto(p, "work")
  /\ UNCHANGED <<lock, mode, op, seen>>

StartOperation(p) ==
  /\ pc[p] = "start"
  /\ ckpt' = [op |-> op[p], status |-> "running"]
  /\ Goto(p, "work")
  /\ UNCHANGED <<lock, mode, op, seen>>

(* Whether _current() accepts the checkpoint in state.json as this run's.  *)
OwnCheckpoint(p) == ckpt.op = op[p]

(* update_current_file, first half: the payload is read, and kept when it  *)
(* has this run's operation id.  It opens the turn of each file ("work"),  *)
(* and once more closes the loop ("clear").                                *)
ReadOwnLock(p) ==
  /\ pc[p] \in {"work", "clear"}
  /\ lock.kind = "owned" /\ lock.op = op[p]
  /\ seen' = [seen EXCEPT ![p] = lock.pid]
  /\ Goto(p, IF pc[p] = "work" THEN "swap" ELSE "lastswap")
  /\ UNCHANGED <<lock, ckpt, mode, op>>

(* Second half: the edited payload replaces the file, or makes a new one.  *)
ReplaceLock(p) ==
  /\ pc[p] \in {"swap", "lastswap"}
  /\ lock' = OwnedBy(op[p], seen[p])
  /\ Goto(p, IF pc[p] = "swap" THEN "work" ELSE "release")
  /\ UNCHANGED <<ckpt, mode, op, seen>>

(* The file is not this run's: update_current_file returns.                *)
SkipClear(p) ==
  /\ pc[p] = "clear"
  /\ ~(lock.kind = "owned" /\ lock.op = op[p])
  /\ Goto(p, "release")
  /\ UNCHANGED <<lock, ckpt, mode, op, seen>>

(* A checkpoint update of the loop: start_file and every update, append or *)
(* complete leave the status at "running", a caught error sets "error".    *)
SaveProgress(p, status) ==
  /\ pc[p] = "work"
  /\ OwnCheckpoint(p)
  /\ ckpt' = [ckpt EXCEPT !.status = status]
  /\ UNCHANGED <<lock, pc, mode, op, seen>>

(* Anything the loop does not catch, a _current() that raises included:    *)
(* fail(stage="fatal"), which raises again if the checkpoint is another's. *)
Fatal(p) ==
  /\ pc[p] \in {"work", "swap", "clear", "lastswap"}
  /\ ckpt' = IF OwnCheckpoint(p) THEN [ckpt EXCEPT !.status = "error"] ELSE ckpt
  /\ Goto(p, "release")
  /\ UNCHANGED <<lock, mode, op, seen>>

Finish(p, status) ==
  /\ pc[p] = "work"
  /\ OwnCheckpoint(p)
  /\ ckpt' = [ckpt EXCEPT !.status = status]
  /\ Goto(p, "clear")
  /\ UNCHANGED <<lock, mode, op, seen>>

-----------------------------------------------------------------------------
(* IngestLock.release                                                      *)

ReleaseReads(p) ==
  /\ pc[p] = "release"
  /\ Goto(p, IF lock.kind = "owned" /\ lock.op # op[p] THEN "done" ELSE "remove")
  /\ UNCHANGED <<lock, ckpt, mode, op, seen>>

ReleaseRemoves(p) ==
  /\ pc[p] = "remove"
  /\ lock' = Absent
  /\ Goto(p, "done")
  /\ UNCHANGED <<ckpt, mode, op, seen>>

(* kill -9, a power cut: the files stay as they are.                       *)
Crash(p) ==
  /\ Live(p)
  /\ Goto(p, "dead")
  /\ UNCHANGED <<lock, ckpt, mode, op, seen>>

-----------------------------------------------------------------------------
Acquire(p) == OpenCreates(p) \/ OpenExists(p) \/ InspectRefuses(p)
                \/ InspectDiscards(p) \/ Unlink(p) \/ WritePayload(p)

Leave(p) == \/ \E status \in {"complete", "error"} : Finish(p, status)
            \/ Fatal(p)

Process(p) == \/ CheckPasses(p) \/ CheckFails(p) \/ StartOperation(p)
              \/ ReadOwnLock(p) \/ ReplaceLock(p) \/ SkipClear(p)
              \/ \E status \in {"running", "error"} : SaveProgress(p, status)
              \/ Leave(p)

Release(p) == ReleaseReads(p) \/ ReleaseRemoves(p)

Step(p) == Acquire(p) \/ Process(p) \/ Release(p)

(* Every run has been started and has ended: nothing more to happen.       *)
AllEnded == (\A p \in Procs : pc[p] \in {"done", "dead"}) /\ UNCHANGED vars

Next ==
  \/ \E p \in Procs : \/ \E m \in {"plain"} \cup Recovery : Start(p, m)
                      \/ Step(p)
                      \/ Crash(p)
  \/ AllEnded

Spec == Init /\ [][Next]_vars

(* A run that is not killed goes on (WF), and its loop over the files, a   *)
(* finite list, comes to an end (SF: replacing the lock interrupts it).    *)
Fairness == \A p \in Procs : WF_vars(Step(p)) /\ SF_vars(Leave(p))

FairSpec == Spec /\ Fairness

-----------------------------------------------------------------------------
TypeOK ==
  /\ lock \in LockType
  /\ ckpt \in CkptType
  /\ pc \in [Procs -> Labels]
  /\ mode \in [Procs -> Modes]
  /\ op \in [Procs -> Maybe]
  /\ seen \in [Procs -> Maybe]

(* At most one run is between the end of acquire() and the end of          *)
(* release(): "A second ingest exits without processing" (command          *)
(* reference).                                                             *)
MutualExclusion ==
  \A p, q \in Procs : pc[p] \in Critical /\ pc[q] \in Critical => p = q

(* As long as a run works, the lock file is there and names that run and   *)
(* its operation: what a refused run prints and kb doctor reports is true, *)
(* and update_current_file never edits or revives the lock of another run. *)
LockNamesHolder ==
  \A p \in Procs : pc[p] \in Critical => lock = OwnedBy(op[p], p)

(* A run never finds that state.json has become the checkpoint of another  *)
(* operation while it works: _current() does not raise.                    *)
CheckpointStaysOwn ==
  \A p \in Procs : pc[p] \in {"work", "swap"} => OwnCheckpoint(p)

(* start_operation of a plain run never discards an interrupted checkpoint *)
(* (only --force and --resume do), although the check came steps earlier.  *)
PlainStart == \E p \in Procs : /\ mode[p] = "plain"
                               /\ pc[p] = "start" /\ pc'[p] = "work"
PlainKeepsInterrupted == [][PlainStart => ~Resumable]_vars

(* Every run ends: the retry loop of acquire() does not spin, nobody waits *)
(* for a lock.                                                             *)
RunsEnd == \A p \in Procs : Live(p) ~> ~Live(p)

(* A recovery run that is alone gets the lock, whatever crash left behind. *)
Alone(p) == \A q \in Procs \ {p} : ~Live(q)
RecoveryEnters ==
  \A p \in Procs :
    (pc[p] = "open" /\ mode[p] # "plain" /\ Alone(p))
      ~> (pc[p] \in {"check", "dead"} \/ ~Alone(p))

-----------------------------------------------------------------------------
(* The abstract lock this protocol implements.                             *)
Owner == IF lock.kind = "owned" THEN lock.pid ELSE None
Dead  == {p \in Procs : pc[p] = "dead"}
Abstract == INSTANCE ExclusiveLock WITH owner <- Owner, dead <- Dead
ImplementsExclusiveLock == Abstract!Spec
===============================================================================
