------------------------------- MODULE MCIngest -------------------------------
(* Instances of IngestLock and IngestRun for TLC: three runs that contend  *)
(* for the lock, of which none acquires it while a recovery run does; a    *)
(* pair of which any may; and the operations that empty raw/.              *)
EXTENDS IngestLock

CONSTANTS Two, a, b, x

VARIABLES which, pLock, pCkpt, pPc, pMode, pOp, pSeen,
          place, ledger, notes, review, index, rCkpt, run

pair == <<pLock, pCkpt, pPc, pMode, pOp, pSeen>>
runs == <<place, ledger, notes, review, index, rCkpt, run>>
all  == <<which, vars, pair, runs>>

Pair == INSTANCE IngestLock WITH
  Procs <- Two, Serialized <- FALSE, PidReuse <- FALSE,
  lock <- pLock, ckpt <- pCkpt, pc <- pPc, mode <- pMode, op <- pOp, seen <- pSeen

(* Two copies of a document, of which one may fail for ever.               *)
Documents == {a, b}
Runs == INSTANCE IngestRun WITH
  Files <- Documents, Path <- [f \in Documents |-> f], Outside <- {},
  Unsupported <- {}, Unreadable <- {}, Hashes <- {x}, Hash <- [f \in Documents |-> x],
  Titles <- {"t"}, Reasons <- {"r"}, Verdicts <- {}, ckpt <- rCkpt

AllInit == /\ which \in {"three", "pair", "runs"}
           /\ Init /\ Pair!Init /\ Runs!Init
           /\ which # "runs" => \A f \in Documents : place[f] = "absent"

(* Processes that contend are alike: they are numbered as they start.      *)
Numbered(at) == \A p, q \in DOMAIN at : p < q /\ at[p] = "idle" => at[q] = "idle"

AllNext == /\ UNCHANGED which
           /\ IF which = "three" THEN Next /\ Numbered(pc')       ELSE UNCHANGED vars
           /\ IF which = "pair"  THEN Pair!Next /\ Numbered(pPc') ELSE UNCHANGED pair
           /\ IF which = "runs"  THEN Runs!Next ELSE UNCHANGED runs

AllFair == \/ which = "three"
           \/ which = "pair" /\ Pair!Fairness
           \/ which = "runs" /\ Runs!Fairness

AllSpec == AllInit /\ [][AllNext]_all /\ AllFair

(* Both runs of the pair end.                                              *)
PairEnds == Pair!RunsEnd

(* A recovery run of the pair that is alone gets the lock.                 *)
PairEnters == Pair!RecoveryEnters

(* A document in raw/ leaves it, if only its own processing can succeed.   *)
RawIsEmptied == which = "runs" => Runs!RawIsEmptied
===============================================================================
