-------------------------------- MODULE Hygiene --------------------------------
(***************************************************************************)
(* What kb learns from the use of its notes: the append-only log of        *)
(* retrievals, uses and suspect flags (usage.py), and the review items     *)
(* made of it by `kb flag-suspect` and by the hygiene scan of `kb reindex  *)
(* --scan-clusters` (hygiene.py).  With review.hygiene_fenced set there    *)
(* are no scans.                                                           *)
(*                                                                         *)
(* A flag is appended to the log first and acted on in a second step; the  *)
(* command may be stopped in between.  A line that is cut short swallows   *)
(* the line appended next.  Of the log the counts are kept, of a payload   *)
(* what can differ between two of the same item.                           *)
(***************************************************************************)
EXTENDS Integers, FiniteSets, SequencesExt

CONSTANTS
  Notes,       \* note ids, as numbers: a scan goes through them in order
  Note,        \* what a note may be
  First,       \* the notes there are at first
  Reasons,     \* reasons to flag a note
  Disputing,   \* reasons with one of _DISPUTE_TERMS
  Correcting,  \* reasons with one of _CORRECTION_TERMS
  StaleAfter,  \* review.stale_after_days
  OrphanAfter, \* review.orphan_after_days
  Jumps,       \* the days that pass at once
  LastDay,     \* bound: the days the model runs
  Bursts,      \* the searches with one result that come in a row
  Events,      \* bound: bursts of searches, uses, flags, edits
  None

VARIABLES
  notes,    \* the note of each id
  day,      \* today
  use,      \* what usage.log says of each note
  torn,     \* has the last line of usage.log been cut short?
  items,    \* the review item of each fingerprint
  cmd,      \* the `kb flag-suspect` that has appended its line and not gone on
  events,   \* how many events there have been
  quiet     \* since the last whole scan, only reviewers have acted

vars == <<notes, day, use, torn, items, cmd, events, quiet>>

(* What is assumed of the notes, days and bounds.                          *)
Bounds ==
  /\ First \subseteq [Notes -> Note \cup {None}]
  /\ Jumps \subseteq Nat /\ Bursts \subseteq Nat
  /\ LastDay \in Nat /\ Events \in Nat

Hygienic == {"stale", "orphan", "low_utility"}
Keys == (Hygienic \cup {"dispute"}) \X Notes

Idle == [at |-> "idle", about |-> None, reason |-> None]
Unused == [retrieved |-> 0, weak |-> 0, used |-> 0, flags |-> <<>>,
           recent |-> None, first |-> None, last |-> None]

Init ==
  /\ notes \in First
  /\ day = 0
  /\ use = [n \in Notes |-> Unused]
  /\ torn = FALSE
  /\ items = [k \in Keys |-> None]
  /\ cmd = Idle
  /\ events = 0
  /\ quiet = FALSE

Present == {n \in Notes : notes[n] # None}
Event == events < Events /\ events' = events + 1

-------------------------------------------------------------------------------
(* review.py: items by fingerprint                                         *)

Pending(facts) == [status |-> "pending", facts |-> facts]

(* Faulty: the fingerprint that is stored with a payload is compared too.  *)
Refreshed_WithFingerprint(its, k, facts) == [its EXCEPT ![k] = Pending(facts)]

(* upsert_hygiene_review_item: the same payload leaves the item as it is.  *)
Refreshed(its, k, facts) ==
  IF its[k] # None /\ its[k].facts = facts THEN its
  ELSE [its EXCEPT ![k] = Pending(facts)]

(* kb review accept, kb review reject                                      *)
Resolve(k) ==
  /\ items[k] # None /\ items[k].status = "pending"
  /\ items' = [items EXCEPT ![k].status = "resolved"]
  /\ UNCHANGED <<notes, day, use, torn, cmd, events, quiet>>

-------------------------------------------------------------------------------
(* The day, the notes and the logs                                         *)

Pass(days) ==
  /\ day + days <= LastDay
  /\ day' = day + days
  /\ quiet' = FALSE
  /\ UNCHANGED <<notes, use, torn, items, cmd, events>>

EditNote(n, note) ==
  /\ Event
  /\ notes' = [notes EXCEPT ![n] = note]
  /\ quiet' = FALSE
  /\ UNCHANGED <<day, use, torn, items, cmd>>

(* The disk is full, or the power fails: the last line of a log is cut off *)
(* and the command fails.                                                  *)
CutShort ==
  /\ Event
  /\ torn' = TRUE
  /\ UNCHANGED <<notes, day, use, items, cmd, quiet>>

Seen(u) == [u EXCEPT !.first = IF @ = None THEN day ELSE @, !.last = day]

(* _append_jsonl, _read_jsonl: a line about note n makes its counts u;     *)
(* after a line cut short it does not parse and is passed over.            *)
AppendUse(n, u) ==
  /\ use' = IF torn THEN use ELSE [use EXCEPT ![n] = Seen(u)]
  /\ torn' = FALSE
  /\ quiet' = FALSE

(* log_retrieval: a search or a context packet that returns note n.        *)
Retrieve(n, weak, times) ==
  /\ Event /\ n \in Present
  /\ AppendUse(n, [use[n] EXCEPT !.retrieved = @ + times,
                                 !.weak = IF weak THEN @ + times ELSE @,
                                 !.recent = day])
  /\ UNCHANGED <<notes, day, items, cmd>>

(* kb log-use *)
LogUse(n) ==
  /\ Event /\ n \in Present
  /\ AppendUse(n, [use[n] EXCEPT !.used = @ + 1, !.recent = day])
  /\ UNCHANGED <<notes, day, items, cmd>>

-------------------------------------------------------------------------------
(* What a scan finds in a note                                             *)

Age(n) == IF day > notes[n].updated THEN day - notes[n].updated ELSE 0
Weeks(n) == (Age(n) \div 7) * 7

(* _stale_threshold_days, in hundredths and tenths.                        *)
Factor(note) ==
  CASE note.fact /\ note.risk = "high"   -> 50
    [] note.fact /\ note.risk = "medium" -> 75
    [] ~note.fact /\ note.risk = "high"  -> 90
    [] ~note.fact /\ note.risk = "low"   -> 120
    [] OTHER -> 100
Threshold(note) ==
  LET days == (StaleAfter * Factor(note) * (IF note.unsure THEN 9 ELSE 10)) \div 1000
  IN IF days < 14 THEN 14 ELSE days

IsStale(n) == notes[n].status # "archived" /\ Age(n) >= Threshold(notes[n])
StaleFacts(n) == [note |-> notes[n], age |-> Weeks(n), reason |-> Age(n)]

(* Of backlinks.json, which the reindex before a scan has just written.    *)
Inbound(n) == {m \in Present \ {n} : n \in notes[m].refs}
Neighbours(n) ==
  {m \in Present \ {n} :
     /\ notes[m].topic = notes[n].topic
     /\ notes[n].tags # {} => notes[n].tags \cap notes[m].tags # {}}
Recent(n) == use[n].recent # None /\ use[n].recent >= day - 30

IsOrphan(n) ==
  /\ notes[n].status \notin {"archived", "superseded"}
  /\ Age(n) >= OrphanAfter
  /\ Inbound(n) = {} /\ notes[n].refs \ {n} = {} /\ Neighbours(n) = {}
  /\ ~Recent(n)
OrphanFacts(n) == [topic |-> notes[n].topic, updated |-> notes[n].updated, age |-> Weeks(n)]

Flags(n) == Len(use[n].flags)
Corrections(n) ==
  Cardinality({i \in DOMAIN use[n].flags : use[n].flags[i] \in Correcting})

(* Faulty: a flag counts only where the note has been found.               *)
IsLowUtility_IfFound(n) ==
  \/ use[n].retrieved >= 3 /\ use[n].used = 0
  \/ use[n].retrieved >= 5 /\ 4 * use[n].used < use[n].retrieved
  \/ use[n].weak >= 3
  \/ Flags(n) > 0 /\ use[n].retrieved > 0

IsLowUtility(n) ==
  \/ use[n].retrieved >= 3 /\ use[n].used = 0
  \/ use[n].retrieved >= 5 /\ 4 * use[n].used < use[n].retrieved
  \/ use[n].weak >= 3
  \/ Flags(n) > 0

(* The reasons given are the flags', each once (of more than twelve the    *)
(* code lists the first twelve); hint is one more of them.                 *)
LowFacts(n, hint) ==
  [topic |-> notes[n].topic, counts |-> [use[n] EXCEPT !.flags = Flags(n), !.recent = None],
   corrections |-> Corrections(n), reasons |-> ToSet(use[n].flags), hint |-> hint,
   plain |-> FALSE]

Found(queue, n) ==
  CASE queue = "stale"       -> IsStale(n)
    [] queue = "orphan"      -> IsOrphan(n)
    [] queue = "low_utility" -> IsLowUtility(n)
FactsOf(queue, n) ==
  CASE queue = "stale"       -> StaleFacts(n)
    [] queue = "orphan"      -> OrphanFacts(n)
    [] queue = "low_utility" -> LowFacts(n, None)

(* scan_hygiene_queues goes through the notes, and for each through these. *)
Order(queue) == CASE queue = "stale" -> 1 [] queue = "orphan" -> 2 [] queue = "low_utility" -> 3
ScanKeys == Hygienic \X Notes
Before(k) == {j \in ScanKeys : j[2] < k[2] \/ (j[2] = k[2] /\ Order(j[1]) < Order(k[1]))}

Upserted(k) ==
  IF k[2] \in Present /\ Found(k[1], k[2])
  THEN Refreshed(items, k, FactsOf(k[1], k[2]))[k]
  ELSE items[k]

ScanOf(S) ==
  /\ items' = [k \in Keys |-> IF k \in S THEN Upserted(k) ELSE items[k]]
  /\ UNCHANGED <<notes, day, use, torn, cmd, events>>

Scan == ScanOf(ScanKeys) /\ quiet' = TRUE
ScanStops(k) == ScanOf(Before(k)) /\ quiet' = FALSE

-------------------------------------------------------------------------------
(* flag_suspect_note                                                       *)

Flag(n, reason) ==
  /\ cmd.at = "idle"
  /\ Event /\ n \in Present
  /\ AppendUse(n, [use[n] EXCEPT !.flags = Append(@, reason)])
  /\ cmd' = [at |-> "flag", about |-> n, reason |-> reason, lost |-> torn]
  /\ UNCHANGED <<notes, day, items>>

Queue(reason) == IF reason \in Disputing THEN "dispute" ELSE "low_utility"

DisputeFacts(n, reason) ==
  [reason |-> reason, suspects |-> Flags(n), reasons |-> ToSet(use[n].flags)]
PlainFacts(n, reason) == [LowFacts(n, reason) EXCEPT !.plain = TRUE]

(* _upsert_suspect_item: an item that would not change is tried again with *)
(* a payload of another form.                                              *)
Suspected(n, reason) ==
  LET k == <<Queue(reason), n>>
      hinted == Refreshed(items, k, LowFacts(n, reason))
  IN IF reason \in Disputing THEN Refreshed(items, k, DisputeFacts(n, reason))
     ELSE IF hinted # items THEN hinted
     ELSE Refreshed(items, k, PlainFacts(n, reason))

Hear ==
  /\ cmd.at = "flag" /\ cmd.about \in Present
  /\ items' = Suspected(cmd.about, cmd.reason)
  /\ cmd' = Idle /\ quiet' = FALSE
  /\ UNCHANGED <<notes, day, use, torn, events>>

(* A kill after the line has been appended, or a note that is not there.   *)
Stop ==
  /\ cmd.at # "idle"
  /\ cmd' = Idle
  /\ UNCHANGED <<notes, day, use, torn, items, events, quiet>>

-------------------------------------------------------------------------------
Logging ==
  \/ \E n \in Notes :
       \/ \E weak \in BOOLEAN, times \in Bursts : Retrieve(n, weak, times)
       \/ LogUse(n)
       \/ \E reason \in Reasons : Flag(n, reason)
  \/ CutShort

Next ==
  \/ Logging
  \/ \E n \in Notes, note \in Note \cup {None} : EditNote(n, note)
  \/ \E days \in Jumps : Pass(days)
  \/ Scan
  \/ \E k \in ScanKeys : ScanStops(k)
  \/ Hear \/ Stop
  \/ \E k \in Keys : Resolve(k)

Spec == Init /\ [][Next]_vars

-------------------------------------------------------------------------------
TypeOK ==
  /\ quiet \in BOOLEAN /\ torn \in BOOLEAN
  /\ notes \in [Notes -> Note \cup {None}]
  /\ day \in 0..LastDay /\ events \in 0..Events
  /\ \A n \in Notes : use[n].weak <= use[n].retrieved /\ use[n].flags \in Seq(Reasons)
  /\ \A k \in Keys : items[k] # None => items[k].status \in {"pending", "resolved"}
  /\ cmd.at \in {"idle", "flag"}

(* When a note is flagged, the item about it is open in the end, whatever  *)
(* has been decided on it before; unless it is a dispute whose line was    *)
(* swallowed.                                                              *)
(* And no flag in the log is forgotten, however its command ended: after a *)
(* scan each flagged note has an item that counts all its flags.           *)
FlagIsHeard ==
  [][/\ Hear /\ ~(cmd.lost /\ cmd.reason \in Disputing) =>
          items'[<<Queue(cmd.reason), cmd.about>>].status = "pending"
     /\ Scan =>
          \A n \in Present : use[n].flags # <<>> =>
            LET item == items'[<<"low_utility", n>>] IN
            item # None /\ item.facts.counts.flags = Len(use[n].flags)]_vars

(* A scan finds nothing new when only reviewers have acted since the last: *)
(* what they rejected is not opened again.                                 *)
ScanSettles == [][Scan /\ quiet => items' = items]_vars
===============================================================================
