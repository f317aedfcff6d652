----------------------------- MODULE ReviewQueue -----------------------------
(***************************************************************************)
(* The review queue: review/review-items.json, the commands that add items *)
(* to it and refresh them, and `kb review accept|reject|defer` with what   *)
(* accepting does to the notes (review.py).                                *)
(*                                                                         *)
(* A command reads the whole file, works on its copy, and replaces the     *)
(* file; there is no lock.  Accepting writes to the notes in between, one  *)
(* write at a time.  A command may be killed, or fail, between any two     *)
(* writes.  A command that finds nothing to do ends without a step.  The   *)
(* target notes of an item are taken in any order, where the code has that *)
(* of their ids.                                                           *)
(*                                                                         *)
(* Accepting a compaction or topic proposal is not here, nor the files     *)
(* rendered from the items, nor their first import from those files.       *)
(*                                                                         *)
(* A definition marked "Faulty" is not part of the specification: it is a  *)
(* way the one after it could be wrong that a property below rules out.    *)
(***************************************************************************)
EXTENDS Naturals, FiniteSets

CONSTANTS
  Procs,      \* processes that run commands on one data directory
  Serialized, \* TRUE: one command at a time
  Keys,       \* the items there may be, by their fingerprints
  Kind,       \* the queue of each, by how it behaves
  Targets,    \* notes that items may name
  TargetsOf,  \* the target notes of each item
  Facts,      \* what a scan may find out about an item of a recurring kind
  Cooldown,   \* review.compaction_cooldown_days
  DeferDays,  \* the days an item may be deferred
  IdLimit,    \* item numbers above it (999) are not recognised
  ItemLimit,  \* bound: items in the file
  LastDay,    \* bound: the days the model runs
  NoteLimit,  \* bound: the notes created from one item
  None

Kinds == {"classification", "merge", "dispute", "searchmiss", "cluster", "hygiene",
          "notice"}

ASSUME KindAssumption ==
  Kind \in [Keys -> Kinds] /\ TargetsOf \in [Keys -> SUBSET Targets]
ASSUME NumberAssumption ==
  /\ Cooldown \in Nat /\ IdLimit \in Nat /\ LastDay \in Nat /\ ItemLimit \in Nat
  /\ NoteLimit \in Nat
  /\ DeferDays \subseteq Nat \ {0}
ASSUME LimitAssumption == ItemLimit <= IdLimit
ASSUME SwitchAssumption == Serialized \in BOOLEAN

VARIABLES
  items,   \* the item of each fingerprint in review-items.json, or None
  made,    \* how many notes have been created from each item
  bodies,  \* how often each item's body has been appended to each note
  marks,   \* the <<note, id>> of the markers `review-merge:<id>` in bodies
  acks,    \* the <<note, id>> of the disputes acknowledged in frontmatters
  cites,   \* the <<note, item>> with a source of the note that has the item's path or digest
  day,     \* today
  cmd      \* the command each process is running

notes == <<made, bodies, marks, acks, cites>>
vars == <<items, made, bodies, marks, acks, cites, day, cmd>>

-----------------------------------------------------------------------------
Open     == {"pending", "deferred"}
Resolved == {"accepted", "rejected"}

Id   == Kinds \X Nat \X (Nat \ {0})
Item == [number : Nat \ {0}, created : Nat, status : Open \cup Resolved,
         due : Nat \cup {None}, updated : Nat, facts : Facts \cup {None}]

ASSUME NoneAssumption ==
  None \notin Item /\ None \notin Nat \cup Targets \cup Facts \cup Keys

IdOf(k, item) == <<Kind[k], item.created, item.number>>

Labels  == {"idle", "create", "body", "source", "ack", "write"}
Command == [at : Labels, key : Keys \cup {None}, read : [Keys -> Item \cup {None}],
            item : Item \cup {None}, todo : SUBSET Targets, note : Targets \cup {None}]

Idle == [at |-> "idle", key |-> None, read |-> [k \in Keys |-> None],
         item |-> None, todo |-> {}, note |-> None]

Init ==
  /\ items = [k \in Keys |-> None]
  /\ made = [k \in Keys |-> 0] /\ bodies = [tk \in Targets \X Keys |-> 0]
  /\ marks = {} /\ acks = {} /\ cites = {}
  /\ day = 0
  /\ cmd = [p \in Procs |-> Idle]

IsOpen(k) == items[k] # None /\ items[k].status \in Open
Is(k, status) == items[k] # None /\ items[k].status = status

(* Process p reads the file, decides on the new item for k, and goes on at *)
(* a label: to the notes first, or to the write of the file.               *)
Begin(p, k, item, label) ==
  /\ cmd[p].at = "idle"
  /\ Serialized => \A q \in Procs : cmd[q].at = "idle"
  /\ cmd' = [cmd EXCEPT ![p] = [at |-> label, key |-> k, read |-> items, item |-> item,
                                todo |-> TargetsOf[k], note |-> None]]
  /\ UNCHANGED <<items, notes, day>>

-----------------------------------------------------------------------------
(* New and refreshed items.                                                *)

(* Faulty: the numbers of resolved items are free.                         *)
Numbers_OfOpen(k) ==
  {items[j].number : j \in {i \in Keys : /\ IsOpen(i) /\ Kind[i] = Kind[k]
                                         /\ items[i].created = day
                                         /\ items[i].number <= IdLimit}}

(* The numbers taken today in the queue of k, of three digits at most.     *)
Numbers(k) ==
  {items[j].number : j \in {i \in Keys : /\ items[i] # None /\ Kind[i] = Kind[k]
                                         /\ items[i].created = day
                                         /\ items[i].number <= IdLimit}}

(* Faulty: counting from zero.                                             *)
IsNextNumber_FromZero(n, k) == n \notin Numbers(k) /\ \A m \in 0..(n - 1) : m \in Numbers(k)

(* _allocate_id: the first number from 1 that is not taken.                *)
IsNextNumber(n, k) ==
  n > 0 /\ n \notin Numbers(k) /\ \A m \in 1..(n - 1) : m \in Numbers(k)

NewItem(n, facts) ==
  [number |-> n, created |-> day, status |-> "pending", due |-> None,
   updated |-> day, facts |-> facts]

(* _append_item                                                            *)
Append(p, k, facts) ==
  /\ Cardinality({j \in Keys : items[j] # None}) < ItemLimit
  /\ \E n \in 0..ItemLimit :
       IsNextNumber(n, k) /\ Begin(p, k, NewItem(n, facts), "write")

(* Faulty: only an open item counts as the same.                           *)
Known_Open(k) == IsOpen(k)

(* _find_existing_item                                                     *)
Known(k) == items[k] # None

(* add_review_item: ingest, and the queue functions for notices.           *)
Add(p, k) ==
  /\ Kind[k] \in {"classification", "merge", "dispute", "notice"}
  /\ ~Known(k)
  /\ Append(p, k, None)

Refreshed(k, facts) == [items[k] EXCEPT !.facts = facts, !.updated = day]

(* upsert_search_miss_review_item                                          *)
UpsertSearchMiss(p, k, facts) ==
  /\ Kind[k] = "searchmiss"
  /\ \/ ~Known(k) /\ Append(p, k, facts)
     \/ Known(k) /\ IsOpen(k) /\ Begin(p, k, Refreshed(k, facts), "write")

(* upsert_hygiene_review_item: a resolved item whose facts have changed is *)
(* reopened.                                                               *)
UpsertHygiene(p, k, facts) ==
  /\ Kind[k] = "hygiene"
  /\ \/ ~Known(k) /\ Append(p, k, facts)
     \/ /\ Known(k) /\ items[k].facts # facts
        /\ Begin(p, k, [Refreshed(k, facts) EXCEPT
                          !.status = IF @ \in Resolved THEN "pending" ELSE @], "write")

(* queue_compaction_cluster_review_item: a rejected cluster is reopened    *)
(* when its cooldown is over.                                              *)
QueueCluster(p, k, facts) ==
  /\ Kind[k] = "cluster"
  /\ \/ ~Known(k) /\ Append(p, k, facts)
     \/ /\ Is(k, "rejected") /\ day - items[k].updated >= Cooldown
        /\ Begin(p, k, [Refreshed(k, facts) EXCEPT !.status = "pending"], "write")

-----------------------------------------------------------------------------
(* Decisions.                                                              *)

(* _transition_item                                                        *)
Moved(k, status, due) ==
  [items[k] EXCEPT !.status = status, !.updated = day, !.due = due]

RejectItem(p, k) == IsOpen(k) /\ Begin(p, k, Moved(k, "rejected", None), "write")

DeferItem(p, k, days) ==
  /\ IsOpen(k)
  /\ ~(Is(k, "deferred") /\ items[k].due = day + days)
  /\ Begin(p, k, Moved(k, "deferred", day + days), "write")

FirstLabel(k) == CASE Kind[k] = "classification" -> "create"
                   [] Kind[k] = "merge" -> "body"
                   [] Kind[k] = "dispute" -> "ack"
                   [] Kind[k] = "searchmiss" -> "write"

(* Faulty: an item that is accepted already is accepted again.             *)
AcceptItem_Again(p, k) ==
  /\ IsOpen(k) \/ Is(k, "accepted")
  /\ Kind[k] \in {"classification", "searchmiss"} \/ TargetsOf[k] # {}
  /\ Kind[k] \in {"classification", "merge", "dispute", "searchmiss"}
  /\ Begin(p, k, Moved(k, "accepted", None), FirstLabel(k))

(* accept_review_item; other kinds are refused, and so is a merge or a     *)
(* dispute that names no note.                                             *)
AcceptItem(p, k) ==
  /\ IsOpen(k)
  /\ Kind[k] \in {"classification", "merge", "dispute", "searchmiss"}
  /\ Kind[k] \in {"merge", "dispute"} => TargetsOf[k] # {}
  /\ Begin(p, k, Moved(k, "accepted", None), FirstLabel(k))

-----------------------------------------------------------------------------
(* What accepting does to the notes.                                       *)

Key(p)   == cmd[p].key
ItsId(p) == IdOf(cmd[p].key, cmd[p].item)
Goto(p, label) == cmd' = [cmd EXCEPT ![p].at = label]

CreateNote(p) ==
  /\ cmd[p].at = "create" /\ made[Key(p)] < NoteLimit
  /\ made' = [made EXCEPT ![Key(p)] = @ + 1]
  /\ Goto(p, "write")
  /\ UNCHANGED <<items, bodies, marks, acks, cites, day>>

(* --note-id: the source is appended to a note instead, unless one there   *)
(* has its digest or its path, and then the note cites the item already.   *)
CiteInNote(p, t) ==
  /\ cmd[p].at = "create"
  /\ cites' = cites \cup {<<t, Key(p)>>}
  /\ Goto(p, "write")
  /\ UNCHANGED <<items, made, bodies, marks, acks, day>>

(* Faulty: nobody looks for the marker.                                    *)
IsMerged_Never(p, t) == FALSE

IsMerged(p, t) == <<t, ItsId(p)>> \in marks

(* _append_merge_body_to_note                                              *)
MergeBody(p, t) ==
  /\ cmd[p].at = "body" /\ t \in cmd[p].todo
  /\ IF IsMerged(p, t)
       THEN UNCHANGED <<bodies, marks>>
       ELSE /\ bodies' = [bodies EXCEPT ![<<t, Key(p)>>] = @ + 1]
            /\ marks' = marks \cup {<<t, ItsId(p)>>}
  /\ cmd' = [cmd EXCEPT ![p].at = "source", ![p].note = t]
  /\ UNCHANGED <<items, made, acks, cites, day>>

(* On to the next target note, or to the file.                             *)
NextTarget(p, t, label) ==
  cmd' = [cmd EXCEPT ![p].todo = @ \ {t}, ![p].note = None,
                     ![p].at = IF cmd[p].todo = {t} THEN "write" ELSE label]

(* Faulty: the first target note is taken for the last.                    *)
MergeSource_First(p) ==
  /\ cmd[p].at = "source"
  /\ cites' = cites \cup {<<cmd[p].note, Key(p)>>}
  /\ Goto(p, "write")
  /\ UNCHANGED <<items, made, bodies, marks, acks, day>>

(* _append_source_to_note, which likewise adds a source or leaves one.     *)
MergeSource(p) ==
  /\ cmd[p].at = "source"
  /\ cites' = cites \cup {<<cmd[p].note, Key(p)>>}
  /\ NextTarget(p, cmd[p].note, "body")
  /\ UNCHANGED <<items, made, bodies, marks, acks, day>>

(* _acknowledge_dispute_on_note                                            *)
Acknowledge(p, t) ==
  /\ cmd[p].at = "ack" /\ t \in cmd[p].todo
  /\ acks' = acks \cup {<<t, ItsId(p)>>}
  /\ NextTarget(p, t, "ack")
  /\ UNCHANGED <<items, made, bodies, marks, cites, day>>

-----------------------------------------------------------------------------
(* _write_state: the file is replaced by the copy with the new item.       *)
WriteState(p) ==
  /\ cmd[p].at = "write"
  /\ items' = [cmd[p].read EXCEPT ![Key(p)] = cmd[p].item]
  /\ cmd' = [cmd EXCEPT ![p] = Idle]
  /\ UNCHANGED <<notes, day>>

(* A kill, or an exception: a target note is missing or invalid, a write   *)
(* fails.                                                                  *)
Stop(p) ==
  /\ cmd[p].at # "idle"
  /\ cmd' = [cmd EXCEPT ![p] = Idle]
  /\ UNCHANGED <<items, notes, day>>

Tick == day < LastDay /\ day' = day + 1 /\ UNCHANGED <<items, notes, cmd>>

Queue(p, k) ==
  \/ Add(p, k)
  \/ \E facts \in Facts : \/ UpsertSearchMiss(p, k, facts)
                          \/ UpsertHygiene(p, k, facts)
                          \/ QueueCluster(p, k, facts)

Decide(p, k) == \/ RejectItem(p, k) \/ AcceptItem(p, k)
                \/ \E days \in DeferDays : DeferItem(p, k, days)

Apply(p) == \/ CreateNote(p) \/ MergeSource(p)
            \/ \E t \in Targets : CiteInNote(p, t) \/ MergeBody(p, t) \/ Acknowledge(p, t)

Next ==
  \/ \E p \in Procs : \/ \E k \in Keys : Queue(p, k) \/ Decide(p, k)
                      \/ Apply(p) \/ WriteState(p) \/ Stop(p)
  \/ Tick

Spec == Init /\ [][Next]_vars

-----------------------------------------------------------------------------
TypeOK ==
  /\ items \in [Keys -> Item \cup {None}]
  /\ made \in [Keys -> Nat] /\ bodies \in [Targets \X Keys -> Nat]
  /\ marks \subseteq Targets \X Id /\ acks \subseteq Targets \X Id
  /\ cites \subseteq Targets \X Keys
  /\ day \in Nat
  /\ cmd \in [Procs -> Command]

(* Two items never share an id (with no more items of a queue on one day   *)
(* than three digits can number): the id a person types names one item.    *)
IdsDistinct ==
  \A j, k \in Keys : /\ items[j] # None /\ items[k] # None
                     /\ IdOf(j, items[j]) = IdOf(k, items[k])
                     => j = k

(* What the item proposes has been done to the notes.                      *)
Done(k) ==
  CASE Kind[k] = "classification" -> made[k] > 0 \/ \E t \in Targets : <<t, k>> \in cites
    [] Kind[k] = "merge" ->
         /\ TargetsOf[k] # {}
         /\ \A t \in TargetsOf[k] : bodies[<<t, k>>] > 0 /\ <<t, k>> \in cites
    [] Kind[k] = "dispute" ->
         /\ items[k] # None /\ TargetsOf[k] # {}
         /\ \A t \in TargetsOf[k] : <<t, IdOf(k, items[k])>> \in acks
    [] OTHER -> TRUE

(* An item is accepted only when what it proposes has been done, to every  *)
(* note it names, wherever an earlier attempt was stopped.                 *)
AcceptedMeansApplied == \A k \in Keys : Is(k, "accepted") => Done(k)

(* A candidate's body is appended to a note at most once, however often    *)
(* its acceptance is stopped and repeated.                                 *)
MergedOnce == \A t \in Targets, k \in Keys : bodies[<<t, k>>] <= 1

(* Once an item is accepted, no note is created from it or merged with it  *)
(* any more.                                                               *)
SettledIsQuiet ==
  [][\A k \in Keys : Is(k, "accepted") =>
       made'[k] = made[k] /\ \A t \in Targets : bodies'[<<t, k>>] = bodies[<<t, k>>]]_vars

(* An item, once it is in the file, stays in it: "Review items are durable *)
(* state".  The commands of two processes break this, since one that writes*)
(* its copy back drops the items that others have added meanwhile.         *)
Remembered == [][\A k \in Keys : items[k] # None => items'[k] # None]_vars

-----------------------------------------------------------------------------
(* What the queue promises about its questions.                            *)
Status  == [k \in Keys |-> CASE items[k] = None -> "none"
                             [] IsOpen(k) -> "open"
                             [] OTHER -> items[k].status]
Effects == {"classification", "merge", "dispute"}
Applied == {k \in Keys : Done(k)}
Effectless == {k \in Keys : Kind[k] \notin Effects}
Recurring  == {k \in Keys : Kind[k] \in {"hygiene", "cluster"}}
Abstract == INSTANCE ReviewLife WITH status <- Status, applied <- Applied
ImplementsReviewLife == Abstract!Spec
===============================================================================
