---------------------------- MODULE NoteMutations ----------------------------
(***************************************************************************)
(* Commands that reorganise the notes under topics/: `kb topic rename` and *)
(* `promote`, and accepting the proposals of `kb topic split`, `kb topic   *)
(* merge` and `kb compact` (topic_mutations.py, compaction.py).            *)
(*                                                                         *)
(* One command runs at a time, on the notes it has read at its start, and  *)
(* may be killed or fail between any two writes.  A note is the file       *)
(* <topic>/<id>.md, where the program has put it.  Moves, scopes and       *)
(* sources are dealt with in any order, where the code has a sorted one.   *)
(*                                                                         *)
(* A command that require_clean_worktree refuses does not begin.  Ids are  *)
(* those of a few titles and days, with the number that tells them apart.  *)
(* The generated pages are not here, nor are notes that a person moves.    *)
(* A rejected proposal may be made again, which the code refuses.          *)
(*                                                                         *)
(* A definition marked "Faulty" is not part of the specification: it is a  *)
(* way the one after it could be wrong that a property below rules out.    *)
(***************************************************************************)
EXTENDS SequencesExt

CONSTANTS
  Topics,     \* topics, as sequences of segments
  Described,  \* the topics that a person describes
  Captured,   \* what the notes say that ingest and review create
  Drafts,     \* what the canonical notes of compaction proposals say
  Families,   \* a title and a day, which an id is made of
  SameTitles, \* TRUE: a draft may have the title and day of an archived note
  MaxNumber,  \* bound: the number that ends an id
  MaxPending, \* bound: the proposals queued at a time
  None

ASSUME TopicAssumption == Topics \subseteq Seq(STRING) \ {<<>>} /\ Described \subseteq Topics
ASSUME BoundAssumption == MaxNumber \in Nat /\ MaxPending \in Nat
ASSUME SwitchAssumption == SameTitles \in BOOLEAN
ASSUME DraftAssumption == Captured \cap Drafts = {}

VARIABLES
  files,   \* the note in each file <<topic, id>>, or None
  scope,   \* each topic's scope.txt: the template, edited, cut short, or none
  pending, \* proposals queued for review
  cmd      \* the command that is running

vars == <<files, scope, pending, cmd>>

-----------------------------------------------------------------------------
Ids      == Families \X (1..MaxNumber)
Bodies   == Captured \cup Drafts
Statuses == {"active", "superseded", "archived"}
Note     == [body : Bodies, status : Statuses, by : Ids \cup {None}]
Move     == [id : Ids, from : Topics, to : Topics]

(* A recommended delete archives: _can_delete_source_note never agrees,    *)
(* since the canonical note's sources name every source note.              *)
Plans == {"none", "keep", "supersede", "archive"}

Proposal ==
  [kind : {"topic"}, to : [Ids -> Topics \cup {None}], plan : [Ids -> {"none"}],
   topic : {None}, family : {None}, body : {None}]
  \cup
  [kind : {"compaction"}, to : [Ids -> {None}], plan : [Ids -> Plans],
   topic : Topics, family : Families, body : Drafts]

ASSUME NoneAssumption ==
  None \notin Note \cup Ids \cup Topics \cup Families \cup Bodies \cup Proposal \cup Move

(* The command that is running: the moves, scopes and folders of topics    *)
(* that are left to deal with, the move in hand, the proposal, the new     *)
(* canonical note and the source notes that are left.                      *)
Labels  == {"idle", "scopes", "move", "unlink", "clean", "mark", "reindex", "accept"}
Command == [at : Labels, moves : SUBSET Move, scopes : SUBSET (Topics \X Topics),
            old : SUBSET (Topics \X Topics), move : Move \cup {None},
            item : Proposal \cup {None}, id : Ids \cup {None}, todo : SUBSET Ids]

Idle == [at |-> "idle", moves |-> {}, scopes |-> {}, old |-> {}, move |-> None,
         item |-> None, id |-> None, todo |-> {}]

Init ==
  /\ files = [p \in Topics \X Ids |-> None]
  /\ scope = [t \in Topics |-> "none"]
  /\ pending = {}
  /\ cmd = Idle

IsFile(t, i)   == files[<<t, i>>] # None
Present(i)     == \E t \in Topics : IsFile(t, i)
Eligible(t, i) == IsFile(t, i) /\ files[<<t, i>>].status # "archived"
Active(t, i)   == IsFile(t, i) /\ files[<<t, i>>].status = "active"

(* load_note_records, ensure_unique_note_ids                               *)
Unique ==
  \A t \in Topics, i \in Ids : IsFile(t, i) => \A u \in Topics \ {t} : ~IsFile(u, i)
EligibleUnique ==
  \A t \in Topics, i \in Ids : Eligible(t, i) => \A u \in Topics \ {t} : ~Eligible(u, i)

(* generate_note_id: the first number that no given id has.                *)
IsNextId(i, used) ==
  i \notin used /\ \A n \in 1..(i[2] - 1) : <<i[1], n>> \in used

(* ensure_topic_layout: the given topics, and those above them.            *)
LaidOut(topics) ==
  [t \in Topics |-> IF scope[t] = "none" /\ \E u \in topics : IsPrefix(t, u)
                      THEN "template" ELSE scope[t]]

Goto(label) == cmd' = [cmd EXCEPT !.at = label]

-----------------------------------------------------------------------------
(* The other commands.                                                     *)

(* Ingest, capture or an accepted classification creates a note.           *)
AddNote(b, t, i) ==
  /\ cmd.at = "idle" /\ Unique
  /\ \A p \in Topics \X Ids : files[p] # None => files[p].body # b
  /\ IsNextId(i, {j \in Ids : Present(j)})
  /\ files' = [files EXCEPT ![<<t, i>>] = [body |-> b, status |-> "active", by |-> None]]
  /\ scope' = LaidOut({t})
  /\ UNCHANGED <<pending, cmd>>

(* A person describes a topic.                                             *)
EditScope(t) ==
  /\ cmd.at = "idle" /\ t \in Described /\ scope[t] = "template"
  /\ scope' = [scope EXCEPT ![t] = "edited"]
  /\ UNCHANGED <<files, pending, cmd>>

(* Of two files with one id, which a stopped move has left and every       *)
(* command refuses, a person deletes one.                                  *)
Repair(t, u, i) ==
  /\ cmd.at = "idle" /\ t # u /\ IsFile(t, i) /\ IsFile(u, i)
  /\ files' = [files EXCEPT ![<<t, i>>] = None]
  /\ UNCHANGED <<scope, pending, cmd>>

-----------------------------------------------------------------------------
(* Proposals.                                                              *)

Propose(item) ==
  /\ Cardinality(pending) < MaxPending
  /\ pending' = pending \cup {item}
  /\ UNCHANGED <<files, scope, cmd>>

OnIds(f, default) == [i \in Ids |-> IF i \in DOMAIN f THEN f[i] ELSE default]

(* add_review_item, of the moves: each of these notes to a topic.          *)
ToTopics(to) == [kind |-> "topic", to |-> OnIds(to, None), plan |-> [i \in Ids |-> "none"],
                 topic |-> None, family |-> None, body |-> None]

Direct(t) == {i \in Ids : IsFile(t, i)}

(* queue_topic_split_proposal: each note of the topic goes to a target.    *)
Split(t, targets) ==
  /\ cmd.at = "idle" /\ Direct(t) # {} /\ Unique
  /\ Cardinality(targets) >= 2 /\ t \notin targets
  /\ \E to \in [Direct(t) -> targets] : Propose(ToTopics(to))

(* queue_topic_merge_proposal                                              *)
Merge(l, r, t) ==
  /\ cmd.at = "idle" /\ l # r /\ Direct(l) \cup Direct(r) # {} /\ Unique
  /\ Propose(ToTopics([i \in Direct(l) \cup Direct(r) |-> t]))

(* draft_compaction_proposal: of the active notes with these ids.          *)
Compact(ids, t, f, b) ==
  /\ cmd.at = "idle" /\ Cardinality(ids) >= 2
  /\ \A i \in ids : \E u \in Topics : Active(u, i)
  /\ \A u, v \in Topics, i \in Ids : Active(u, i) /\ Active(v, i) => u = v
  /\ \A p \in Topics \X Ids : files[p] # None => files[p].body # b
  /\ \A item \in pending : item.body # b
  /\ \E plan \in [ids -> Plans \ {"none"}] :
       Propose([kind |-> "compaction", to |-> [i \in Ids |-> None],
                plan |-> OnIds(plan, "none"), topic |-> t, family |-> f, body |-> b])

Reject(item) ==
  /\ cmd.at = "idle" /\ item \in pending
  /\ pending' = pending \ {item}
  /\ UNCHANGED <<files, scope, cmd>>

-----------------------------------------------------------------------------
(* Moving notes between topics.                                            *)

(* _validate_move_conflicts                                                *)
NoConflict(moves) ==
  /\ \A m, n \in moves : <<m.to, m.id>> = <<n.to, n.id>> => m.from = n.from
  /\ \A m \in moves : IsFile(m.to, m.id) =>
       \E n \in moves : <<n.from, n.id>> = <<m.to, m.id>>

(* _apply_topic_moves                                                      *)
ApplyMoves(moves, item) ==
  /\ moves # {} /\ moves \subseteq Move /\ NoConflict(moves)
  /\ cmd' = [Idle EXCEPT !.at = "scopes", !.moves = moves, !.item = item,
                         !.scopes = {<<m.from, m.to>> : m \in moves},
                         !.old = {<<m.from, m.to>> : m \in moves}]
  /\ UNCHANGED <<files, scope, pending>>

(* _plan_prefix_moves: the notes of a topic and of those below it.         *)
PrefixMoves(old, new) ==
  {[id |-> p[2], from |-> p[1], to |-> new \o SubSeq(p[1], Len(old) + 1, Len(p[1]))] :
     p \in {q \in Topics \X Ids : files[q] # None /\ IsPrefix(old, q[1])}}

(* rename_topic                                                            *)
Rename(old, new) ==
  /\ cmd.at = "idle" /\ old # new /\ Unique
  /\ ApplyMoves(PrefixMoves(old, new), None)

(* promote_topics                                                          *)
Promote(topics, parent) ==
  /\ cmd.at = "idle" /\ Unique
  /\ \A t, u \in topics : t # u => ~IsPrefix(t, u)
  /\ \A t \in topics : /\ ~IsPrefix(t, parent) /\ parent \o <<Last(t)>> # t
                       /\ PrefixMoves(t, parent \o <<Last(t)>>) # {}
  /\ ApplyMoves(UNION {PrefixMoves(t, parent \o <<Last(t)>>) : t \in topics}, None)

(* apply_topic_review_item: the notes from where they are now.             *)
AcceptMoves(item) ==
  /\ cmd.at = "idle" /\ item \in pending /\ item.kind = "topic" /\ Unique
  /\ \A i \in Ids : item.to[i] # None => Present(i)
  /\ ApplyMoves({m \in Move : m.to = item.to[m.id] /\ IsFile(m.from, m.id)}, item)

(* Faulty: the destination is laid out first, and then taken for described.*)
CopyScope_Any(s, d) ==
  /\ cmd.at = "scopes" /\ <<s, d>> \in cmd.scopes
  /\ scope' = IF scope[s] = "none" THEN scope
              ELSE LaidOut({d})
  /\ cmd' = [cmd EXCEPT !.scopes = @ \ {<<s, d>>}]
  /\ UNCHANGED <<files, pending>>

(* _copy_topic_scopes: over a template, and nothing else.                  *)
CopyScope(s, d) ==
  /\ cmd.at = "scopes" /\ <<s, d>> \in cmd.scopes
  /\ scope' = IF scope[s] = "none" THEN scope
              ELSE IF scope[d] \in {"edited", "torn"} THEN LaidOut({d})
              ELSE [LaidOut({d}) EXCEPT ![d] = scope[s]]
  /\ cmd' = [cmd EXCEPT !.scopes = @ \ {<<s, d>>}]
  /\ UNCHANGED <<files, pending>>

(* A kill on the way.  The text is written in place, so that the file may  *)
(* be cut short, and is then not the template either.                      *)
TearScope(s, d) ==
  /\ cmd.at = "scopes" /\ <<s, d>> \in cmd.scopes
  /\ scope[s] # "none" /\ scope[d] \in {"none", "template"}
  /\ \E text \in {"template", "torn"} : scope' = [LaidOut({d}) EXCEPT ![d] = text]
  /\ cmd' = Idle
  /\ UNCHANGED <<files, pending>>

LayOut ==
  /\ cmd.at = "scopes" /\ cmd.scopes = {}
  /\ scope' = LaidOut({m.to : m \in cmd.moves})
  /\ Goto("move")
  /\ UNCHANGED <<files, pending>>

(* Faulty: the old file is removed before the new one is written.          *)
MoveNote_RemovesFirst(m) ==
  /\ cmd.at = "move" /\ m \in cmd.moves /\ IsFile(m.from, m.id)
  /\ files' = [files EXCEPT ![<<m.from, m.id>>] = None]
  /\ cmd' = [cmd EXCEPT !.moves = @ \ {m}]
  /\ UNCHANGED <<scope, pending>>

(* _move_one_note: the new file is written, then the old one removed.      *)
MoveNote(m) ==
  /\ cmd.at = "move" /\ m \in cmd.moves /\ IsFile(m.from, m.id)
  /\ files' = [files EXCEPT ![<<m.to, m.id>>] = files[<<m.from, m.id>>]]
  /\ cmd' = [cmd EXCEPT !.moves = @ \ {m},
                        !.at = IF m.from = m.to THEN "move" ELSE "unlink",
                        !.move = IF m.from = m.to THEN None ELSE m]
  /\ UNCHANGED <<scope, pending>>

UnlinkOld ==
  /\ cmd.at = "unlink"
  /\ files' = [files EXCEPT ![<<cmd.move.from, cmd.move.id>>] = None]
  /\ cmd' = [cmd EXCEPT !.at = "move", !.move = None]
  /\ UNCHANGED <<scope, pending>>

Moved ==
  /\ cmd.at = "move" /\ cmd.moves = {}
  /\ Goto("clean")
  /\ UNCHANGED <<files, scope, pending>>

(* Nothing but its scope is in the folder of a topic.                      *)
Bare(t) ==
  /\ Direct(t) = {}
  /\ \A u \in Topics : IsStrictPrefix(t, u) => scope[u] = "none" /\ Direct(u) = {}

(* _cleanup_old_topic_dirs, deepest first                                  *)
Cleanup(t) ==
  /\ cmd.at = "clean"
  /\ \E o \in cmd.old : o[1] = t
  /\ \A o \in cmd.old : Len(o[1]) <= Len(t)
  /\ scope' = IF Bare(t) THEN [scope EXCEPT ![t] = "none"] ELSE scope
  /\ cmd' = [cmd EXCEPT !.old = {o \in @ : o[1] # t}]
  /\ UNCHANGED <<files, pending>>

CleanedUp ==
  /\ cmd.at = "clean" /\ cmd.old = {}
  /\ Goto("reindex")
  /\ UNCHANGED <<files, scope, pending>>

-----------------------------------------------------------------------------
(* Compaction.                                                             *)

Sources(item) == {i \in Ids : item.plan[i] # "none"}

(* Faulty: ids are compared with those of active notes only.               *)
UsedIds_Active == {i \in Ids : \E t \in Topics : Active(t, i)}

(* existing_note_ids, of _eligible_or_supersedable_records                 *)
UsedIds == {i \in Ids : \E t \in Topics : Eligible(t, i)}

(* apply_compaction_review_item, up to its first write                     *)
AcceptCompaction(item, i) ==
  /\ cmd.at = "idle" /\ item \in pending /\ item.kind = "compaction"
  /\ EligibleUnique
  /\ \A j \in Sources(item) : \E t \in Topics : Eligible(t, j)
  /\ i[1] = item.family /\ IsNextId(i, UsedIds)
  /\ ~IsFile(item.topic, i)
  /\ ~SameTitles => \A p \in Topics \X Ids :
       files[p] # None /\ files[p].status = "archived" => p[2][1] # item.family
  /\ files' = [files EXCEPT ![<<item.topic, i>>] =
                 [body |-> item.body, status |-> "active", by |-> None]]
  /\ cmd' = [Idle EXCEPT !.at = "mark", !.item = item, !.id = i, !.todo = Sources(item)]
  /\ UNCHANGED <<scope, pending>>

KeepSource(i) ==
  /\ cmd.at = "mark" /\ i \in cmd.todo /\ cmd.item.plan[i] = "keep"
  /\ cmd' = [cmd EXCEPT !.todo = @ \ {i}]
  /\ UNCHANGED <<files, scope, pending>>

(* Faulty: the recommendation is written as the status.                    *)
MarkSource_AsRecommended(t, i) ==
  /\ cmd.at = "mark" /\ i \in cmd.todo /\ cmd.item.plan[i] # "keep"
  /\ Eligible(t, i)
  /\ files' = [files EXCEPT ![<<t, i>>] = [@ EXCEPT !.by = cmd.id, !.status = cmd.item.plan[i]]]
  /\ cmd' = [cmd EXCEPT !.todo = @ \ {i}]
  /\ UNCHANGED <<scope, pending>>

(* _mark_source_note                                                       *)
MarkSource(t, i) ==
  /\ cmd.at = "mark" /\ i \in cmd.todo /\ cmd.item.plan[i] # "keep"
  /\ Eligible(t, i)
  /\ files' = [files EXCEPT ![<<t, i>>] =
                 [@ EXCEPT !.by = cmd.id,
                           !.status = IF cmd.item.plan[i] = "archive"
                                        THEN "archived" ELSE "superseded"]]
  /\ cmd' = [cmd EXCEPT !.todo = @ \ {i}]
  /\ UNCHANGED <<scope, pending>>

(* Faulty: one marked source is enough.                                    *)
Marked_Early ==
  /\ cmd.at = "mark" /\ cmd.todo # Sources(cmd.item)
  /\ Goto("reindex")
  /\ UNCHANGED <<files, scope, pending>>

Marked ==
  /\ cmd.at = "mark" /\ cmd.todo = {}
  /\ Goto("reindex")
  /\ UNCHANGED <<files, scope, pending>>

-----------------------------------------------------------------------------
(* reindex_data_dir: every folder gets its scope.  It fails if an id is    *)
(* there twice.                                                            *)
Reindex ==
  /\ cmd.at = "reindex" /\ Unique
  /\ scope' = LaidOut({t \in Topics : Direct(t) # {} \/ scope[t] # "none"})
  /\ cmd' = IF cmd.item = None THEN Idle ELSE [cmd EXCEPT !.at = "accept"]
  /\ UNCHANGED <<files, pending>>

(* accept_review_item writes that the item is accepted.                    *)
Accept ==
  /\ cmd.at = "accept"
  /\ pending' = pending \ {cmd.item}
  /\ cmd' = Idle
  /\ UNCHANGED <<files, scope>>

(* A kill, or an exception.                                                *)
Stop == cmd.at # "idle" /\ cmd' = Idle /\ UNCHANGED <<files, scope, pending>>

Write == \/ \E s, d \in Topics : CopyScope(s, d) \/ TearScope(s, d)
         \/ \E m \in cmd.moves : MoveNote(m)
         \/ \E t \in Topics : Cleanup(t)
         \/ \E i \in Ids : KeepSource(i) \/ \E t \in Topics : MarkSource(t, i)
         \/ LayOut \/ UnlinkOld \/ Moved \/ CleanedUp \/ Marked \/ Reindex \/ Accept

Others ==
  \/ \E b \in Captured, t \in Topics, i \in Ids : AddNote(b, t, i)
  \/ \E t \in Topics : EditScope(t)
  \/ \E t, u \in Topics, i \in Ids : Repair(t, u, i)

Queue ==
  \/ \E t \in Topics : \/ \E targets \in SUBSET Topics : Split(t, targets)
                      \/ \E l, r \in Topics : Merge(l, r, t)
                      \/ \E ids \in SUBSET {i \in Ids : Present(i)}, f \in Families, b \in Drafts :
                           Compact(ids, t, f, b)
  \/ \E item \in pending : Reject(item)

Begin ==
  \/ \E old, new \in Topics : Rename(old, new)
  \/ \E topics \in SUBSET Topics \ {{}}, parent \in Topics : Promote(topics, parent)
  \/ \E item \in pending : \/ AcceptMoves(item)
                          \/ \E i \in Ids : AcceptCompaction(item, i)

Next == Write \/ Others \/ Queue \/ Begin \/ Stop

Spec == Init /\ [][Next]_vars

-----------------------------------------------------------------------------
TypeOK ==
  /\ files \in [Topics \X Ids -> Note \cup {None}]
  /\ scope \in [Topics -> {"none", "template", "edited", "torn"}]
  /\ pending \subseteq Proposal
  /\ cmd \in Command

(* Two files with one id are the same note, so that a person who deletes   *)
(* one of them loses nothing.  generate_note_id gives an id "with a        *)
(* numeric suffix on collision".                                           *)
IdsNameOneNote ==
  \A t, u \in Topics, i \in Ids :
    IsFile(t, i) /\ IsFile(u, i) => files[<<t, i>>] = files[<<u, i>>]

(* When the description of a topic is removed with its folder, the topics  *)
(* its notes went to are described, or a kill has cut the copy short.      *)
StaysDescribed ==
  [][\A t \in Topics : scope[t] = "edited" /\ scope'[t] = "none" =>
       \A o \in cmd.old : o[1] = t => scope[o[2]] \in {"edited", "torn"}]_vars

(* A proposal is marked accepted when it has been carried out on every     *)
(* note it names, whatever earlier attempts were stopped.                  *)
Applied(item) ==
  \A i \in Ids :
    /\ item.to[i] # None => \A t \in Topics : IsFile(t, i) <=> t = item.to[i]
    /\ item.plan[i] \in {"supersede", "archive"} =>
         \A t \in Topics : IsFile(t, i) => files[<<t, i>>].by = cmd.id
AcceptedIsApplied ==
  [][\A item \in pending \ pending' : cmd.at = "accept" => Applied(item)]_vars

(* No note is ever lost, no id comes to name another note, and what has    *)
(* replaced a note is there.                                               *)
Places == [b \in Bodies |-> {p \in Topics \X Ids : files[p] # None /\ files[p].body = b}]
Replaced == {r \in Ids \X Ids : \E t \in Topics : IsFile(t, r[1]) /\ files[<<t, r[1]>>].by = r[2]}
Abstract == INSTANCE NoteLife WITH Notes <- Bodies, places <- Places, replaced <- Replaced
ImplementsNoteLife == Abstract!Spec
===============================================================================
