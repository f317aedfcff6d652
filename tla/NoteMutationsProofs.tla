------------------------- MODULE NoteMutationsProofs -------------------------
(***************************************************************************)
(* What NoteMutations keeps for every set of topics, notes and titles,     *)
(* wherever commands are stopped.                                          *)
(***************************************************************************)
EXTENDS NoteMutations, TLAPS

USE BoundAssumption, SwitchAssumption, DraftAssumption, NoneAssumption

-----------------------------------------------------------------------------
(* Types.                                                                  *)

Texts == {"none", "template", "edited", "torn"}

(* Laying topics out leaves each scope a text, and changes none there is.  *)
LEMMA LaysOut ==
  ASSUME scope \in [Topics -> Texts], NEW topics
  PROVE  /\ LaidOut(topics) \in [Topics -> Texts]
         /\ \A t \in Topics : scope[t] # "none" => LaidOut(topics)[t] = scope[t]
BY DEF LaidOut, Texts

(* A command that moves notes begins.                                      *)
BeginsMoves(moves, item) == item \in pending \cup {None} /\ ApplyMoves(moves, item)

LEMMA Movers ==
  /\ \A old, new \in Topics : Rename(old, new) =>
       cmd.at = "idle" /\ Unique /\ \E moves : BeginsMoves(moves, None)
  /\ \A topics, parent : Promote(topics, parent) =>
       cmd.at = "idle" /\ Unique /\ \E moves : BeginsMoves(moves, None)
  /\ \A item : AcceptMoves(item) =>
       cmd.at = "idle" /\ Unique /\ \E moves : BeginsMoves(moves, item)
BY DEF Rename, Promote, AcceptMoves, BeginsMoves

LEMMA BeginsMovesType ==
  ASSUME TypeOK, NEW moves, NEW item, BeginsMoves(moves, item)
  PROVE  TypeOK'
<1>1. {<<m.from, m.to>> : m \in moves} \subseteq Topics \X Topics
  BY DEF BeginsMoves, ApplyMoves, Move
<1>2. cmd' \in Command
  BY <1>1 DEF BeginsMoves, ApplyMoves, TypeOK, Command, Idle, Labels
<1>3. QED
  BY <1>2 DEF BeginsMoves, ApplyMoves, TypeOK

LEMMA ProposesType ==
  ASSUME TypeOK, NEW item \in Proposal, Propose(item) PROVE TypeOK'
BY DEF Propose, TypeOK

LEMMA QueueType == TypeOK /\ Queue => TypeOK'
<1> SUFFICES ASSUME TypeOK, Queue PROVE TypeOK'
  OBVIOUS
<1>1. ASSUME NEW to, DOMAIN to \subseteq Ids, \A i \in DOMAIN to : to[i] \in Topics
      PROVE  ToTopics(to) \in Proposal
  BY <1>1 DEF ToTopics, OnIds, Proposal, Plans
<1>2. ASSUME NEW t \in Topics, NEW targets \in SUBSET Topics, Split(t, targets) PROVE TypeOK'
  <2>1. PICK to \in [Direct(t) -> targets] : Propose(ToTopics(to))
    BY <1>2 DEF Split
  <2>2. ToTopics(to) \in Proposal
    BY <1>1 DEF Direct
  <2>3. QED
    BY <2>1, <2>2, ProposesType
<1>3. ASSUME NEW t \in Topics, NEW l \in Topics, NEW r \in Topics, Merge(l, r, t) PROVE TypeOK'
  <2>1. ToTopics([i \in Direct(l) \cup Direct(r) |-> t]) \in Proposal
    BY <1>1 DEF Direct
  <2>2. QED
    BY <1>3, <2>1, ProposesType DEF Merge
<1>4. ASSUME NEW t \in Topics, NEW ids \in SUBSET Ids, NEW f \in Families, NEW b \in Drafts,
             Compact(ids, t, f, b)
      PROVE  TypeOK'
  <2>1. PICK plan \in [ids -> Plans \ {"none"}] :
          Propose([kind |-> "compaction", to |-> [i \in Ids |-> None],
                   plan |-> OnIds(plan, "none"), topic |-> t, family |-> f, body |-> b])
    BY <1>4 DEF Compact
  <2>2. OnIds(plan, "none") \in [Ids -> Plans]
    BY DEF OnIds, Plans
  <2>3. [kind |-> "compaction", to |-> [i \in Ids |-> None], plan |-> OnIds(plan, "none"),
         topic |-> t, family |-> f, body |-> b] \in Proposal
    BY <2>2 DEF Proposal, Bodies
  <2>4. QED
    BY <2>1, <2>3, ProposesType
<1>5. ASSUME NEW item \in pending, Reject(item) PROVE TypeOK'
  BY <1>5 DEF Reject, TypeOK
<1>6. QED
  BY <1>2, <1>3, <1>4, <1>5 DEF Queue

LEMMA OthersType == TypeOK /\ Others => TypeOK'
<1> SUFFICES ASSUME TypeOK, Others PROVE TypeOK'
  OBVIOUS
<1>1. ASSUME NEW b \in Captured, NEW t \in Topics, NEW i \in Ids, AddNote(b, t, i) PROVE TypeOK'
  <2>1. scope' \in [Topics -> Texts]
    BY <1>1, LaysOut DEF AddNote, TypeOK, Texts
  <2>2. QED
    BY <1>1, <2>1 DEF AddNote, TypeOK, Note, Bodies, Statuses, Texts
<1>2. ASSUME NEW t \in Topics, EditScope(t) PROVE TypeOK'
  BY <1>2 DEF EditScope, TypeOK
<1>3. ASSUME NEW t \in Topics, NEW u \in Topics, NEW i \in Ids, Repair(t, u, i) PROVE TypeOK'
  BY <1>3 DEF Repair, TypeOK
<1>4. QED
  BY <1>1, <1>2, <1>3 DEF Others

LEMMA AcceptCompactionType ==
  ASSUME TypeOK, NEW item, NEW i \in Ids, AcceptCompaction(item, i) PROVE TypeOK'
<1>1. item \in Proposal /\ item.kind = "compaction" /\ Sources(item) \subseteq Ids
  BY DEF AcceptCompaction, TypeOK, Sources
<1>2. cmd' \in Command
  BY <1>1 DEF AcceptCompaction, TypeOK, Command, Idle, Labels
<1>3. item.topic \in Topics /\ item.body \in Bodies
  BY <1>1 DEF Proposal, Bodies
<1>4. QED
  BY <1>2, <1>3 DEF AcceptCompaction, TypeOK, Note, Statuses

LEMMA WriteType == TypeOK /\ Write => TypeOK'
<1> SUFFICES ASSUME TypeOK, Write PROVE TypeOK'
  OBVIOUS
<1>1. ASSUME NEW s \in Topics, NEW d \in Topics, CopyScope(s, d) \/ TearScope(s, d) PROVE TypeOK'
  <2>1. LaidOut({d}) \in [Topics -> Texts]
    BY LaysOut DEF TypeOK, Texts
  <2>2. scope' \in [Topics -> Texts]
    BY <1>1, <2>1 DEF CopyScope, TearScope, TypeOK, Texts
  <2>3. cmd' \in Command
    BY <1>1 DEF CopyScope, TearScope, TypeOK, Command, Idle, Labels
  <2>4. QED
    BY <1>1, <2>2, <2>3 DEF CopyScope, TearScope, TypeOK, Texts
<1>2. ASSUME NEW m \in cmd.moves, MoveNote(m) PROVE TypeOK'
  <2>1. m \in Move /\ m.id \in Ids /\ m.from \in Topics /\ m.to \in Topics
    BY DEF TypeOK, Command, Move
  <2>2. files[<<m.from, m.id>>] \in Note \cup {None}
    BY <2>1 DEF TypeOK
  <2>3. files' \in [Topics \X Ids -> Note \cup {None}]
    BY <1>2, <2>2 DEF MoveNote, TypeOK
  <2>4. cmd' \in Command
    BY <1>2, <2>1 DEF MoveNote, TypeOK, Command, Labels
  <2>5. QED
    BY <1>2, <2>3, <2>4 DEF MoveNote, TypeOK
<1>3. ASSUME NEW t \in Topics, Cleanup(t) PROVE TypeOK'
  <2>1. cmd' \in Command
    BY <1>3 DEF Cleanup, TypeOK, Command
  <2>2. QED
    BY <1>3, <2>1 DEF Cleanup, TypeOK
<1>4. ASSUME NEW i \in Ids, KeepSource(i) PROVE TypeOK'
  BY <1>4 DEF KeepSource, TypeOK, Command
<1>5. ASSUME NEW t \in Topics, NEW i \in Ids, MarkSource(t, i) PROVE TypeOK'
  <2>1. files[<<t, i>>] \in Note /\ cmd.id \in Ids \cup {None}
    BY <1>5 DEF MarkSource, Eligible, IsFile, TypeOK, Command
  <2>2. files' \in [Topics \X Ids -> Note \cup {None}]
    BY <1>5, <2>1 DEF MarkSource, TypeOK, Note, Statuses
  <2>3. cmd' \in Command
    BY <1>5 DEF MarkSource, TypeOK, Command
  <2>4. QED
    BY <1>5, <2>2, <2>3 DEF MarkSource, TypeOK
<1>6. CASE LayOut
  <2>1. scope' \in [Topics -> Texts]
    BY <1>6, LaysOut DEF LayOut, TypeOK, Texts
  <2>2. cmd' \in Command
    BY <1>6 DEF LayOut, Goto, TypeOK, Command, Labels
  <2>3. QED
    BY <1>6, <2>1, <2>2 DEF LayOut, TypeOK, Texts
<1>7. CASE UnlinkOld
  BY <1>7 DEF UnlinkOld, TypeOK, Command, Labels
<1>8. CASE Moved \/ CleanedUp \/ Marked
  BY <1>8 DEF Moved, CleanedUp, Marked, Goto, TypeOK, Command, Labels
<1>9. CASE Reindex
  <2>1. scope' \in [Topics -> Texts]
    BY <1>9, LaysOut DEF Reindex, TypeOK, Texts
  <2>2. cmd' \in Command
    BY <1>9 DEF Reindex, TypeOK, Command, Idle, Labels
  <2>3. QED
    BY <1>9, <2>1, <2>2 DEF Reindex, TypeOK, Texts
<1>10. CASE Accept
  BY <1>10 DEF Accept, TypeOK, Command, Idle, Labels
<1>11. QED
  BY <1>1, <1>2, <1>3, <1>4, <1>5, <1>6, <1>7, <1>8, <1>9, <1>10 DEF Write

LEMMA TypeInit == Init => TypeOK
BY DEF Init, TypeOK, Idle, Command, Labels

LEMMA TypeStep == TypeOK /\ [Next]_vars => TypeOK'
<1> SUFFICES ASSUME TypeOK, [Next]_vars PROVE TypeOK'
  OBVIOUS
<1>1. ASSUME Begin PROVE TypeOK'
  BY <1>1, Movers, BeginsMovesType, AcceptCompactionType DEF Begin
<1>2. CASE Stop
  BY <1>2 DEF Stop, TypeOK, Idle, Command, Labels
<1>3. CASE UNCHANGED vars
  BY <1>3 DEF vars, TypeOK
<1>4. QED
  BY <1>1, <1>2, <1>3, WriteType, OthersType, QueueType DEF Next

(* The folders, the queue and the command that runs keep their types, for  *)
(* any topics, notes, titles and proposals.                                *)
THEOREM TypeCorrect == Spec => []TypeOK
BY TypeInit, TypeStep, PTL DEF Spec

-----------------------------------------------------------------------------
(* The inductive invariant.                                                *)

(* The only file of a note is in this topic.                               *)
Lone(i, t) == \A u \in Topics : IsFile(u, i) <=> u = t

Before == {"scopes", "move", "unlink"}
After  == {"clean", "reindex", "accept"}

(* A command moves each of its notes from where it is, and the note in     *)
(* hand is in both its places.                                             *)
MoveInv ==
  /\ cmd.at \in Before =>
       /\ \A m, n \in cmd.moves : m.id = n.id => m = n
       /\ \A m \in cmd.moves : Lone(m.id, m.from)
  /\ cmd.at \notin Before => cmd.moves = {}
  /\ cmd.at = "unlink" =>
       /\ cmd.move \in Move /\ cmd.move.from # cmd.move.to
       /\ \A t \in Topics : IsFile(t, cmd.move.id) <=> t \in {cmd.move.from, cmd.move.to}
       /\ \A m \in cmd.moves : m.id # cmd.move.id

(* A note of the accepted proposal is where it should be or has a move     *)
(* left that takes it there.                                               *)
DueInv ==
  cmd.item # None /\ cmd.item.kind = "topic" =>
    /\ cmd.at \in Before \cup After
    /\ \A m \in cmd.moves : m.to = cmd.item.to[m.id]
    /\ cmd.at = "unlink" => cmd.move.to = cmd.item.to[cmd.move.id]
    /\ \A i \in Ids : cmd.item.to[i] # None =>
         \/ Lone(i, cmd.item.to[i])
         \/ \E m \in cmd.moves : m.id = i /\ m.to = cmd.item.to[i]
         \/ cmd.at = "unlink" /\ cmd.move.id = i /\ cmd.move.to = cmd.item.to[i]

(* The canonical note is there, and the sources that are not left name it, *)
(* unless a file with the id of one is another note.                       *)
Names(i) == \A t \in Topics : IsFile(t, i) => files[<<t, i>>].by = cmd.id

MarkInv ==
  /\ cmd.at = "mark" =>
       /\ EligibleUnique
       /\ cmd.item # None /\ cmd.item.kind = "compaction"
       /\ cmd.id \in Ids /\ Present(cmd.id)
  /\ cmd.at # "mark" => cmd.todo = {}
  /\ cmd.item # None /\ cmd.item.kind = "compaction" =>
       /\ cmd.at \in {"mark", "reindex", "accept"}
       /\ ~SameTitles => \A i \in Ids : cmd.item.plan[i] \in {"supersede", "archive"} =>
                                         i \in cmd.todo \/ Names(i)

(* A note has come to this topic and stays.                                *)
Reached(t) ==
  \E i \in Ids : /\ IsFile(t, i)
                 /\ \A m \in cmd.moves : m.id # i
                 /\ ~(cmd.at = "unlink" /\ cmd.move.id = i /\ cmd.move.from = t)

IsDescribed(t) == scope[t] \in {"edited", "torn"}

(* Each topic that notes go to gets one.  Once its scope has been dealt    *)
(* with it is described if the topic they leave is, unless notes come      *)
(* there as well.                                                          *)
ScopeInv ==
  /\ cmd.scopes \subseteq cmd.old
  /\ cmd.at \notin Before \cup {"clean"} => cmd.old = {}
  /\ cmd.at # "scopes" => cmd.scopes = {}
  /\ cmd.at \in Before =>
       /\ \A o \in cmd.old : Reached(o[2]) \/ (\E m \in cmd.moves : m.to = o[2])
       /\ \A o \in cmd.old \ cmd.scopes : scope[o[1]] = "edited" =>
            IsDescribed(o[2]) \/ \E q \in cmd.old : q[2] = o[1]
  /\ cmd.at = "clean" =>
       \A o \in cmd.old : /\ Direct(o[2]) # {}
                          /\ scope[o[1]] = "edited" => IsDescribed(o[2]) \/ Direct(o[1]) # {}

NamesInv == ~SameTitles => IdsNameOneNote

IInv == TypeOK /\ MoveInv /\ DueInv /\ MarkInv /\ ScopeInv /\ NamesInv

(* No command runs, before or after.                                       *)
LEMMA IdleKeeps ==
  cmd' = Idle => MoveInv' /\ DueInv' /\ MarkInv' /\ ScopeInv'
BY DEF MoveInv, DueInv, MarkInv, ScopeInv, Idle, Before, After

LEMMA IdleStays ==
  cmd.at = "idle" /\ cmd' = cmd /\ MoveInv /\ DueInv /\ MarkInv /\ ScopeInv
    => MoveInv' /\ DueInv' /\ MarkInv' /\ ScopeInv'
BY DEF MoveInv, DueInv, MarkInv, ScopeInv, Before, After

-----------------------------------------------------------------------------
(* The beginning of a command.                                             *)

(* Of two topics above one, one is above the other.                        *)
LEMMA PrefixesCompare ==
  ASSUME NEW s \in Topics, NEW t \in Topics, NEW u \in Topics, IsPrefix(s, u), IsPrefix(t, u)
  PROVE  IsPrefix(s, t) \/ IsPrefix(t, s)
<1>1. s \in Seq(STRING) /\ t \in Seq(STRING) /\ u \in Seq(STRING)
  BY TopicAssumption
<1>2. Len(s) <= Len(t) \/ Len(t) <= Len(s)
  BY <1>1
<1>3. QED
  BY <1>1, <1>2 DEF IsPrefix

(* What every command that moves notes has planned.                        *)
Planned(moves) ==
  /\ moves \subseteq Move
  /\ \A m \in moves : IsFile(m.from, m.id)
  /\ \A m, n \in moves : m.id = n.id => m = n

LEMMA SameFile ==
  ASSUME Unique, NEW t \in Topics, NEW u \in Topics, NEW i \in Ids, IsFile(t, i), IsFile(u, i)
  PROVE  t = u
BY DEF Unique

LEMMA SameMove ==
  ASSUME NEW m \in Move, NEW n \in Move, m.id = n.id, m.from = n.from, m.to = n.to
  PROVE  m = n
BY DEF Move

LEMMA PrefixMove ==
  ASSUME NEW old, NEW new, NEW m \in PrefixMoves(old, new)
  PROVE  /\ m.id \in Ids /\ m.from \in Topics /\ IsFile(m.from, m.id) /\ IsPrefix(old, m.from)
         /\ m.to = new \o SubSeq(m.from, Len(old) + 1, Len(m.from))
<1>1. PICK p \in Topics \X Ids :
        /\ files[p] # None /\ IsPrefix(old, p[1])
        /\ m = [id |-> p[2], from |-> p[1],
                to |-> new \o SubSeq(p[1], Len(old) + 1, Len(p[1]))]
  BY DEF PrefixMoves
<1>2. m.id = p[2] /\ m.from = p[1] /\ m.to = new \o SubSeq(p[1], Len(old) + 1, Len(p[1]))
  BY <1>1
<1>3. p = <<m.from, m.id>> /\ p[1] \in Topics /\ p[2] \in Ids
  BY <1>2
<1>4. QED
  BY <1>1, <1>2, <1>3 DEF IsFile

LEMMA RenamePlans ==
  ASSUME NEW old, NEW new, Rename(old, new) PROVE Planned(PrefixMoves(old, new))
<1> DEFINE moves == PrefixMoves(old, new)
<1>1. moves \subseteq Move /\ Unique
  BY DEF Rename, ApplyMoves
<1>2. ASSUME NEW m \in moves, NEW n \in moves, m.id = n.id PROVE m = n
  <2>1. m.from = n.from
    BY <1>1, <1>2, PrefixMove, SameFile
  <2>2. m.to = n.to
    BY <2>1, PrefixMove
  <2>3. QED
    BY <1>1, <1>2, <2>1, <2>2, SameMove
<1>3. \A m \in moves : IsFile(m.from, m.id)
  BY PrefixMove
<1>4. QED
  BY <1>1, <1>2, <1>3 DEF Planned

LEMMA PromotePlans ==
  ASSUME NEW topics \in SUBSET Topics, NEW parent, Promote(topics, parent)
  PROVE  Planned(UNION {PrefixMoves(t, parent \o <<Last(t)>>) : t \in topics})
<1> DEFINE moves == UNION {PrefixMoves(t, parent \o <<Last(t)>>) : t \in topics}
<1>1. moves \subseteq Move /\ Unique
  BY DEF Promote, ApplyMoves
<1>2. \A t, u \in topics : t # u => ~IsPrefix(t, u)
  BY DEF Promote
<1>3. ASSUME NEW m \in moves, NEW n \in moves, m.id = n.id PROVE m = n
  <2>1. PICK t \in topics : m \in PrefixMoves(t, parent \o <<Last(t)>>)
    OBVIOUS
  <2>2. PICK u \in topics : n \in PrefixMoves(u, parent \o <<Last(u)>>)
    OBVIOUS
  <2>3. m.from = n.from /\ m.from \in Topics
    BY <1>1, <1>3, <2>1, <2>2, PrefixMove, SameFile
  <2>4. t = u
    BY <1>2, <2>1, <2>2, <2>3, PrefixMove, PrefixesCompare
  <2>5. m.to = parent \o <<Last(t)>> \o SubSeq(m.from, Len(t) + 1, Len(m.from))
    BY <2>1, PrefixMove
  <2>6. n.to = parent \o <<Last(u)>> \o SubSeq(n.from, Len(u) + 1, Len(n.from))
    BY <2>2, PrefixMove
  <2>7. QED
    BY <1>1, <1>3, <2>3, <2>4, <2>5, <2>6, SameMove
<1>4. ASSUME NEW m \in moves PROVE IsFile(m.from, m.id)
  <2>1. PICK t \in topics : m \in PrefixMoves(t, parent \o <<Last(t)>>)
    OBVIOUS
  <2>2. QED
    BY <2>1, PrefixMove
<1>5. QED
  BY <1>1, <1>3, <1>4 DEF Planned

LEMMA AcceptPlans ==
  ASSUME NEW item, AcceptMoves(item)
  PROVE  Planned({m \in Move : m.to = item.to[m.id] /\ IsFile(m.from, m.id)})
<1> DEFINE moves == {m \in Move : m.to = item.to[m.id] /\ IsFile(m.from, m.id)}
<1>1. ASSUME NEW m \in moves, NEW n \in moves, m.id = n.id PROVE m = n
  <2>1. m.from = n.from
    BY <1>1, SameFile DEF AcceptMoves, Move
  <2>2. QED
    BY <1>1, <2>1, SameMove
<1>2. QED
  BY <1>1 DEF Planned

(* The moves of a command: a proposal's, if one is accepted.               *)
Serves(moves, item) ==
  item # None =>
    /\ item \in Proposal /\ AcceptMoves(item)
    /\ moves = {m \in Move : m.to = item.to[m.id] /\ IsFile(m.from, m.id)}

(* A command that moves notes begins as the invariant says.                *)
LEMMA BeginsMovesInv ==
  ASSUME NEW moves, NEW item, Unique, Planned(moves), ApplyMoves(moves, item),
         Serves(moves, item)
  PROVE  MoveInv' /\ DueInv' /\ MarkInv' /\ ScopeInv'
<1>1. /\ cmd'.at = "scopes" /\ cmd'.moves = moves /\ cmd'.item = item /\ cmd'.todo = {}
      /\ cmd'.scopes = {<<m.from, m.to>> : m \in moves}
      /\ cmd'.old = {<<m.from, m.to>> : m \in moves}
      /\ files' = files
  BY DEF ApplyMoves, Idle
<1>2. MoveInv'
  <2>1. \A m \in moves : Lone(m.id, m.from)
    BY SameFile DEF Planned, Lone, Move
  <2>2. QED
    BY <1>1, <2>1 DEF MoveInv, Planned, Lone, IsFile, After, Before
<1>3. ASSUME item # None, NEW i \in Ids, item.to[i] # None
      PROVE  \E m \in moves : m.id = i /\ m.to = item.to[i]
  <2>1. PICK t \in Topics : IsFile(t, i)
    BY <1>3 DEF AcceptMoves, Present, Serves
  <2>2. item.to[i] \in Topics
    BY <1>3 DEF Proposal, Serves
  <2>3. [id |-> i, from |-> t, to |-> item.to[i]] \in moves
    BY <1>3, <2>1, <2>2 DEF Move, Serves
  <2>4. QED
    BY <2>3
<1>4. DueInv' /\ MarkInv'
  <2>1. item # None => item.kind = "topic" /\ \A m \in moves : m.to = item.to[m.id]
    BY DEF AcceptMoves, Serves
  <2>2. QED
    BY <1>1, <1>3, <2>1 DEF DueInv, MarkInv, Before
<1>5. ScopeInv'
  BY <1>1 DEF ScopeInv, Before
<1>6. QED
  BY <1>2, <1>4, <1>5

LEMMA CompactBegins ==
  ASSUME TypeOK, NEW item, NEW i \in Ids, AcceptCompaction(item, i)
  PROVE  MoveInv' /\ DueInv' /\ MarkInv' /\ ScopeInv'
<1>1. /\ item \in Proposal /\ item.kind = "compaction" /\ item.topic \in Topics
      /\ cmd' = [Idle EXCEPT !.at = "mark", !.item = item, !.id = i, !.todo = Sources(item)]
  BY DEF AcceptCompaction, TypeOK, Proposal
<1>2. \A t \in Topics, j \in Ids :
        /\ IsFile(t, j)' <=> IsFile(t, j) \/ <<t, j>> = <<item.topic, i>>
        /\ Eligible(t, j)' <=> Eligible(t, j) \/ <<t, j>> = <<item.topic, i>>
  <2>1. PICK note \in Note : note.status = "active" /\ files' = [files EXCEPT ![<<item.topic, i>>] = note]
    BY <1>1 DEF AcceptCompaction, Note, Statuses, Bodies, Proposal
  <2>2. \A t \in Topics, j \in Ids :
          files'[<<t, j>>] = IF <<t, j>> = <<item.topic, i>> THEN note ELSE files[<<t, j>>]
    BY <1>1, <2>1 DEF TypeOK
  <2>3. note # None
    OBVIOUS
  <2>4. ASSUME NEW t \in Topics, NEW j \in Ids
        PROVE  /\ IsFile(t, j)' <=> IsFile(t, j) \/ <<t, j>> = <<item.topic, i>>
               /\ Eligible(t, j)' <=> Eligible(t, j) \/ <<t, j>> = <<item.topic, i>>
    <3>1. CASE <<t, j>> = <<item.topic, i>>
      BY <2>1, <2>2, <2>3, <3>1 DEF IsFile, Eligible
    <3>2. CASE <<t, j>> # <<item.topic, i>>
      BY <2>2, <3>2 DEF IsFile, Eligible
    <3>3. QED
      BY <3>1, <3>2
  <2>5. QED
    BY <2>4
<1>3. \A t \in Topics : ~Eligible(t, i)
  BY DEF AcceptCompaction, IsNextId, UsedIds
<1>4. EligibleUnique'
  <2>1. EligibleUnique
    BY DEF AcceptCompaction
  <2>2. QED
    BY <1>1, <1>2, <1>3, <2>1 DEF EligibleUnique
<1>5. Present(i)'
  BY <1>1, <1>2 DEF Present
<1>6. MarkInv'
  BY <1>1, <1>4, <1>5 DEF MarkInv, Idle, Sources, Present
<1>7. QED
  BY <1>1, <1>6 DEF MoveInv, DueInv, ScopeInv, Idle, Before, After

LEMMA BeginInv ==
  ASSUME TypeOK, Begin PROVE MoveInv' /\ DueInv' /\ MarkInv' /\ ScopeInv'
<1>1. ASSUME NEW old \in Topics, NEW new \in Topics, Rename(old, new)
      PROVE  MoveInv' /\ DueInv' /\ MarkInv' /\ ScopeInv'
  <2>1. Unique /\ ApplyMoves(PrefixMoves(old, new), None)
    BY <1>1 DEF Rename
  <2>2. QED
    BY <1>1, <2>1, RenamePlans, BeginsMovesInv DEF Serves
<1>2. ASSUME NEW topics \in SUBSET Topics, NEW parent \in Topics, Promote(topics, parent)
      PROVE  MoveInv' /\ DueInv' /\ MarkInv' /\ ScopeInv'
  <2>1. Unique /\ ApplyMoves(UNION {PrefixMoves(t, parent \o <<Last(t)>>) : t \in topics}, None)
    BY <1>2 DEF Promote
  <2>2. Planned(UNION {PrefixMoves(t, parent \o <<Last(t)>>) : t \in topics})
    BY <1>2, PromotePlans
  <2>3. QED
    BY <2>1, <2>2, BeginsMovesInv DEF Serves
<1>3. ASSUME NEW item \in pending, AcceptMoves(item)
      PROVE  MoveInv' /\ DueInv' /\ MarkInv' /\ ScopeInv'
  <2>1. PICK moves : /\ moves = {m \in Move : m.to = item.to[m.id] /\ IsFile(m.from, m.id)}
                     /\ ApplyMoves(moves, item)
    BY <1>3 DEF AcceptMoves
  <2>2. Unique /\ Planned(moves) /\ Serves(moves, item)
    BY <1>3, <2>1, AcceptPlans DEF AcceptMoves, Serves, TypeOK
  <2>3. QED
    BY <2>1, <2>2, BeginsMovesInv
<1>4. QED
  BY <1>1, <1>2, <1>3, CompactBegins DEF Begin

-----------------------------------------------------------------------------
(* Moving notes.                                                           *)

LEMMA CopyScopeInv ==
  ASSUME TypeOK, MoveInv, DueInv, MarkInv, ScopeInv,
         NEW s \in Topics, NEW d \in Topics, CopyScope(s, d)
  PROVE  MoveInv' /\ DueInv' /\ MarkInv' /\ ScopeInv'
<1>1. /\ cmd.at = "scopes" /\ cmd'.at = "scopes" /\ cmd'.moves = cmd.moves /\ cmd'.old = cmd.old
      /\ cmd'.item = cmd.item /\ cmd'.todo = cmd.todo /\ cmd'.id = cmd.id
      /\ cmd'.scopes = cmd.scopes \ {<<s, d>>} /\ files' = files
  BY DEF CopyScope, TypeOK, Command
<1>2. MoveInv' /\ DueInv' /\ MarkInv'
  BY <1>1 DEF MoveInv, DueInv, MarkInv, Lone, IsFile, Names, Before, After
<1>3. /\ LaidOut({d}) \in [Topics -> Texts]
      /\ \A t \in Topics : LaidOut({d})[t] = scope[t] \/ LaidOut({d})[t] = "template"
      /\ \A t \in Topics : scope[t] # "none" => LaidOut({d})[t] = scope[t]
  BY LaysOut DEF TypeOK, Texts, LaidOut
<1>4. /\ \A t \in Topics : IsDescribed(t) => IsDescribed(t)'
      /\ \A t \in Topics \ {d} : scope'[t] = "edited" => scope[t] = "edited"
      /\ scope[s] = "edited" => IsDescribed(d)'
  BY <1>3 DEF CopyScope, IsDescribed, Texts
<1>5. <<s, d>> \in cmd.old /\ cmd.old \subseteq Topics \X Topics
  BY DEF CopyScope, ScopeInv, TypeOK, Command
<1>6. ASSUME NEW o \in cmd.old, o \notin cmd'.scopes, scope'[o[1]] = "edited"
      PROVE  IsDescribed(o[2])' \/ \E q \in cmd.old : q[2] = o[1]
  <2>1. o[1] \in Topics /\ o[2] \in Topics
    BY <1>5
  <2>2. CASE o[1] = d
    BY <1>5, <2>2
  <2>3. CASE o[1] # d /\ o = <<s, d>>
    BY <1>4, <1>6, <2>1, <2>3
  <2>4. CASE o[1] # d /\ o # <<s, d>>
    <3>1. o \in cmd.old \ cmd.scopes /\ scope[o[1]] = "edited"
      BY <1>1, <1>4, <1>6, <2>1, <2>4
    <3>2. IsDescribed(o[2]) \/ \E q \in cmd.old : q[2] = o[1]
      BY <1>1, <3>1 DEF ScopeInv, Before
    <3>3. QED
      BY <1>4, <2>1, <3>2
  <2>5. QED
    BY <2>2, <2>3, <2>4
<1>7. \A t : Reached(t) => Reached(t)'
  BY <1>1 DEF Reached, IsFile
<1>8. ScopeInv'
  BY <1>1, <1>6, <1>7 DEF ScopeInv, Before
<1>9. QED
  BY <1>2, <1>8

LEMMA LayOutInv ==
  ASSUME TypeOK, MoveInv, DueInv, MarkInv, ScopeInv, LayOut
  PROVE  MoveInv' /\ DueInv' /\ MarkInv' /\ ScopeInv'
<1>1. /\ cmd.at = "scopes" /\ cmd'.at = "move" /\ cmd'.moves = cmd.moves /\ cmd'.old = cmd.old
      /\ cmd'.item = cmd.item /\ cmd'.todo = cmd.todo /\ cmd'.id = cmd.id
      /\ cmd.scopes = {} /\ cmd'.scopes = {} /\ files' = files
  BY DEF LayOut, Goto, TypeOK, Command
<1>2. MoveInv' /\ DueInv' /\ MarkInv'
  BY <1>1 DEF MoveInv, DueInv, MarkInv, Lone, IsFile, Names, Before, After
<1>3. \A t \in Topics : /\ scope'[t] = "edited" => scope[t] = "edited"
                        /\ IsDescribed(t) => IsDescribed(t)'
  BY LaysOut DEF LayOut, TypeOK, Texts, LaidOut, IsDescribed
<1>4. cmd.old \subseteq Topics \X Topics
  BY DEF TypeOK, Command
<1>5. \A t : Reached(t) => Reached(t)'
  BY <1>1 DEF Reached, IsFile
<1>6. ScopeInv'
  BY <1>1, <1>3, <1>4, <1>5 DEF ScopeInv, Before
<1>7. QED
  BY <1>2, <1>6

LEMMA MoveNoteFiles ==
  ASSUME TypeOK, NEW m \in cmd.moves, MoveNote(m)
  PROVE  /\ m \in Move /\ m.id \in Ids /\ m.from \in Topics /\ m.to \in Topics
         /\ \A t \in Topics, i \in Ids :
              files'[<<t, i>>] = IF <<t, i>> = <<m.to, m.id>> THEN files[<<m.from, m.id>>]
                                                              ELSE files[<<t, i>>]
         /\ \A t \in Topics, i \in Ids :
              IsFile(t, i)' <=> IsFile(t, i) \/ (t = m.to /\ i = m.id)
         /\ cmd'.moves = cmd.moves \ {m} /\ cmd'.item = cmd.item /\ cmd'.old = cmd.old
         /\ cmd'.scopes = cmd.scopes /\ cmd'.todo = cmd.todo /\ cmd'.id = cmd.id
         /\ m.from = m.to => cmd'.at = "move"
         /\ m.from # m.to => cmd'.at = "unlink" /\ cmd'.move = m
<1>1. m \in Move /\ m.id \in Ids /\ m.from \in Topics /\ m.to \in Topics
  BY DEF TypeOK, Command, Move
<1>2. \A t \in Topics, i \in Ids :
        files'[<<t, i>>] = IF <<t, i>> = <<m.to, m.id>> THEN files[<<m.from, m.id>>]
                                                        ELSE files[<<t, i>>]
  BY <1>1 DEF MoveNote, TypeOK
<1>3. ASSUME NEW t \in Topics, NEW i \in Ids
      PROVE  IsFile(t, i)' <=> IsFile(t, i) \/ (t = m.to /\ i = m.id)
  <2>1. CASE <<t, i>> = <<m.to, m.id>>
    BY <1>2, <2>1 DEF IsFile, MoveNote
  <2>2. CASE <<t, i>> # <<m.to, m.id>>
    BY <1>2, <2>2 DEF IsFile
  <2>3. QED
    BY <2>1, <2>2
<1>4. /\ cmd'.moves = cmd.moves \ {m} /\ cmd'.item = cmd.item /\ cmd'.old = cmd.old
      /\ cmd'.scopes = cmd.scopes /\ cmd'.todo = cmd.todo /\ cmd'.id = cmd.id
      /\ m.from = m.to => cmd'.at = "move"
      /\ m.from # m.to => cmd'.at = "unlink" /\ cmd'.move = m
  BY DEF MoveNote, TypeOK, Command
<1>5. QED
  BY <1>1, <1>2, <1>3, <1>4

LEMMA MoveNoteInv ==
  ASSUME TypeOK, MoveInv, DueInv, MarkInv, ScopeInv, NEW m \in cmd.moves, MoveNote(m)
  PROVE  MoveInv' /\ DueInv' /\ MarkInv' /\ ScopeInv'
<1>1. /\ m \in Move /\ m.id \in Ids /\ m.from \in Topics /\ m.to \in Topics
      /\ \A t \in Topics, i \in Ids :
           IsFile(t, i)' <=> IsFile(t, i) \/ (t = m.to /\ i = m.id)
  BY MoveNoteFiles
<1>2. /\ cmd'.moves = cmd.moves \ {m} /\ cmd'.item = cmd.item /\ cmd'.old = cmd.old
      /\ cmd'.scopes = cmd.scopes /\ cmd'.todo = cmd.todo /\ cmd'.id = cmd.id
      /\ m.from = m.to => cmd'.at = "move"
      /\ m.from # m.to => cmd'.at = "unlink" /\ cmd'.move = m
  BY MoveNoteFiles
<1>3. /\ cmd.at = "move" /\ cmd'.at \in {"move", "unlink"} /\ cmd.moves \subseteq Move
      /\ \A n \in cmd.moves : Lone(n.id, n.from) /\ (n.id = m.id => n = m)
  BY <1>1, <1>2 DEF MoveNote, MoveInv, Before, TypeOK, Command
<1>4. \A n \in Move : n.id \in Ids /\ n.from \in Topics /\ n.to \in Topics
  BY DEF Move
<1>5. ASSUME NEW n \in cmd'.moves PROVE n.id # m.id /\ Lone(n.id, n.from)'
  BY <1>3, <1>4, <1>5, <1>1, <1>2 DEF Lone
<1>6. ASSUME m.from # m.to, NEW t \in Topics
      PROVE  IsFile(t, m.id)' <=> t \in {m.from, m.to}
  BY <1>3, <1>6, <1>1, <1>2 DEF Lone
<1>7. MoveInv'
  <2>1. \A n, o \in cmd'.moves : n.id = o.id => n = o
    BY <1>3, <1>1, <1>2 DEF MoveInv, Before
  <2>2. CASE m.from = m.to
    BY <1>3, <1>5, <2>1, <2>2, <1>1, <1>2 DEF MoveInv, Before, After
  <2>3. CASE m.from # m.to
    BY <1>3, <1>5, <1>6, <2>1, <2>3, <1>1, <1>2 DEF MoveInv, Before, After
  <2>4. QED
    BY <2>2, <2>3
<1>8. MarkInv'
  BY <1>3, <1>1, <1>2 DEF MarkInv
<1>9. ASSUME cmd.item # None, cmd.item.kind = "topic"
      PROVE  /\ \A n \in cmd'.moves : n.to = cmd.item.to[n.id]
             /\ m.to = cmd.item.to[m.id]
             /\ \A i \in Ids : cmd.item.to[i] # None =>
                  \/ Lone(i, cmd.item.to[i])'
                  \/ \E n \in cmd'.moves : n.id = i /\ n.to = cmd.item.to[i]
                  \/ cmd'.at = "unlink" /\ cmd'.move.id = i /\ cmd'.move.to = cmd.item.to[i]
  <2>1. /\ \A n \in cmd'.moves : n.to = cmd.item.to[n.id]
        /\ m.to = cmd.item.to[m.id]
    BY <1>9, <1>1, <1>2 DEF DueInv
  <2>2. ASSUME NEW i \in Ids, cmd.item.to[i] # None, i # m.id
        PROVE  \/ Lone(i, cmd.item.to[i])'
               \/ \E n \in cmd'.moves : n.id = i /\ n.to = cmd.item.to[i]
    <3>1. \/ Lone(i, cmd.item.to[i])
          \/ \E n \in cmd.moves : n.id = i /\ n.to = cmd.item.to[i]
      BY <1>3, <1>9, <2>2 DEF DueInv
    <3>2. QED
      BY <2>2, <3>1, <1>1, <1>2 DEF Lone
  <2>3. ASSUME m.from = m.to PROVE Lone(m.id, m.to)'
    BY <1>3, <2>3, <1>1, <1>2 DEF Lone
  <2>4. QED
    BY <2>1, <2>2, <2>3, <1>1, <1>2
<1>10. DueInv'
  BY <1>3, <1>9, <1>1, <1>2 DEF DueInv, Before
<1>11. ASSUME NEW o \in cmd.old PROVE Reached(o[2])' \/ \E n \in cmd'.moves : n.to = o[2]
  <2>1. Reached(o[2]) \/ \E n \in cmd.moves : n.to = o[2]
    BY <1>3 DEF ScopeInv, Before
  <2>2. o[2] \in Topics
    BY DEF TypeOK, Command
  <2>3. ASSUME Reached(o[2]) PROVE Reached(o[2])'
    BY <2>2, <2>3, <1>1, <1>2 DEF Reached
  <2>4. Reached(m.to)'
    BY <1>5, <1>1, <1>2 DEF Reached
  <2>5. QED
    BY <2>1, <2>3, <2>4, <1>1, <1>2
<1>12. scope' = scope
  BY DEF MoveNote
<1>13. ScopeInv'
  BY <1>3, <1>11, <1>12, <1>1, <1>2 DEF ScopeInv, Before, IsDescribed
<1>14. QED
  BY <1>7, <1>8, <1>10, <1>13

LEMMA UnlinkOldInv ==
  ASSUME TypeOK, MoveInv, DueInv, MarkInv, ScopeInv, UnlinkOld
  PROVE  MoveInv' /\ DueInv' /\ MarkInv' /\ ScopeInv'
<1>0. PICK m : m = cmd.move
  OBVIOUS
<1>1. /\ cmd.at = "unlink" /\ m \in Move /\ m.id \in Ids /\ m.from \in Topics /\ m.to \in Topics
      /\ m.from # m.to /\ cmd.moves \subseteq Move
      /\ \A t \in Topics : IsFile(t, m.id) <=> t \in {m.from, m.to}
      /\ \A n \in cmd.moves : n.id # m.id /\ Lone(n.id, n.from)
      /\ \A n, o \in cmd.moves : n.id = o.id => n = o
  BY <1>0 DEF UnlinkOld, MoveInv, Before, Move, TypeOK, Command
<1>2. /\ cmd'.at = "move" /\ cmd'.moves = cmd.moves /\ cmd'.old = cmd.old /\ cmd'.item = cmd.item
      /\ cmd'.scopes = cmd.scopes /\ cmd'.todo = cmd.todo /\ cmd'.id = cmd.id /\ scope' = scope
  BY DEF UnlinkOld, TypeOK, Command
<1>3. ASSUME NEW t \in Topics, NEW i \in Ids
      PROVE  IsFile(t, i)' <=> IsFile(t, i) /\ ~(t = m.from /\ i = m.id)
  <2>1. CASE <<t, i>> = <<m.from, m.id>>
    BY <1>0, <1>1, <2>1 DEF UnlinkOld, IsFile, TypeOK
  <2>2. CASE <<t, i>> # <<m.from, m.id>>
    BY <1>0, <1>1, <2>2 DEF UnlinkOld, IsFile, TypeOK
  <2>3. QED
    BY <2>1, <2>2
<1>4. Lone(m.id, m.to)'
  BY <1>1, <1>3 DEF Lone
<1>5. ASSUME NEW i \in Ids, i # m.id, NEW t, Lone(i, t) PROVE Lone(i, t)'
  BY <1>3, <1>5 DEF Lone
<1>6. \A n \in Move : n.id \in Ids
  BY DEF Move
<1>7. MoveInv'
  BY <1>1, <1>2, <1>5, <1>6 DEF MoveInv, Before, After
<1>8. ASSUME cmd.item # None, cmd.item.kind = "topic", NEW i \in Ids, cmd.item.to[i] # None
      PROVE  \/ Lone(i, cmd.item.to[i])'
             \/ \E n \in cmd.moves : n.id = i /\ n.to = cmd.item.to[i]
  <2>1. \/ Lone(i, cmd.item.to[i])
        \/ \E n \in cmd.moves : n.id = i /\ n.to = cmd.item.to[i]
        \/ m.id = i /\ m.to = cmd.item.to[i]
    BY <1>0, <1>8 DEF DueInv
  <2>2. m.to = cmd.item.to[m.id]
    BY <1>0, <1>1, <1>8 DEF DueInv
  <2>3. CASE i = m.id
    BY <1>2, <1>4, <2>2, <2>3
  <2>4. CASE i # m.id
    BY <1>2, <1>5, <2>1, <2>4
  <2>5. QED
    BY <2>3, <2>4
<1>9. DueInv'
  BY <1>2, <1>8 DEF DueInv, Before
<1>10. MarkInv'
  BY <1>1, <1>2 DEF MarkInv
<1>11. ASSUME NEW t \in Topics, Reached(t) PROVE Reached(t)'
  BY <1>0, <1>1, <1>2, <1>3, <1>11 DEF Reached
<1>12. \A o \in cmd.old : o[1] \in Topics /\ o[2] \in Topics
  BY DEF TypeOK, Command
<1>13. ScopeInv'
  BY <1>1, <1>2, <1>11, <1>12 DEF ScopeInv, Before, IsDescribed
<1>14. QED
  BY <1>7, <1>9, <1>10, <1>13

LEMMA MovedInv ==
  ASSUME TypeOK, MoveInv, DueInv, MarkInv, ScopeInv, Moved
  PROVE  MoveInv' /\ DueInv' /\ MarkInv' /\ ScopeInv'
<1>1. /\ cmd.at = "move" /\ cmd'.at = "clean" /\ cmd.moves = {} /\ cmd'.moves = {}
      /\ cmd'.old = cmd.old /\ cmd'.item = cmd.item /\ cmd'.scopes = cmd.scopes
      /\ cmd'.todo = cmd.todo /\ cmd'.id = cmd.id /\ files' = files /\ scope' = scope
  BY DEF Moved, Goto, TypeOK, Command
<1>2. MoveInv' /\ DueInv' /\ MarkInv'
  BY <1>1 DEF MoveInv, DueInv, MarkInv, Lone, IsFile, Before, After
<1>3. \A o \in cmd.old : o[1] \in Topics /\ o[2] \in Topics
  BY DEF TypeOK, Command
<1>4. ASSUME NEW o \in cmd.old
      PROVE  Direct(o[2]) # {} /\ (scope[o[1]] = "edited" => IsDescribed(o[2]) \/ Direct(o[1]) # {})
  <2>1. \A q \in cmd.old : Direct(q[2]) # {}
    BY <1>1 DEF ScopeInv, Before, Reached, Direct
  <2>2. scope[o[1]] = "edited" => IsDescribed(o[2]) \/ \E q \in cmd.old : q[2] = o[1]
    BY <1>1 DEF ScopeInv, Before
  <2>3. QED
    BY <2>1, <2>2
<1>5. ScopeInv'
  BY <1>1, <1>4 DEF ScopeInv, Before, IsDescribed, Direct, IsFile
<1>6. QED
  BY <1>2, <1>5

LEMMA CleanupInv ==
  ASSUME TypeOK, MoveInv, DueInv, MarkInv, ScopeInv, NEW t \in Topics, Cleanup(t)
  PROVE  MoveInv' /\ DueInv' /\ MarkInv' /\ ScopeInv'
<1>1. /\ cmd.at = "clean" /\ cmd'.at = "clean" /\ cmd'.moves = cmd.moves
      /\ cmd'.old \subseteq cmd.old /\ cmd'.item = cmd.item /\ cmd'.scopes = cmd.scopes
      /\ cmd'.todo = cmd.todo /\ cmd'.id = cmd.id /\ files' = files
  BY DEF Cleanup, TypeOK, Command
<1>2. MoveInv' /\ DueInv' /\ MarkInv'
  BY <1>1 DEF MoveInv, DueInv, MarkInv, Lone, IsFile, Before, After
<1>3. \A o \in cmd.old : o[1] \in Topics /\ o[2] \in Topics
  BY DEF TypeOK, Command
<1>4. /\ \A u \in Topics : scope'[u] = "edited" => scope[u] = "edited"
      /\ \A u \in Topics : Direct(u) # {} => scope'[u] = scope[u]
  BY DEF Cleanup, Bare, TypeOK
<1>5. Direct(t)' = Direct(t) /\ \A u : Direct(u)' = Direct(u)
  BY <1>1 DEF Direct, IsFile
<1>6. ASSUME NEW o \in cmd.old
      PROVE  /\ Direct(o[2])' # {}
             /\ scope'[o[1]] = "edited" => IsDescribed(o[2])' \/ Direct(o[1])' # {}
  <2>1. Direct(o[2]) # {} /\ (scope[o[1]] = "edited" => IsDescribed(o[2]) \/ Direct(o[1]) # {})
    BY <1>1 DEF ScopeInv
  <2>2. QED
    BY <1>3, <1>4, <1>5, <2>1 DEF IsDescribed
<1>7. ScopeInv'
  BY <1>1, <1>6 DEF ScopeInv, Before
<1>8. QED
  BY <1>2, <1>7

LEMMA CleanedUpInv ==
  ASSUME TypeOK, MoveInv, DueInv, MarkInv, ScopeInv, CleanedUp
  PROVE  MoveInv' /\ DueInv' /\ MarkInv' /\ ScopeInv'
<1>1. /\ cmd.at = "clean" /\ cmd'.at = "reindex" /\ cmd'.moves = cmd.moves
      /\ cmd.old = {} /\ cmd'.old = cmd.old /\ cmd'.item = cmd.item /\ cmd'.scopes = cmd.scopes
      /\ cmd'.todo = cmd.todo /\ cmd'.id = cmd.id /\ files' = files
  BY DEF CleanedUp, Goto, TypeOK, Command
<1>2. QED
  BY <1>1 DEF MoveInv, DueInv, MarkInv, ScopeInv, Lone, IsFile, Before, After

-----------------------------------------------------------------------------
(* Marking sources, and the end of a command.                              *)

LEMMA KeepSourceInv ==
  ASSUME TypeOK, MoveInv, DueInv, MarkInv, ScopeInv, NEW i \in Ids, KeepSource(i)
  PROVE  MoveInv' /\ DueInv' /\ MarkInv' /\ ScopeInv'
<1>1. /\ cmd.at = "mark" /\ cmd'.at = "mark" /\ cmd'.moves = cmd.moves
      /\ cmd'.old = cmd.old /\ cmd'.item = cmd.item /\ cmd'.scopes = cmd.scopes
      /\ cmd'.todo = cmd.todo \ {i} /\ cmd'.id = cmd.id /\ files' = files /\ scope' = scope
      /\ cmd.item.plan[i] = "keep"
  BY DEF KeepSource, TypeOK, Command
<1>2. MarkInv'
  BY <1>1 DEF MarkInv, Names, IsFile, Present, EligibleUnique, Eligible
<1>3. QED
  BY <1>1, <1>2 DEF MoveInv, DueInv, ScopeInv, Before, After, MarkInv

LEMMA MarkSourceFiles ==
  ASSUME TypeOK, NEW t \in Topics, NEW i \in Ids, MarkSource(t, i)
  PROVE  /\ files'[<<t, i>>].by = cmd.id /\ files'[<<t, i>>].body = files[<<t, i>>].body
         /\ \A u \in Topics, j \in Ids : <<u, j>> # <<t, i>> => files'[<<u, j>>] = files[<<u, j>>]
         /\ \A u \in Topics, j \in Ids : /\ IsFile(u, j)' <=> IsFile(u, j)
                                         /\ Eligible(u, j)' => Eligible(u, j)
<1>1. files[<<t, i>>] \in Note
  BY DEF MarkSource, Eligible, IsFile, TypeOK
<1>2. PICK status \in Statuses :
        files' = [files EXCEPT ![<<t, i>>] = [@ EXCEPT !.by = cmd.id, !.status = status]]
  BY DEF MarkSource, Statuses
<1>3. files'[<<t, i>>] = [files[<<t, i>>] EXCEPT !.by = cmd.id, !.status = status]
  BY <1>2 DEF TypeOK
<1>4. cmd.id \in Ids \cup {None}
  BY DEF TypeOK, Command
<1>5. /\ files'[<<t, i>>] \in Note /\ files'[<<t, i>>].by = cmd.id
      /\ files'[<<t, i>>].body = files[<<t, i>>].body
  BY <1>1, <1>3, <1>4 DEF Note
<1>6. \A u \in Topics, j \in Ids : <<u, j>> # <<t, i>> => files'[<<u, j>>] = files[<<u, j>>]
  BY <1>2 DEF TypeOK
<1>7. ASSUME NEW u \in Topics, NEW j \in Ids
      PROVE  (IsFile(u, j)' <=> IsFile(u, j)) /\ (Eligible(u, j)' => Eligible(u, j))
  <2>1. CASE <<u, j>> = <<t, i>>
    BY <1>5, <2>1 DEF MarkSource, Eligible, IsFile
  <2>2. CASE <<u, j>> # <<t, i>>
    BY <1>6, <2>2 DEF Eligible, IsFile
  <2>3. QED
    BY <2>1, <2>2
<1>8. QED
  BY <1>5, <1>6, <1>7

(* A source that is marked has no file but the one that is marked.         *)
LEMMA SourceIsLone ==
  ASSUME MarkInv, IdsNameOneNote, NEW t \in Topics, NEW i \in Ids, MarkSource(t, i)
  PROVE  Lone(i, t)
<1>1. EligibleUnique /\ Eligible(t, i)
  BY DEF MarkSource, MarkInv
<1>2. ASSUME NEW u \in Topics, IsFile(u, i) PROVE u = t
  <2>1. files[<<u, i>>] = files[<<t, i>>]
    BY <1>1, <1>2 DEF IdsNameOneNote, Eligible
  <2>2. Eligible(u, i)
    BY <1>1, <1>2, <2>1 DEF Eligible
  <2>3. QED
    BY <1>1, <2>2 DEF EligibleUnique
<1>3. QED
  BY <1>1, <1>2 DEF Lone, Eligible

LEMMA MarkSourceInv ==
  ASSUME TypeOK, MoveInv, DueInv, MarkInv, ScopeInv,
         NEW t \in Topics, NEW i \in Ids, MarkSource(t, i), NamesInv
  PROVE  MoveInv' /\ DueInv' /\ MarkInv' /\ ScopeInv'
<1>1. /\ cmd.at = "mark" /\ cmd'.at = "mark" /\ cmd'.moves = cmd.moves
      /\ cmd'.old = cmd.old /\ cmd'.item = cmd.item /\ cmd'.scopes = cmd.scopes
      /\ cmd'.todo = cmd.todo \ {i} /\ cmd'.id = cmd.id /\ scope' = scope
      /\ Eligible(t, i)
  BY DEF MarkSource, TypeOK, Command
<1>2. /\ files'[<<t, i>>].by = cmd.id
      /\ \A u \in Topics, j \in Ids : <<u, j>> # <<t, i>> => files'[<<u, j>>] = files[<<u, j>>]
      /\ \A u \in Topics, j \in Ids : /\ IsFile(u, j)' <=> IsFile(u, j)
                                      /\ Eligible(u, j)' => Eligible(u, j)
  BY MarkSourceFiles
<1>3. EligibleUnique /\ EligibleUnique'
  BY <1>1, <1>2 DEF MarkInv, EligibleUnique
<1>4. ~SameTitles => Lone(i, t)
  BY SourceIsLone DEF NamesInv
<1>5. ~SameTitles => Names(i)'
  BY <1>1, <1>2, <1>4 DEF Names, Lone
<1>6. ASSUME NEW j \in Ids, j # i, Names(j) PROVE Names(j)'
  BY <1>1, <1>2, <1>6 DEF Names
<1>7. Present(cmd.id)'
  BY <1>1, <1>2 DEF MarkInv, Present
<1>8. MarkInv'
  BY <1>1, <1>3, <1>5, <1>6, <1>7 DEF MarkInv
<1>9. QED
  BY <1>1, <1>8 DEF MoveInv, DueInv, ScopeInv, Before, After, MarkInv

LEMMA MarkedInv ==
  ASSUME TypeOK, MoveInv, DueInv, MarkInv, ScopeInv, Marked
  PROVE  MoveInv' /\ DueInv' /\ MarkInv' /\ ScopeInv'
<1>1. /\ cmd.at = "mark" /\ cmd'.at = "reindex" /\ cmd'.moves = cmd.moves
      /\ cmd'.old = cmd.old /\ cmd'.item = cmd.item /\ cmd'.scopes = cmd.scopes
      /\ cmd.todo = {} /\ cmd'.todo = {} /\ cmd'.id = cmd.id /\ files' = files /\ scope' = scope
  BY DEF Marked, Goto, TypeOK, Command, MarkInv
<1>2. MoveInv' /\ DueInv'
  BY <1>1 DEF MoveInv, DueInv, MarkInv, Before, After
<1>3. MarkInv'
  BY <1>1 DEF MarkInv, Names, IsFile
<1>4. ScopeInv'
  BY <1>1 DEF ScopeInv, Before
<1>5. QED
  BY <1>2, <1>3, <1>4

LEMMA ReindexInv ==
  ASSUME TypeOK, MoveInv, DueInv, MarkInv, ScopeInv, Reindex
  PROVE  MoveInv' /\ DueInv' /\ MarkInv' /\ ScopeInv'
<1>1. CASE cmd.item = None
  BY <1>1, IdleKeeps DEF Reindex
<1>2. CASE cmd.item # None
  <2>1. /\ cmd.at = "reindex" /\ cmd'.at = "accept" /\ cmd'.moves = cmd.moves
        /\ cmd'.old = cmd.old /\ cmd'.item = cmd.item /\ cmd'.scopes = cmd.scopes
        /\ cmd'.todo = cmd.todo /\ cmd'.id = cmd.id /\ files' = files
    BY <1>2 DEF Reindex, TypeOK, Command
  <2>2. QED
    BY <2>1 DEF MoveInv, DueInv, MarkInv, ScopeInv, Lone, Names, IsFile, Before, After
<1>3. QED
  BY <1>1, <1>2

LEMMA WriteInv ==
  ASSUME TypeOK, MoveInv, DueInv, MarkInv, ScopeInv, NamesInv, Write
  PROVE  MoveInv' /\ DueInv' /\ MarkInv' /\ ScopeInv'
<1>1. ASSUME NEW s \in Topics, NEW d \in Topics, TearScope(s, d)
      PROVE  MoveInv' /\ DueInv' /\ MarkInv' /\ ScopeInv'
  BY <1>1, IdleKeeps DEF TearScope
<1>2. CASE Accept
  BY <1>2, IdleKeeps DEF Accept
<1>3. QED
  BY <1>1, <1>2, CopyScopeInv, LayOutInv, MoveNoteInv, UnlinkOldInv, MovedInv, CleanupInv,
     CleanedUpInv, KeepSourceInv, MarkSourceInv, MarkedInv, ReindexInv DEF Write

(* Nobody but the command that runs has a part in what it has left to do.  *)
LEMMA CommandStep ==
  ASSUME TypeOK, MoveInv, DueInv, MarkInv, ScopeInv, NamesInv, [Next]_vars
  PROVE  MoveInv' /\ DueInv' /\ MarkInv' /\ ScopeInv'
<1>1. CASE Others
  <2>1. cmd.at = "idle" /\ cmd' = cmd
    BY <1>1 DEF Others, AddNote, EditScope, Repair
  <2>2. QED
    BY <2>1, IdleStays
<1>2. CASE Queue
  <2>1. cmd.at = "idle" /\ cmd' = cmd
    BY <1>2 DEF Queue, Split, Merge, Compact, Propose, Reject
  <2>2. QED
    BY <2>1, IdleStays
<1>3. CASE Stop
  BY <1>3, IdleKeeps DEF Stop
<1>4. CASE UNCHANGED vars
  <2>1. files' = files /\ scope' = scope /\ cmd' = cmd
    BY <1>4 DEF vars
  <2>2. MoveInv' /\ DueInv'
    BY <2>1 DEF MoveInv, DueInv, Lone, IsFile
  <2>3. MarkInv'
    BY <2>1 DEF MarkInv, Names, Present, EligibleUnique, Eligible, IsFile
  <2>4. ScopeInv'
    BY <2>1 DEF ScopeInv, Reached, IsDescribed, Direct, IsFile
  <2>5. QED
    BY <2>2, <2>3, <2>4
<1>5. QED
  BY <1>1, <1>2, <1>3, <1>4, WriteInv, BeginInv DEF Next

-----------------------------------------------------------------------------
(* Ids.                                                                    *)

(* The id of a new canonical note is on no file, if no archived note has   *)
(* its title and day.                                                      *)
LEMMA NewIdIsNew ==
  ASSUME ~SameTitles, NEW item, NEW i \in Ids, AcceptCompaction(item, i)
  PROVE  \A t \in Topics : ~IsFile(t, i)
<1> SUFFICES ASSUME NEW t \in Topics, IsFile(t, i) PROVE FALSE
  OBVIOUS
<1>1. ~Eligible(t, i) /\ i[1] = item.family
  BY DEF AcceptCompaction, IsNextId, UsedIds
<1>2. <<t, i>> \in Topics \X Ids /\ files[<<t, i>>] # None /\ files[<<t, i>>].status = "archived"
  BY <1>1 DEF IsFile, Eligible
<1>3. \A p \in Topics \X Ids :
        files[p] # None /\ files[p].status = "archived" => p[2][1] # item.family
  BY DEF AcceptCompaction
<1>4. QED
  BY <1>1, <1>2, <1>3

(* A file that is written holds the note that has its id, if there is one. *)
LEMMA WriteKeepsNames ==
  ASSUME TypeOK, IdsNameOneNote, NEW t \in Topics, NEW i \in Ids, NEW note,
         files' = [files EXCEPT ![<<t, i>>] = note],
         \A u \in Topics : IsFile(u, i) /\ u # t => files[<<u, i>>] = note
  PROVE  IdsNameOneNote'
<1>1. \A u \in Topics, j \in Ids :
        files'[<<u, j>>] = IF <<u, j>> = <<t, i>> THEN note ELSE files[<<u, j>>]
  BY DEF TypeOK
<1>2. ASSUME NEW u \in Topics, NEW v \in Topics, NEW j \in Ids, IsFile(u, j)', IsFile(v, j)'
      PROVE  files'[<<u, j>>] = files'[<<v, j>>]
  <2>1. CASE j = i
    <3>1. ASSUME NEW w \in Topics, IsFile(w, i)' PROVE files'[<<w, i>>] = note
      BY <1>1, <3>1 DEF IsFile
    <3>2. QED
      BY <1>2, <2>1, <3>1
  <2>2. CASE j # i
    BY <1>1, <1>2, <2>2 DEF IsFile, IdsNameOneNote
  <2>3. QED
    BY <2>1, <2>2
<1>3. QED
  BY <1>2 DEF IdsNameOneNote

LEMMA DropKeepsNames ==
  ASSUME TypeOK, IdsNameOneNote, NEW p \in Topics \X Ids, files' = [files EXCEPT ![p] = None]
  PROVE  IdsNameOneNote'
<1>1. ASSUME NEW t \in Topics, NEW i \in Ids, IsFile(t, i)'
      PROVE  IsFile(t, i) /\ files'[<<t, i>>] = files[<<t, i>>]
  BY <1>1 DEF TypeOK, IsFile
<1>2. QED
  BY <1>1 DEF IdsNameOneNote

LEMMA NamesStep ==
  ASSUME TypeOK, MoveInv, MarkInv, NamesInv, [Next]_vars PROVE NamesInv'
<1> SUFFICES ASSUME ~SameTitles PROVE IdsNameOneNote'
  BY DEF NamesInv
<1>1. IdsNameOneNote
  BY DEF NamesInv
<1>2. ASSUME files' = files PROVE IdsNameOneNote'
  BY <1>1, <1>2 DEF IdsNameOneNote, IsFile
<1>3. ASSUME NEW b \in Captured, NEW t \in Topics, NEW i \in Ids, AddNote(b, t, i)
      PROVE  IdsNameOneNote'
  <2>1. \A u \in Topics : ~IsFile(u, i)
    BY <1>3 DEF AddNote, IsNextId, Present
  <2>2. PICK note : files' = [files EXCEPT ![<<t, i>>] = note]
    BY <1>3 DEF AddNote
  <2>3. QED
    BY <1>1, <2>1, <2>2, WriteKeepsNames
<1>4. ASSUME NEW item, NEW i \in Ids, AcceptCompaction(item, i), item \in pending
      PROVE  IdsNameOneNote'
  <2>1. \A u \in Topics : ~IsFile(u, i)
    BY <1>4, NewIdIsNew
  <2>2. PICK note : files' = [files EXCEPT ![<<item.topic, i>>] = note]
    BY <1>4 DEF AcceptCompaction
  <2>3. item.topic \in Topics
    BY <1>4 DEF AcceptCompaction, TypeOK, Proposal
  <2>4. QED
    BY <1>1, <2>1, <2>2, <2>3, WriteKeepsNames
<1>5. ASSUME NEW m \in cmd.moves, MoveNote(m) PROVE IdsNameOneNote'
  <2>1. m.id \in Ids /\ m.from \in Topics /\ m.to \in Topics
    BY DEF TypeOK, Command, Move
  <2>2. Lone(m.id, m.from) /\ files' = [files EXCEPT ![<<m.to, m.id>>] = files[<<m.from, m.id>>]]
    BY <1>5 DEF MoveNote, MoveInv, Before
  <2>3. \A u \in Topics : IsFile(u, m.id) => files[<<u, m.id>>] = files[<<m.from, m.id>>]
    BY <2>2 DEF Lone
  <2>4. QED
    BY <1>1, <2>1, <2>2, <2>3, WriteKeepsNames
<1>6. CASE UnlinkOld
  <2>1. <<cmd.move.from, cmd.move.id>> \in Topics \X Ids
    BY <1>6 DEF UnlinkOld, MoveInv, Move
  <2>2. QED
    BY <1>1, <1>6, <2>1, DropKeepsNames DEF UnlinkOld
<1>7. ASSUME NEW t \in Topics, NEW u \in Topics, NEW i \in Ids, Repair(t, u, i) PROVE IdsNameOneNote'
  BY <1>1, <1>7, DropKeepsNames DEF Repair
<1>8. ASSUME NEW t \in Topics, NEW i \in Ids, MarkSource(t, i) PROVE IdsNameOneNote'
  <2>1. Lone(i, t)
    BY <1>1, <1>8, SourceIsLone
  <2>2. PICK note : files' = [files EXCEPT ![<<t, i>>] = note]
    BY <1>8 DEF MarkSource
  <2>3. \A u \in Topics : IsFile(u, i) /\ u # t => files[<<u, i>>] = note
    BY <2>1 DEF Lone
  <2>4. QED
    BY <1>1, <2>2, <2>3, WriteKeepsNames
<1>9. ASSUME Write PROVE IdsNameOneNote'
  <2>1. ASSUME NEW s \in Topics, NEW d \in Topics, CopyScope(s, d) \/ TearScope(s, d) PROVE files' = files
    BY <2>1 DEF CopyScope, TearScope
  <2>2. ASSUME NEW t \in Topics, Cleanup(t) PROVE files' = files
    BY <2>2 DEF Cleanup
  <2>3. ASSUME NEW i \in Ids, KeepSource(i) PROVE files' = files
    BY <2>3 DEF KeepSource
  <2>4. LayOut \/ Moved \/ CleanedUp \/ Marked \/ Reindex \/ Accept => files' = files
    BY DEF LayOut, Moved, CleanedUp, Marked, Reindex, Accept
  <2>5. QED
    BY <1>2, <1>5, <1>6, <1>8, <1>9, <2>1, <2>2, <2>3, <2>4 DEF Write
<1>10. ASSUME Others PROVE IdsNameOneNote'
  <2>1. ASSUME NEW t \in Topics, EditScope(t) PROVE files' = files
    BY <2>1 DEF EditScope
  <2>2. QED
    BY <1>2, <1>3, <1>7, <1>10, <2>1 DEF Others
<1>11. CASE Queue
  BY <1>2, <1>11 DEF Queue, Split, Merge, Compact, Propose, Reject
<1>12. ASSUME Begin PROVE IdsNameOneNote'
  BY <1>2, <1>4, <1>12, Movers DEF Begin, BeginsMoves, ApplyMoves
<1>13. CASE Stop \/ UNCHANGED vars
  BY <1>2, <1>13 DEF Stop, vars
<1>14. QED
  BY <1>9, <1>10, <1>11, <1>12, <1>13 DEF Next

LEMMA InvInit == Init => IInv
<1> SUFFICES ASSUME Init PROVE IInv
  OBVIOUS
<1>1. TypeOK
  BY TypeInit
<1>2. NamesInv
  BY DEF Init, NamesInv, IdsNameOneNote, IsFile
<1>3. QED
  BY <1>1, <1>2 DEF Init, Idle, IInv, MoveInv, DueInv, MarkInv, ScopeInv, Before, After

LEMMA InvStep == IInv /\ [Next]_vars => IInv'
BY TypeStep, CommandStep, NamesStep DEF IInv

(* Each behaviour keeps the inductive invariant, wherever commands stop.   *)
THEOREM Invariance == Spec => []IInv
BY InvInit, InvStep, PTL DEF Spec

(* Wherever moves are stopped and whoever deletes the second file, two     *)
(* files with one id hold one note, if no archived note has the title and  *)
(* day of a canonical one.                                                 *)
THEOREM IdsNameOneNoteHolds == ASSUME ~SameTitles PROVE Spec => []IdsNameOneNote
<1>1. IInv => IdsNameOneNote
  BY DEF IInv, NamesInv
<1>2. QED
  BY <1>1, Invariance, PTL

-----------------------------------------------------------------------------
(* Steps.                                                                  *)

LEMMA AppliedStep ==
  ASSUME ~SameTitles, IInv, [Next]_vars, NEW item \in pending \ pending', cmd.at = "accept"
  PROVE  Applied(item)
<1>1. ~Write \/ Accept
  BY DEF Write, CopyScope, TearScope, MoveNote, Cleanup, KeepSource, MarkSource, LayOut,
         UnlinkOld, Moved, CleanedUp, Marked, Reindex
<1>2. ~Others /\ ~Queue /\ ~Begin /\ ~Stop /\ ~UNCHANGED vars
  BY Movers DEF Others, AddNote, EditScope, Repair, Queue, Split, Merge, Compact, Reject, Begin,
                AcceptCompaction, Stop, vars
<1>3. Accept
  BY <1>1, <1>2 DEF Next
<1>4. item = cmd.item /\ item # None /\ item \in Proposal
  BY <1>3 DEF Accept, IInv, TypeOK
<1>5. cmd.moves = {} /\ cmd.todo = {}
  BY DEF IInv, MoveInv, MarkInv, Before
<1>6. ASSUME NEW i \in Ids, item.to[i] # None, NEW t \in Topics
      PROVE  IsFile(t, i) <=> t = item.to[i]
  <2>1. item.kind = "topic"
    BY <1>4, <1>6 DEF Proposal
  <2>2. Lone(i, item.to[i])
    BY <1>4, <1>5, <1>6, <2>1 DEF IInv, DueInv
  <2>3. QED
    BY <2>2 DEF Lone
<1>7. ASSUME NEW i \in Ids, item.plan[i] \in {"supersede", "archive"},
             NEW t \in Topics, IsFile(t, i)
      PROVE  files[<<t, i>>].by = cmd.id
  <2>1. item.kind = "compaction"
    BY <1>4, <1>7 DEF Proposal
  <2>2. Names(i)
    BY <1>4, <1>5, <1>7, <2>1 DEF IInv, MarkInv
  <2>3. QED
    BY <1>7, <2>2 DEF Names
<1>8. QED
  BY <1>6, <1>7 DEF Applied

(* A proposal that is marked accepted has been carried out on every note   *)
(* it names, however many attempts were stopped before.                    *)
THEOREM AcceptedIsAppliedHolds == ASSUME ~SameTitles PROVE Spec => AcceptedIsApplied
<1>1. IInv /\ [Next]_vars =>
        [\A item \in pending \ pending' : cmd.at = "accept" => Applied(item)]_vars
  BY AppliedStep
<1>2. QED
  BY <1>1, Invariance, PTL DEF Spec, AcceptedIsApplied

LEMMA DescribedStep ==
  ASSUME IInv, [Next]_vars, NEW t \in Topics, scope[t] = "edited", scope'[t] = "none",
         NEW o \in cmd.old, o[1] = t
  PROVE  IsDescribed(o[2])
<1>1. scope \in [Topics -> Texts] /\ \A topics : LaidOut(topics)[t] = "edited"
  BY LaysOut DEF IInv, TypeOK, Texts
<1>2. ASSUME NEW b \in Captured, NEW u \in Topics, NEW i \in Ids, AddNote(b, u, i) PROVE FALSE
  BY <1>1, <1>2 DEF AddNote
<1>3. ASSUME NEW u \in Topics, EditScope(u) PROVE FALSE
  BY <1>1, <1>3 DEF EditScope
<1>4. ASSUME NEW s \in Topics, NEW d \in Topics, CopyScope(s, d) \/ TearScope(s, d) PROVE FALSE
  <2>1. \A topics : LaidOut(topics) \in [Topics -> Texts]
    BY <1>1, LaysOut
  <2>2. QED
    BY <1>1, <1>4, <2>1 DEF CopyScope, TearScope
<1>5. LayOut \/ Reindex => FALSE
  BY <1>1 DEF LayOut, Reindex
<1>6. PICK u \in Topics : Cleanup(u)
  <2>1. scope' # scope
    OBVIOUS
  <2>2. ~Queue /\ ~Stop /\ ~UNCHANGED vars
    BY <2>1 DEF Queue, Split, Merge, Compact, Propose, Reject, Stop, vars
  <2>3. ~Begin
    BY <2>1, Movers DEF Begin, BeginsMoves, ApplyMoves, AcceptCompaction
  <2>4. ~Others
    BY <1>2, <1>3, <2>1 DEF Others, Repair
  <2>5. Write => \E u \in Topics : Cleanup(u)
    BY <1>4, <1>5, <2>1 DEF Write, MoveNote, KeepSource, MarkSource, UnlinkOld, Moved, CleanedUp,
                            Marked, Accept
  <2>6. QED
    BY <2>2, <2>3, <2>4, <2>5 DEF Next
<1>7. cmd.at = "clean" /\ u = t /\ Bare(t)
  BY <1>1, <1>6 DEF Cleanup
<1>8. QED
  BY <1>7 DEF IInv, ScopeInv, Bare

(* A description goes with its folder only where the topics that its notes *)
(* went to are described.                                                  *)
THEOREM StaysDescribedHolds == Spec => StaysDescribed
<1>1. IInv /\ [Next]_vars =>
        [\A t \in Topics : scope[t] = "edited" /\ scope'[t] = "none" =>
           \A o \in cmd.old : o[1] = t => scope[o[2]] \in {"edited", "torn"}]_vars
  BY DescribedStep DEF IsDescribed
<1>2. QED
  BY <1>1, Invariance, PTL DEF Spec, StaysDescribed

-----------------------------------------------------------------------------
(* The notes, by what they say.                                            *)

LEMMA PlacesOf ==
  ASSUME NEW b \in Bodies
  PROVE  Places[b] = {p \in Topics \X Ids : files[p] # None /\ files[p].body = b}
BY DEF Places

(* A file that is written with the note of its id, or with a new one.      *)
LEMMA WritePuts ==
  ASSUME TypeOK, NEW t \in Topics, NEW i \in Ids, NEW note \in Note,
         files' = [files EXCEPT ![<<t, i>>] = note],
         \A u \in Topics : IsFile(u, i) => files[<<u, i>>] = note,
         note.by # None => Present(i)
  PROVE  Abstract!Put(note.body, t, i)
<1>1. \A p \in Topics \X Ids : files'[p] = IF p = <<t, i>> THEN note ELSE files[p]
  BY DEF TypeOK
<1>2. note # None /\ note.body \in Bodies
  BY DEF Note
<1>3. ASSUME NEW b \in Bodies \ {note.body}, NEW p \in Places[b] PROVE p[2] # i
  <2>1. p \in Topics \X Ids /\ files[p] # None /\ files[p].body = b
    BY <1>3 DEF Places
  <2>2. CASE p[2] = i
    <3>1. p = <<p[1], i>> /\ p[1] \in Topics
      BY <2>1, <2>2
    <3>2. files[p] = note
      BY <2>1, <3>1 DEF IsFile
    <3>3. QED
      BY <1>3, <2>1, <3>2
  <2>3. QED
    BY <2>2
<1>4. Places' = [Places EXCEPT ![note.body] = @ \cup {<<t, i>>}]
  <2>1. ASSUME NEW b \in Bodies
        PROVE  Places'[b] = IF b = note.body THEN Places[b] \cup {<<t, i>>} ELSE Places[b]
    <3>1. Places'[b] = {p \in Topics \X Ids : files'[p] # None /\ files'[p].body = b}
      BY DEF Places
    <3>2. CASE b = note.body
      <4>1. ASSUME NEW p \in Topics \X Ids
            PROVE  (files'[p] # None /\ files'[p].body = b)
                   <=> (files[p] # None /\ files[p].body = b) \/ p = <<t, i>>
        <5>1. CASE p = <<t, i>>
          BY <1>1, <1>2, <3>2, <5>1
        <5>2. CASE p # <<t, i>>
          BY <1>1, <5>2
        <5>3. QED
          BY <5>1, <5>2
      <4>2. <<t, i>> \in Topics \X Ids
        OBVIOUS
      <4>3. Places'[b] = Places[b] \cup {<<t, i>>}
        BY <3>1, <4>1, <4>2, PlacesOf
      <4>4. QED
        BY <3>2, <4>3
    <3>3. CASE b # note.body
      <4>1. ~(files[<<t, i>>] # None /\ files[<<t, i>>].body = b)
        BY <3>3 DEF IsFile
      <4>2. QED
        BY <1>1, <3>1, <3>3, <4>1, PlacesOf
    <3>4. QED
      BY <3>2, <3>3
  <2>2. Places = [b \in Bodies |-> Places[b]] /\ Places' = [b \in Bodies |-> Places'[b]]
    BY DEF Places
  <2>3. QED
    BY <1>2, <2>1, <2>2
<1>5. Replaced' = Replaced
  <2>1. ASSUME NEW r \in Ids \X Ids
        PROVE  (\E u \in Topics : IsFile(u, r[1])' /\ files'[<<u, r[1]>>].by = r[2])
               <=> (\E u \in Topics : IsFile(u, r[1]) /\ files[<<u, r[1]>>].by = r[2])
    <3>1. CASE r[1] # i
      <4>1. \A u \in Topics : files'[<<u, r[1]>>] = files[<<u, r[1]>>]
        BY <1>1, <3>1
      <4>2. QED
        BY <4>1 DEF IsFile
    <3>2. CASE r[1] = i
      <4>1. (\E u \in Topics : IsFile(u, i)' /\ files'[<<u, i>>].by = r[2]) <=> note.by = r[2]
        <5>1. files'[<<t, i>>] = note /\ IsFile(t, i)'
          BY <1>1, <1>2 DEF IsFile
        <5>2. \A u \in Topics : IsFile(u, i)' => files'[<<u, i>>] = note
          BY <1>1 DEF IsFile
        <5>3. QED
          BY <5>1, <5>2
      <4>2. (\E u \in Topics : IsFile(u, i) /\ files[<<u, i>>].by = r[2])
            <=> Present(i) /\ note.by = r[2]
        BY DEF Present
      <4>3. r[2] # None
        OBVIOUS
      <4>4. QED
        BY <3>2, <4>1, <4>2, <4>3
    <3>3. QED
      BY <3>1, <3>2
  <2>2. QED
    BY <2>1 DEF Replaced
<1>6. QED
  BY <1>3, <1>4, <1>5 DEF Abstract!Put

(* One of two files with an id goes.                                       *)
LEMMA DropDrops ==
  ASSUME TypeOK, IdsNameOneNote, NEW t \in Topics, NEW u \in Topics, NEW i \in Ids,
         t # u, IsFile(t, i), IsFile(u, i), files' = [files EXCEPT ![<<t, i>>] = None]
  PROVE  files[<<t, i>>].body \in Bodies /\ Abstract!Drop(files[<<t, i>>].body, t, i)
<1> DEFINE note == files[<<t, i>>]
<1>1. note \in Note /\ note # None /\ note.body \in Bodies /\ files[<<u, i>>] = note
  BY DEF TypeOK, Note, IsFile, IdsNameOneNote
<1>2. \A p \in Topics \X Ids : files'[p] = IF p = <<t, i>> THEN None ELSE files[p]
  BY DEF TypeOK
<1>3. <<u, i>> \in Places[note.body] \ {<<t, i>>}
  BY <1>1, PlacesOf
<1>4. Places' = [Places EXCEPT ![note.body] = @ \ {<<t, i>>}]
  <2>1. ASSUME NEW b \in Bodies
        PROVE  Places'[b] = IF b = note.body THEN Places[b] \ {<<t, i>>} ELSE Places[b]
    <3>1. Places'[b] = {p \in Topics \X Ids : files'[p] # None /\ files'[p].body = b}
      BY DEF Places
    <3>2. CASE b = note.body
      BY <1>2, <3>1, <3>2, PlacesOf
    <3>3. CASE b # note.body
      BY <1>2, <3>1, <3>3, PlacesOf
    <3>4. QED
      BY <3>2, <3>3
  <2>2. /\ Places = [b \in Bodies |-> Places[b]]
        /\ Places' = [b \in Bodies |-> Places'[b]]
    BY DEF Places
  <2>3. QED
    BY <2>1, <2>2
<1>5. ASSUME NEW r \in Ids \X Ids
      PROVE  (\E v \in Topics : IsFile(v, r[1])' /\ files'[<<v, r[1]>>].by = r[2])
             <=> (\E v \in Topics : IsFile(v, r[1]) /\ files[<<v, r[1]>>].by = r[2])
  <2>1. CASE r[1] # i
    <3>1. \A v \in Topics : files'[<<v, r[1]>>] = files[<<v, r[1]>>]
      BY <1>2, <2>1
    <3>2. QED
      BY <3>1 DEF IsFile
  <2>2. CASE r[1] = i
    <3>1. files'[<<u, i>>] = note /\ IsFile(u, i)'
      BY <1>1, <1>2 DEF IsFile
    <3>2. \A v \in Topics : IsFile(v, i) => files[<<v, i>>] = note
      BY DEF IdsNameOneNote
    <3>3. \A v \in Topics : IsFile(v, i)' => files'[<<v, i>>] = note
      BY <1>2, <3>2 DEF IsFile
    <3>4. QED
      BY <2>2, <3>1, <3>2, <3>3
  <2>3. QED
    BY <2>1, <2>2
<1>6. Replaced' = Replaced
  BY <1>5 DEF Replaced
<1>7. QED
  BY <1>1, <1>3, <1>4, <1>6 DEF Abstract!Drop

LEMMA MarkReplaces ==
  ASSUME TypeOK, MarkInv, IdsNameOneNote, NEW t \in Topics, NEW i \in Ids, MarkSource(t, i)
  PROVE  cmd.id \in Ids /\ Abstract!Replace(i, cmd.id)
<1>1. cmd.id \in Ids /\ Present(cmd.id)
  BY DEF MarkSource, MarkInv
<1>2. Lone(i, t)
  BY SourceIsLone
<1>3. /\ files'[<<t, i>>].by = cmd.id /\ files'[<<t, i>>].body = files[<<t, i>>].body
      /\ \A u \in Topics, j \in Ids : <<u, j>> # <<t, i>> => files'[<<u, j>>] = files[<<u, j>>]
      /\ \A u \in Topics, j \in Ids : IsFile(u, j)' <=> IsFile(u, j)
  BY MarkSourceFiles
<1>4. \E b \in Bodies : \E p \in Places[b] : p[2] = cmd.id
  <2>1. PICK u \in Topics : IsFile(u, cmd.id)
    BY <1>1 DEF Present
  <2>2. files[<<u, cmd.id>>].body \in Bodies
    BY <1>1, <2>1 DEF TypeOK, IsFile, Note
  <2>3. <<u, cmd.id>> \in Places[files[<<u, cmd.id>>].body]
    BY <1>1, <2>1, <2>2, PlacesOf DEF IsFile
  <2>4. QED
    BY <2>2, <2>3
<1>5. ASSUME NEW p \in Topics \X Ids
      PROVE  (files'[p] # None <=> files[p] # None) /\ files'[p].body = files[p].body
  <2>1. p = <<p[1], p[2]>> /\ p[1] \in Topics /\ p[2] \in Ids
    OBVIOUS
  <2>2. files'[p] # None <=> files[p] # None
    BY <1>3, <2>1 DEF IsFile
  <2>3. files'[p].body = files[p].body
    BY <1>3, <2>1
  <2>4. QED
    BY <2>2, <2>3
<1>6. Places' = Places
  BY <1>5 DEF Places
<1>7. ASSUME NEW r \in Ids \X Ids
      PROVE  (\E u \in Topics : IsFile(u, r[1])' /\ files'[<<u, r[1]>>].by = r[2])
             <=> \/ r[1] # i /\ \E u \in Topics : IsFile(u, r[1]) /\ files[<<u, r[1]>>].by = r[2]
                 \/ r = <<i, cmd.id>>
  <2>1. CASE r[1] # i
    <3>1. r # <<i, cmd.id>>
      BY <2>1
    <3>2. \A u \in Topics : /\ IsFile(u, r[1])' <=> IsFile(u, r[1])
                            /\ files'[<<u, r[1]>>] = files[<<u, r[1]>>]
      BY <1>3, <2>1
    <3>3. QED
      BY <2>1, <3>1, <3>2
  <2>2. CASE r[1] = i
    <3>1. \A u \in Topics : IsFile(u, i)' <=> u = t
      BY <1>2, <1>3 DEF Lone
    <3>2. r = <<i, cmd.id>> <=> r[2] = cmd.id
      BY <2>2
    <3>3. QED
      BY <1>3, <2>2, <3>1, <3>2
  <2>3. QED
    BY <2>1, <2>2
<1>8. Replaced' = {r \in Replaced : r[1] # i} \cup {<<i, cmd.id>>}
  BY <1>1, <1>7 DEF Replaced
<1>9. QED
  BY <1>1, <1>4, <1>6, <1>8 DEF Abstract!Replace

LEMMA LifeInit == Init => Abstract!Init
<1> SUFFICES ASSUME Init PROVE Abstract!Init
  OBVIOUS
<1>1. Places = [b \in Bodies |-> {}]
  BY DEF Init, Places
<1>2. Replaced = {}
  BY DEF Init, Replaced, IsFile
<1>3. QED
  BY <1>1, <1>2 DEF Abstract!Init

LEMMA LifeStays ==
  ASSUME files' = files PROVE UNCHANGED Abstract!vars
BY DEF Abstract!vars, Places, Replaced, IsFile

LEMMA LifeStep ==
  ASSUME ~SameTitles, IInv, [Next]_vars PROVE [Abstract!Next]_Abstract!vars
<1>1. TypeOK /\ MoveInv /\ MarkInv /\ IdsNameOneNote
  BY DEF IInv, NamesInv
<1>2. ASSUME NEW b \in Captured, NEW t \in Topics, NEW i \in Ids, AddNote(b, t, i)
      PROVE  Abstract!Next
  <2>1. PICK note : note = [body |-> b, status |-> "active", by |-> None]
    OBVIOUS
  <2>2. note \in Note /\ note.body \in Bodies /\ note.by = None
    BY <2>1 DEF Note, Statuses, Bodies
  <2>3. files' = [files EXCEPT ![<<t, i>>] = note] /\ \A u \in Topics : ~IsFile(u, i)
    BY <1>2, <2>1 DEF AddNote, IsNextId, Present
  <2>4. Abstract!Put(note.body, t, i)
    BY <1>1, <2>2, <2>3, WritePuts
  <2>5. QED
    BY <2>2, <2>4 DEF Abstract!Next
<1>3. ASSUME NEW item \in pending, NEW i \in Ids, AcceptCompaction(item, i) PROVE Abstract!Next
  <2>1. item.topic \in Topics /\ item.body \in Drafts
    BY <1>1, <1>3 DEF AcceptCompaction, TypeOK, Proposal
  <2>2. PICK note : note = [body |-> item.body, status |-> "active", by |-> None]
    OBVIOUS
  <2>3. note \in Note /\ note.body \in Bodies /\ note.by = None
    BY <2>1, <2>2 DEF Note, Statuses, Bodies
  <2>4. files' = [files EXCEPT ![<<item.topic, i>>] = note] /\ \A u \in Topics : ~IsFile(u, i)
    BY <1>3, <2>2, NewIdIsNew DEF AcceptCompaction
  <2>5. Abstract!Put(note.body, item.topic, i)
    BY <1>1, <2>1, <2>3, <2>4, WritePuts
  <2>6. QED
    BY <2>1, <2>3, <2>5 DEF Abstract!Next
<1>4. ASSUME NEW m \in cmd.moves, MoveNote(m) PROVE Abstract!Next
  <2>1. m.id \in Ids /\ m.from \in Topics /\ m.to \in Topics
    BY <1>1 DEF TypeOK, Command, Move
  <2>2. PICK note : note = files[<<m.from, m.id>>]
    OBVIOUS
  <2>3. Lone(m.id, m.from) /\ files' = [files EXCEPT ![<<m.to, m.id>>] = note]
    BY <1>1, <1>4, <2>2 DEF MoveNote, MoveInv, Before
  <2>4. note \in Note /\ note.body \in Bodies
    BY <1>1, <1>4, <2>1, <2>2 DEF MoveNote, IsFile, TypeOK, Note
  <2>5. Present(m.id) /\ \A u \in Topics : IsFile(u, m.id) => files[<<u, m.id>>] = note
    BY <2>1, <2>2, <2>3 DEF Lone, Present
  <2>6. Abstract!Put(note.body, m.to, m.id)
    BY <1>1, <2>1, <2>3, <2>4, <2>5, WritePuts
  <2>7. QED
    BY <2>1, <2>4, <2>6 DEF Abstract!Next
<1>5. ASSUME NEW t \in Topics, NEW u \in Topics, NEW i \in Ids, t # u, IsFile(t, i), IsFile(u, i),
             files' = [files EXCEPT ![<<t, i>>] = None]
      PROVE  Abstract!Next
  <2>1. files[<<t, i>>].body \in Bodies /\ Abstract!Drop(files[<<t, i>>].body, t, i)
    BY <1>1, <1>5, DropDrops
  <2>2. QED
    BY <2>1 DEF Abstract!Next
<1>6. ASSUME UnlinkOld PROVE Abstract!Next
  <2>1. /\ cmd.move.id \in Ids /\ cmd.move.from \in Topics /\ cmd.move.to \in Topics
        /\ cmd.move.from # cmd.move.to
        /\ IsFile(cmd.move.from, cmd.move.id) /\ IsFile(cmd.move.to, cmd.move.id)
    BY <1>1, <1>6 DEF UnlinkOld, MoveInv, Move
  <2>2. QED
    BY <1>5, <1>6, <2>1 DEF UnlinkOld
<1>7. ASSUME NEW t \in Topics, NEW u \in Topics, NEW i \in Ids, Repair(t, u, i) PROVE Abstract!Next
  BY <1>5, <1>7 DEF Repair
<1>8. ASSUME NEW t \in Topics, NEW i \in Ids, MarkSource(t, i) PROVE Abstract!Next
  BY <1>1, <1>8, MarkReplaces DEF Abstract!Next
<1>9. ASSUME files' = files PROVE [Abstract!Next]_Abstract!vars
  BY <1>9, LifeStays
<1>10. ASSUME Write PROVE [Abstract!Next]_Abstract!vars
  <2>1. ASSUME NEW s \in Topics, NEW d \in Topics, CopyScope(s, d) \/ TearScope(s, d) PROVE files' = files
    BY <2>1 DEF CopyScope, TearScope
  <2>2. ASSUME NEW t \in Topics, Cleanup(t) PROVE files' = files
    BY <2>2 DEF Cleanup
  <2>3. ASSUME NEW i \in Ids, KeepSource(i) PROVE files' = files
    BY <2>3 DEF KeepSource
  <2>4. LayOut \/ Moved \/ CleanedUp \/ Marked \/ Reindex \/ Accept => files' = files
    BY DEF LayOut, Moved, CleanedUp, Marked, Reindex, Accept
  <2>5. QED
    BY <1>4, <1>6, <1>8, <1>9, <1>10, <2>1, <2>2, <2>3, <2>4 DEF Write
<1>11. ASSUME Others PROVE [Abstract!Next]_Abstract!vars
  <2>1. ASSUME NEW t \in Topics, EditScope(t) PROVE files' = files
    BY <2>1 DEF EditScope
  <2>2. QED
    BY <1>2, <1>7, <1>9, <1>11, <2>1 DEF Others
<1>12. ASSUME Queue PROVE files' = files
  BY <1>12 DEF Queue, Split, Merge, Compact, Propose, Reject
<1>13. ASSUME Begin PROVE [Abstract!Next]_Abstract!vars
  BY <1>3, <1>9, <1>13, Movers DEF Begin, BeginsMoves, ApplyMoves
<1>14. Stop \/ UNCHANGED vars => files' = files
  BY DEF Stop, vars
<1>15. QED
  BY <1>9, <1>10, <1>11, <1>12, <1>13, <1>14 DEF Next

(* Moving, deleting a second file, compacting and being stopped never lose *)
(* a note, reuse its id or replace it by one that is not there, if no      *)
(* archived note has the title and day of a canonical one.                 *)
THEOREM KeepsNotes == ASSUME ~SameTitles PROVE Spec => ImplementsNoteLife
<1>1. IInv /\ [Next]_vars => [Abstract!Next]_Abstract!vars
  BY LifeStep
<1>2. QED
  BY <1>1, LifeInit, Invariance, PTL DEF Spec, Abstract!Spec, ImplementsNoteLife

===============================================================================
