-------------------------------- MODULE Reindex --------------------------------
(***************************************************************************)
(* The generated artifacts of a knowledge base and the commands that write *)
(* them: reindex_data_dir reads all notes and then replaces the markdown   *)
(* pages, backlinks.json, stats.json, fts.sqlite and index-manifest.json   *)
(* one after the other (indexing.py, search_index.py); a search appends to *)
(* the usage log and rewrites stats.json (usage.py); `kb doctor` compares  *)
(* the artifacts with the notes (doctor.py).  Nothing is locked, and a     *)
(* command may be killed anywhere.                                         *)
(*                                                                         *)
(* Listing the notes is one step; so is the reading of a note and the      *)
(* writing of a page.                                                      *)
(***************************************************************************)
EXTENDS Naturals, FiniteSets

CONSTANTS
  Procs,      \* processes that run kb
  Notes,      \* note ids, as numbers: pages list them in order
  Note,       \* a note has a topic, what pages show of it, and whether its
              \* text names all other notes
  First,      \* the notes there are at first
  PageSize,   \* indexes.topic_page_size
  OtherSize,  \* DEFAULT_TOPIC_PAGE_SIZE
  Changes,    \* bound: the changes made to notes
  Searches,   \* bound: the searches
  None

VARIABLES
  notes,     \* the note of each id
  dirs,      \* the directories under topics/
  pages,     \* the markdown pages
  backlinks, stats, fts, manifest,
  log,       \* the length of the usage log
  cmd,       \* the command of each process
  changes,   \* the changes made so far
  alone      \* the process that has listed last and acted alone since

files == <<pages, backlinks, stats, fts, manifest>>
vars == <<notes, dirs, pages, backlinks, stats, fts, manifest, log, cmd,
          changes, alone>>

-------------------------------------------------------------------------------
(* Rendering                                                               *)

NoteTopics == {note.topic : note \in Note}
KB == [Notes -> Note \cup {None}]

Present(kb) == {n \in Notes : kb[n] # None}
InTopic(kb, t) == {n \in Present(kb) : kb[n].topic = t}

Top == 0
Places == {Top} \cup NoteTopics
PageNumbers == 1..(Cardinality(Notes) + Cardinality(NoteTopics))

(* _paginate: the numbers on a page, and how many pages there are.         *)
Rank(x, S) == Cardinality({y \in S : y < x})
OnPage(S, k, size) == {x \in S : Rank(x, S) \div size = k - 1}
PageCount(S, size) ==
  IF S = {} THEN 1 ELSE (Cardinality(S) - 1) \div size + 1

(* group_records_for_indexing, render_index_pages; the top-level pages are *)
(* cut by a size of their own, which is the same here.                     *)
Grouped(kb, ds) == ds \cup {kb[n].topic : n \in Present(kb)}
Listed(kb, ds, place) == IF place = Top THEN Grouped(kb, ds) ELSE InTopic(kb, place)
Row(kb, place, x) ==
  IF place = Top THEN <<x, Cardinality(InTopic(kb, x))>> ELSE <<x, kb[x].shown>>

Expected(kb, ds, size) ==
  {pp \in Places \X PageNumbers :
     /\ pp[1] \in {Top} \cup Grouped(kb, ds)
     /\ pp[2] <= PageCount(Listed(kb, ds, pp[1]), size)}

Page(kb, ds, size, pp) ==
  LET S == Listed(kb, ds, pp[1]) IN
  [rows |-> {Row(kb, pp[1], x) : x \in OnPage(S, pp[2], size)},
   of |-> PageCount(S, size)]

Rendered(kb, ds, size) ==
  [pp \in Places \X PageNumbers |->
     IF pp \in Expected(kb, ds, size) THEN Page(kb, ds, size, pp) ELSE None]

Naming(kb, n) == {m \in Present(kb) \ {n} : kb[m].links}
BacklinksOf(kb) == [n \in Notes |-> Naming(kb, n)]

ManifestOf(kb, ds, size) ==
  [paths |-> {<<n, kb[n].topic>> : n \in Present(kb)},
   topics |-> Cardinality(Grouped(kb, ds)),
   artifacts |-> Expected(kb, ds, size)]

StatsOf(kb, ds, used) ==
  [notes |-> Cardinality(Present(kb)), topics |-> Cardinality(Grouped(kb, ds)),
   used |-> used]

(* A file that is being rewritten in place, and what is read from it.      *)
Torn == [notes |-> None, topics |-> None, used |-> None]

-------------------------------------------------------------------------------
(* What is assumed of the constants.                                       *)
Sizes ==
  /\ IsFiniteSet(Notes) /\ IsFiniteSet(NoteTopics)
  /\ Notes \subseteq Nat /\ NoteTopics \subseteq Nat \ {Top}
  /\ Changes \in Nat /\ Searches \in Nat
  /\ PageSize \in Nat \ {0} /\ OtherSize \in Nat \ {0}
  /\ First \subseteq KB
  /\ None \notin Procs
  /\ None \notin [rows : SUBSET (Notes \X {note.shown : note \in Note}), of : Nat]

Idle == [at |-> "idle", size |-> PageSize, kb |-> None, dirs |-> {}, todo |-> {},
         stats |-> Torn]

(* A knowledge base after its first `kb reindex`.                          *)
Init ==
  /\ notes \in First
  /\ dirs = Grouped(notes, {})
  /\ pages = Rendered(notes, dirs, PageSize)
  /\ backlinks = BacklinksOf(notes)
  /\ stats = StatsOf(notes, dirs, 0)
  /\ fts = notes
  /\ manifest = ManifestOf(notes, dirs, PageSize)
  /\ log = 0
  /\ cmd = [p \in Procs |-> Idle]
  /\ changes = 0
  /\ alone = None

(* Whoever else acts, the last reader is no longer alone.                  *)
Acts(p) == alone' = IF alone = p THEN p ELSE None
Goto(p, label) == cmd' = [cmd EXCEPT ![p].at = label]

-------------------------------------------------------------------------------
(* Notes change by hand, or by a command that reindexes afterwards.        *)
Change(n, note) ==
  /\ changes < Changes
  /\ notes' = [notes EXCEPT ![n] = note]
  /\ notes' # notes
  /\ dirs' = IF note = None THEN dirs ELSE dirs \cup {note.topic}
  /\ changes' = changes + 1

EditByHand ==
  /\ \E n \in Notes, note \in Note \cup {None} : Change(n, note)
  /\ alone' = None
  /\ UNCHANGED <<files, log, cmd>>

(* `kb reindex` passes the configuration on; all others do not.            *)
Maintain(p) ==
  /\ cmd[p].at = "idle"
  /\ cmd' = [cmd EXCEPT ![p].at = "list", ![p].size = PageSize]
  /\ Acts(p)
  /\ UNCHANGED <<notes, dirs, files, log, changes>>

ChangeByCommand(p) ==
  /\ cmd[p].at = "idle"
  /\ \E n \in Notes, note \in Note \cup {None} : Change(n, note)
  /\ cmd' = [cmd EXCEPT ![p].at = "list", ![p].size = OtherSize]
  /\ Acts(p)
  /\ UNCHANGED <<files, log>>

-------------------------------------------------------------------------------
(* reindex_data_dir                                                        *)

(* Notes are read, and pages written, in the order of their paths.         *)
IsNext(pp, todo) ==
  /\ pp \in todo
  /\ \A other \in todo : pp[1] < other[1] \/ (pp[1] = other[1] /\ pp[2] <= other[2])

(* load_note_records: the paths first, then note after note.               *)
List(p) ==
  /\ cmd[p].at = "list"
  /\ cmd' = [cmd EXCEPT ![p].at = "read", ![p].kb = [n \in Notes |-> None],
                        ![p].todo = {<<notes[n].topic, n>> : n \in Present(notes)}]
  /\ alone' = IF \A q \in Procs \ {p} : cmd[q].at = "idle" THEN p ELSE None
  /\ UNCHANGED <<notes, dirs, files, log, changes>>

(* A note that has been moved since is not found: the command fails.       *)
ReadNote(p, t, n) ==
  /\ cmd[p].at = "read" /\ IsNext(<<t, n>>, cmd[p].todo)
  /\ IF notes[n] # None /\ notes[n].topic = t
     THEN cmd' = [cmd EXCEPT ![p].kb[n] = notes[n], ![p].todo = @ \ {<<t, n>>}]
     ELSE cmd' = [cmd EXCEPT ![p] = Idle]
  /\ Acts(p)
  /\ UNCHANGED <<notes, dirs, files, log, changes>>

Group(p) ==
  /\ cmd[p].at = "read" /\ cmd[p].todo = {}
  /\ cmd' = [cmd EXCEPT ![p].at = "pages", ![p].dirs = dirs,
                        ![p].todo = Expected(cmd[p].kb, dirs, cmd[p].size)]
  /\ Acts(p)
  /\ UNCHANGED <<notes, dirs, files, log, changes>>

WritePage(p, pp) ==
  /\ cmd[p].at = "pages" /\ IsNext(pp, cmd[p].todo)
  /\ pages' = [pages EXCEPT ![pp] = Page(cmd[p].kb, cmd[p].dirs, cmd[p].size, pp)]
  /\ cmd' = [cmd EXCEPT ![p].todo = @ \ {pp}]
  /\ Acts(p)
  /\ UNCHANGED <<notes, dirs, backlinks, stats, fts, manifest, log, changes>>

(* Faulty: pages beyond the last are left where they are.                  *)
Stale_None(p) == {}

(* _stale_generated_index_pages: a file INDEX.md is never among them.      *)
Stale(p) ==
  {pp \in Places \X PageNumbers :
     /\ pages[pp] # None /\ pp[2] > 1
     /\ pp \notin Expected(cmd[p].kb, cmd[p].dirs, cmd[p].size)}

Unlink(p) ==
  /\ cmd[p].at = "pages" /\ cmd[p].todo = {}
  /\ pages' = [pp \in DOMAIN pages |-> IF pp \in Stale(p) THEN None ELSE pages[pp]]
  /\ Goto(p, "backlinks")
  /\ Acts(p)
  /\ UNCHANGED <<notes, dirs, backlinks, stats, fts, manifest, log, changes>>

WriteBacklinks(p) ==
  /\ cmd[p].at = "backlinks"
  /\ backlinks' = BacklinksOf(cmd[p].kb)
  /\ Goto(p, "stats")
  /\ Acts(p)
  /\ UNCHANGED <<notes, dirs, pages, stats, fts, manifest, log, changes>>

WriteStats(p) ==
  /\ cmd[p].at = "stats"
  /\ stats' = StatsOf(cmd[p].kb, cmd[p].dirs, log)
  /\ Goto(p, "fts")
  /\ Acts(p)
  /\ UNCHANGED <<notes, dirs, pages, backlinks, fts, manifest, log, changes>>

(* build_lexical_index: built in a file of its own, which then replaces    *)
(* the index.                                                              *)
WriteFts(p) ==
  /\ cmd[p].at = "fts"
  /\ fts' = cmd[p].kb
  /\ Goto(p, "manifest")
  /\ Acts(p)
  /\ UNCHANGED <<notes, dirs, pages, backlinks, stats, manifest, log, changes>>

(* Faulty: the manifest is not told of the configured page size.           *)
WriteManifest_DefaultSize(p) ==
  /\ cmd[p].at = "manifest"
  /\ manifest' = ManifestOf(cmd[p].kb, cmd[p].dirs, OtherSize)
  /\ cmd' = [cmd EXCEPT ![p] = Idle]
  /\ Acts(p)
  /\ UNCHANGED <<notes, dirs, pages, backlinks, stats, fts, log, changes>>

WriteManifest(p) ==
  /\ cmd[p].at = "manifest"
  /\ manifest' = ManifestOf(cmd[p].kb, cmd[p].dirs, cmd[p].size)
  /\ cmd' = [cmd EXCEPT ![p] = Idle]
  /\ Acts(p)
  /\ UNCHANGED <<notes, dirs, pages, backlinks, stats, fts, log, changes>>

-------------------------------------------------------------------------------
(* log_retrieval, refresh_usage_stats                                      *)

Search(p) ==
  /\ cmd[p].at = "idle" /\ log < Searches
  /\ log' = log + 1
  /\ Goto(p, "load")
  /\ alone' = None
  /\ UNCHANGED <<notes, dirs, files, changes>>

LoadStats(p) ==
  /\ cmd[p].at = "load"
  /\ cmd' = [cmd EXCEPT ![p].at = "truncate", ![p].stats = [stats EXCEPT !.used = log]]
  /\ alone' = None
  /\ UNCHANGED <<notes, dirs, files, log, changes>>

TruncateStats(p) ==
  /\ cmd[p].at = "truncate"
  /\ stats' = Torn
  /\ Goto(p, "refresh")
  /\ alone' = None
  /\ UNCHANGED <<notes, dirs, pages, backlinks, fts, manifest, log, changes>>

RefreshStats(p) ==
  /\ cmd[p].at = "refresh"
  /\ stats' = cmd[p].stats
  /\ cmd' = [cmd EXCEPT ![p] = Idle]
  /\ alone' = None
  /\ UNCHANGED <<notes, dirs, pages, backlinks, fts, manifest, log, changes>>

Stop(p) ==
  /\ cmd[p].at # "idle"
  /\ cmd' = [cmd EXCEPT ![p] = Idle]
  /\ alone' = None
  /\ UNCHANGED <<notes, dirs, files, log, changes>>

Next ==
  \/ EditByHand
  \/ \E p \in Procs :
       \/ Maintain(p) \/ ChangeByCommand(p) \/ List(p) \/ Group(p)
       \/ \E t \in NoteTopics, n \in Notes : ReadNote(p, t, n)
       \/ Unlink(p)
       \/ WriteBacklinks(p) \/ WriteStats(p) \/ WriteFts(p) \/ WriteManifest(p)
       \/ \E pp \in Places \X PageNumbers : WritePage(p, pp)
       \/ Search(p) \/ LoadStats(p) \/ TruncateStats(p) \/ RefreshStats(p)
       \/ Stop(p)

Spec == Init /\ [][Next]_vars

-------------------------------------------------------------------------------
(* kb doctor                                                               *)

PagesCurrent ==
  /\ \A pp \in Expected(notes, dirs, PageSize) :
       pages[pp] = Page(notes, dirs, PageSize, pp)
  /\ \A pp \in Places \X PageNumbers :
       pages[pp] # None /\ pp[2] > 1 => pp \in Expected(notes, dirs, PageSize)

(* _check_fts: the ids and paths, nothing else.                            *)
FtsCurrent ==
  {<<n, fts[n].topic>> : n \in Present(fts)} = {<<n, notes[n].topic>> : n \in Present(notes)}

DoctorIsSilent ==
  /\ PagesCurrent
  /\ backlinks = BacklinksOf(notes)
  /\ manifest = ManifestOf(notes, dirs, PageSize)
  /\ FtsCurrent

-------------------------------------------------------------------------------
Stats == [notes : Nat \cup {None}, topics : Nat \cup {None}, used : Nat \cup {None}]

TypeOK ==
  /\ notes \in KB /\ fts \in KB
  /\ dirs \subseteq NoteTopics
  /\ DOMAIN pages = Places \X PageNumbers
  /\ backlinks \in [Notes -> SUBSET Notes]
  /\ stats \in Stats
  /\ log \in 0..Searches /\ changes \in 0..Changes
  /\ alone \in Procs \cup {None}

(* A reindex that nobody disturbs repairs everything, whatever other       *)
(* commands have left behind, wherever they were killed: all artifacts     *)
(* but the pages are those of the notes; the pages are, cut as it cuts     *)
(* them.                                                                   *)
Repairs ==
  \A p \in Procs : alone = p /\ cmd[p].at = "idle" =>
    /\ backlinks = BacklinksOf(notes)
    /\ stats = StatsOf(notes, dirs, log)
    /\ fts = notes
    /\ \E size \in {PageSize, OtherSize} :
         /\ pages = Rendered(notes, dirs, size)
         /\ manifest = ManifestOf(notes, dirs, size)

(* After a `kb reindex` that has been alone from its listing of the notes  *)
(* on, `kb doctor` has nothing against the generated artifacts: reindex    *)
(* and doctor cut the pages alike, and agree on what is stale, whatever    *)
(* the commands before have left behind.                                   *)
ReindexQuietsDoctor ==
  [][\A p \in Procs :
       WriteManifest(p) /\ alone = p /\ cmd[p].size = PageSize => DoctorIsSilent']_vars
===============================================================================
