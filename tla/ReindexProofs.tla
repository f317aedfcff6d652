----------------------------- MODULE ReindexProofs -----------------------------
(***************************************************************************)
(* For any notes, processes and page sizes: a reindex that nobody disturbs *)
(* repairs all artifacts, whatever earlier commands have left behind.      *)
(***************************************************************************)
EXTENDS Reindex, TLAPS, FiniteSetTheorems

-------------------------------------------------------------------------------
(* Types, and what a reindex knows of the topics.                          *)

Reading == {"list", "read"}
Writing == {"pages", "backlinks", "stats", "fts", "manifest"}
Searching == {"load", "truncate", "refresh"}
Labels == {"idle"} \cup Reading \cup Writing \cup Searching
Items == Places \X (Notes \cup PageNumbers)

Command ==
  [at : Labels, size : {PageSize, OtherSize}, kb : KB \cup {None},
   dirs : SUBSET NoteTopics, todo : SUBSET Items, stats : Stats]

Types ==
  /\ notes \in KB
  /\ dirs \subseteq NoteTopics
  /\ DOMAIN pages = Places \X PageNumbers
  /\ stats \in Stats
  /\ log \in Nat
  /\ cmd \in [Procs -> Command]

(* Every topic of a note, of a note that has been read, and of a page that *)
(* is there or about to be written, has its directory.                     *)
Placed(kb) == \A n \in Present(kb) : kb[n].topic \in dirs
PlacedPage(pp) == pp[1] \in {Top} \cup dirs

TopicsPlaced ==
  /\ Placed(notes)
  /\ \A pp \in Places \X PageNumbers : pages[pp] # None => PlacedPage(pp)
  /\ \A p \in Procs :
       /\ cmd[p].at = "read" => cmd[p].kb \in KB /\ Placed(cmd[p].kb)
       /\ cmd[p].at = "pages" =>
            \A pp \in cmd[p].todo : pp \in Places \X PageNumbers /\ PlacedPage(pp)

-------------------------------------------------------------------------------
(* What the process that is alone has done.                                *)

HasRead(p) ==
  /\ cmd[p].kb \in KB
  /\ \A n \in Notes : cmd[p].kb[n] \in {None, notes[n]}
  /\ cmd[p].todo =
       {<<notes[n].topic, n>> : n \in {m \in Present(notes) : cmd[p].kb[m] = None}}

HasGrouped(p) == cmd[p].kb = notes /\ cmd[p].dirs = dirs

HasPaged(p) ==
  \A pp \in Expected(notes, dirs, cmd[p].size) \ cmd[p].todo :
    pages[pp] = Page(notes, dirs, cmd[p].size, pp)

Progress(p) ==
  /\ cmd[p].at \in {"idle"} \cup Reading \cup Writing
  /\ cmd[p].at = "read" => HasRead(p)
  /\ cmd[p].at \in Writing => HasGrouped(p)
  /\ cmd[p].at = "pages" => HasPaged(p)
  /\ cmd[p].at \in {"backlinks", "stats", "fts", "manifest"} =>
       pages = Rendered(notes, dirs, cmd[p].size)
  /\ cmd[p].at \in {"stats", "fts", "manifest"} => backlinks = BacklinksOf(notes)
  /\ cmd[p].at \in {"fts", "manifest"} => stats = StatsOf(notes, dirs, log)
  /\ cmd[p].at = "manifest" => fts = notes

Alone == \A p \in Procs : alone = p => Progress(p)

Inv == Types /\ TopicsPlaced /\ Alone /\ Repairs

-------------------------------------------------------------------------------
(* A page is there for each topic: the count of pages is positive.         *)
LEMMA Quotient ==
  ASSUME NEW a \in Nat, NEW b \in Nat \ {0} PROVE a \div b \in Nat
OBVIOUS

LEMMA FirstPage ==
  ASSUME Sizes, NEW S, IsFiniteSet(S), NEW size \in {PageSize, OtherSize}
  PROVE  PageCount(S, size) \in Nat /\ 1 <= PageCount(S, size)
<1>1. CASE S = {}
  BY <1>1 DEF PageCount
<1>2. CASE S # {}
  <2>1. Cardinality(S) \in Nat /\ Cardinality(S) # 0
    BY <1>2, FS_CardinalityType, FS_EmptySet
  <2>2. Cardinality(S) - 1 \in Nat /\ size \in Nat \ {0}
    BY <2>1 DEF Sizes
  <2>3. (Cardinality(S) - 1) \div size \in Nat
    BY <2>2, Quotient
  <2> QED
    BY <1>2, <2>3 DEF PageCount
<1> QED
  BY <1>1, <1>2

LEMMA Grouping ==
  ASSUME Sizes, NEW kb \in KB, NEW ds \in SUBSET NoteTopics
  PROVE  /\ Grouped(kb, ds) \in SUBSET NoteTopics
         /\ ds \subseteq Grouped(kb, ds)
         /\ (\A n \in Present(kb) : kb[n].topic \in ds) => Grouped(kb, ds) = ds
         /\ IsFiniteSet(Grouped(kb, ds)) /\ IsFiniteSet(Present(kb))
         /\ \A place : IsFiniteSet(Listed(kb, ds, place))
<1>1. \A n \in Present(kb) : kb[n] \in Note
  BY DEF Present, KB
<1>2. Grouped(kb, ds) \in SUBSET NoteTopics
  BY <1>1 DEF Grouped, NoteTopics
<1>3. IsFiniteSet(Grouped(kb, ds))
  BY <1>2, FS_Subset DEF Sizes
<1>4. \A place : InTopic(kb, place) \in SUBSET Notes
  BY DEF InTopic, Present
<1>5. \A place : IsFiniteSet(InTopic(kb, place))
  BY <1>4, FS_Subset DEF Sizes
<1>6. Present(kb) \in SUBSET Notes
  BY DEF Present
<1>7. IsFiniteSet(Present(kb))
  BY <1>6, FS_Subset DEF Sizes
<1> QED
  BY <1>2, <1>3, <1>5, <1>7 DEF Grouped, Listed

LEMMA StatsAreStats ==
  ASSUME Sizes, NEW kb, NEW ds \in SUBSET NoteTopics, NEW used \in Nat
  PROVE  StatsOf(kb, ds, used) \in Stats
<1> DEFINE topics == {kb[n].topic : n \in Present(kb)}
<1>1. IsFiniteSet(ds) /\ IsFiniteSet(Present(kb))
  BY FS_Subset DEF Sizes, Present
<1>2. IsFiniteSet(topics)
  <2> DEFINE f == [n \in Present(kb) |-> kb[n].topic]
  <2>1. f \in Surjection(Present(kb), topics)
    BY DEF Surjection
  <2> QED
    BY <1>1, <2>1, FS_Surjection
<1>3. IsFiniteSet(ds \cup topics)
  BY <1>1, <1>2, FS_Union
<1>4. Cardinality(Present(kb)) \in Nat /\ Cardinality(Grouped(kb, ds)) \in Nat
  BY <1>1, <1>3, FS_CardinalityType DEF Grouped
<1> QED
  BY <1>4 DEF StatsOf, Stats

(* The first page of every place that is grouped is expected.              *)
LEMMA FirstPageExpected ==
  ASSUME Sizes, NEW kb \in KB, NEW ds \in SUBSET NoteTopics,
         NEW size \in {PageSize, OtherSize}, NEW pp \in Places \X PageNumbers,
         pp[1] \in {Top} \cup ds, ~(pp[2] > 1)
  PROVE  pp \in Expected(kb, ds, size)
<1>1. pp[2] \in Int /\ pp[2] <= 1
  BY DEF PageNumbers
<1>2. PageCount(Listed(kb, ds, pp[1]), size) \in Nat
      /\ 1 <= PageCount(Listed(kb, ds, pp[1]), size)
  BY FirstPage, Grouping
<1>3. pp[1] \in {Top} \cup Grouped(kb, ds)
  BY Grouping
<1> QED
  BY <1>1, <1>2, <1>3 DEF Expected

-------------------------------------------------------------------------------
LEMMA InitInv ==
  ASSUME Sizes, Init PROVE Inv
<1>1. notes \in KB /\ dirs = Grouped(notes, {})
  BY DEF Init, Sizes
<1>2. dirs \subseteq NoteTopics /\ Placed(notes)
  BY <1>1, Grouping DEF Placed, Grouped
<1>3. stats \in Stats /\ log \in Nat
  BY <1>1, <1>2, StatsAreStats DEF Init
<1>4. Idle \in Command
  BY DEF Idle, Command, Labels, Torn, Stats
<1>5. Types
  BY <1>1, <1>2, <1>3, <1>4 DEF Init, Types, Rendered
<1>6. \A pp \in Places \X PageNumbers : pages[pp] # None => PlacedPage(pp)
  <2> SUFFICES ASSUME NEW pp \in Places \X PageNumbers, pages[pp] # None
               PROVE  PlacedPage(pp)
    OBVIOUS
  <2>1. pp \in Expected(notes, dirs, PageSize)
    BY DEF Init, Rendered
  <2>2. Grouped(notes, dirs) = dirs
    BY <1>1, <1>2, Grouping DEF Placed
  <2> QED
    BY <2>1, <2>2 DEF Expected, PlacedPage
<1>7. TopicsPlaced
  BY <1>2, <1>6 DEF TopicsPlaced, Init, Idle
<1>8. Alone /\ Repairs
  BY DEF Init, Alone, Repairs, Sizes
<1> QED
  BY <1>5, <1>7, <1>8 DEF Inv

(* Once somebody else has acted, nothing is claimed of anybody.            *)
LEMMA Disturbed ==
  ASSUME Sizes, alone' = None PROVE Alone' /\ Repairs'
BY DEF Sizes, Alone, Repairs

(* A step of p can be judged by what p knows.                              *)
LEMMA ByItself ==
  ASSUME Sizes, NEW p \in Procs, alone' \in {None, p},
         alone' = p => Progress(p)' /\ cmd'[p].at # "idle"
  PROVE  Alone' /\ Repairs'
BY DEF Sizes, Alone, Repairs

-------------------------------------------------------------------------------
(* Changes of notes.                                                       *)

LEMMA ChangeKeeps ==
  ASSUME Types, TopicsPlaced, NEW n \in Notes, NEW note \in Note \cup {None},
         Change(n, note)
  PROVE  /\ notes' \in KB /\ dirs' \subseteq NoteTopics /\ dirs \subseteq dirs'
         /\ Placed(notes)'
<1>1. notes' = [notes EXCEPT ![n] = note] /\ notes \in KB
  BY DEF Change, Types
<1>2. notes' \in KB /\ \A m \in Notes : notes'[m] = IF m = n THEN note ELSE notes[m]
  BY <1>1 DEF KB
<1>3. note # None => note \in Note /\ note.topic \in NoteTopics
  BY DEF NoteTopics
<1>4. dirs' = IF note = None THEN dirs ELSE dirs \cup {note.topic}
  BY DEF Change
<1>5. dirs' \subseteq NoteTopics /\ dirs \subseteq dirs'
  BY <1>3, <1>4 DEF Types
<1>6. Placed(notes)'
  BY <1>2, <1>4 DEF TopicsPlaced, Placed, Present
<1> QED
  BY <1>2, <1>5, <1>6

LEMMA EditByHandKeepsInv ==
  ASSUME Sizes, Inv, EditByHand PROVE Inv'
<1>1. PICK n \in Notes, note \in Note \cup {None} : Change(n, note)
  BY DEF EditByHand
<1>2. alone' = None /\ UNCHANGED <<pages, backlinks, stats, fts, manifest, log, cmd>>
  BY DEF EditByHand, files
<1>3. /\ notes' \in KB /\ dirs' \subseteq NoteTopics /\ dirs \subseteq dirs'
      /\ Placed(notes)'
  BY <1>1, ChangeKeeps DEF Inv
<1>4. Types'
  BY <1>2, <1>3 DEF Inv, Types
<1>5. TopicsPlaced'
  BY <1>2, <1>3 DEF Inv, TopicsPlaced, Placed, PlacedPage
<1> QED
  BY <1>2, <1>4, <1>5, Disturbed DEF Inv

(* A process that comes to a place where it has neither read nor grouped   *)
(* upsets nobody's topics.                                                 *)
LEMMA PlacesStay ==
  ASSUME TopicsPlaced, NEW p \in Procs, \A q \in Procs \ {p} : cmd'[q] = cmd[q],
         cmd'[p].at \notin {"read", "pages"}, pages' = pages,
         Placed(notes)', dirs \subseteq dirs'
  PROVE  TopicsPlaced'
BY DEF TopicsPlaced, Placed, PlacedPage

LEMMA ChangeByCommandKeepsInv ==
  ASSUME Sizes, Inv, NEW p \in Procs, ChangeByCommand(p) PROVE Inv'
<1>1. PICK n \in Notes, note \in Note \cup {None} : Change(n, note)
  BY DEF ChangeByCommand
<1>2. /\ alone' \in {None, p} /\ UNCHANGED <<pages, backlinks, stats, fts, manifest, log>>
      /\ cmd' = [cmd EXCEPT ![p].at = "list", ![p].size = OtherSize]
  BY DEF ChangeByCommand, files, Acts
<1>3. /\ notes' \in KB /\ dirs' \subseteq NoteTopics /\ dirs \subseteq dirs'
      /\ Placed(notes)'
  BY <1>1, ChangeKeeps DEF Inv
<1>4. /\ cmd' \in [Procs -> Command] /\ cmd'[p].at = "list"
      /\ \A q \in Procs \ {p} : cmd'[q] = cmd[q]
  <2>1. cmd[p] \in Command /\ cmd \in [Procs -> Command]
    BY DEF Inv, Types
  <2>2. [cmd[p] EXCEPT !.at = "list", !.size = OtherSize] \in Command
    BY <2>1 DEF Command, Labels, Reading
  <2>3. [cmd[p] EXCEPT !.at = "list", !.size = OtherSize].at = "list"
    BY <2>1 DEF Command
  <2>4. cmd' = [cmd EXCEPT ![p] = [cmd[p] EXCEPT !.at = "list", !.size = OtherSize]]
    BY <1>2, <2>1
  <2> QED
    BY <2>1, <2>2, <2>3, <2>4
<1>5. Types'
  BY <1>2, <1>3, <1>4 DEF Inv, Types
<1>6. TopicsPlaced'
  BY <1>2, <1>3, <1>4, PlacesStay DEF Inv
<1>7. Progress(p)'
  BY <1>4 DEF Progress, Reading, Writing
<1> QED
  BY <1>2, <1>4, <1>5, <1>6, <1>7, ByItself DEF Inv

LEMMA MaintainKeepsInv ==
  ASSUME Sizes, Inv, NEW p \in Procs, Maintain(p) PROVE Inv'
<1>1. /\ alone' \in {None, p} /\ UNCHANGED <<notes, dirs, pages, stats, log>>
      /\ cmd' = [cmd EXCEPT ![p].at = "list", ![p].size = PageSize]
  BY DEF Maintain, files, Acts
<1>2. /\ cmd' \in [Procs -> Command] /\ cmd'[p].at = "list"
      /\ \A q \in Procs \ {p} : cmd'[q] = cmd[q]
  <2>1. cmd[p] \in Command /\ cmd \in [Procs -> Command]
    BY DEF Inv, Types
  <2>2. [cmd[p] EXCEPT !.at = "list", !.size = PageSize] \in Command
    BY <2>1 DEF Command, Labels, Reading
  <2>3. [cmd[p] EXCEPT !.at = "list", !.size = PageSize].at = "list"
    BY <2>1 DEF Command
  <2>4. cmd' = [cmd EXCEPT ![p] = [cmd[p] EXCEPT !.at = "list", !.size = PageSize]]
    BY <1>1, <2>1
  <2> QED
    BY <2>1, <2>2, <2>3, <2>4
<1>3. Types'
  BY <1>1, <1>2 DEF Inv, Types
<1>4. TopicsPlaced'
  BY <1>1, <1>2, PlacesStay DEF Inv, TopicsPlaced, Placed
<1>5. Progress(p)'
  BY <1>2 DEF Progress, Reading, Writing
<1> QED
  BY <1>1, <1>2, <1>3, <1>4, <1>5, ByItself DEF Inv

-------------------------------------------------------------------------------
(* Reading.                                                                *)

LEMMA ListKeepsInv ==
  ASSUME Sizes, Inv, NEW p \in Procs, List(p) PROVE Inv'
<1> DEFINE nothing == [n \in Notes |-> None]
           todo == {<<notes[n].topic, n>> : n \in Present(notes)}
<1>1. /\ alone' \in {None, p} /\ UNCHANGED <<notes, dirs, pages, stats, log>>
      /\ cmd' = [cmd EXCEPT ![p].at = "read", ![p].kb = nothing, ![p].todo = todo]
  BY DEF List, files
<1>2. nothing \in KB /\ Present(nothing) = {}
  BY DEF KB, Present
<1>3. todo \in SUBSET Items
  BY DEF Inv, Types, KB, Present, NoteTopics, Items, Places
<1> HIDE DEF nothing, todo
<1>9. cmd[p] \in Command /\ cmd \in [Procs -> Command]
  BY DEF Inv, Types
<1>10. [cmd[p] EXCEPT !.at = "read", !.kb = nothing, !.todo = todo] \in Command
  BY <1>2, <1>3, <1>9 DEF Command, Labels, Reading
<1>4. /\ cmd' \in [Procs -> Command] /\ cmd'[p].at = "read"
      /\ cmd'[p].kb = nothing /\ cmd'[p].todo = todo
      /\ \A q \in Procs \ {p} : cmd'[q] = cmd[q]
  BY <1>1, <1>9, <1>10 DEF Command
<1>5. Types'
  BY <1>1, <1>4 DEF Inv, Types
<1>6. TopicsPlaced'
  BY <1>1, <1>2, <1>4 DEF Inv, TopicsPlaced, Placed, PlacedPage
<1>7. HasRead(p)'
  <2>1. {m \in Present(notes) : nothing[m] = None} = Present(notes)
    BY DEF Present, nothing
  <2> QED
    BY <1>1, <1>2, <1>4, <2>1 DEF HasRead, nothing, todo
<1>8. Progress(p)'
  BY <1>4, <1>7 DEF Progress, Reading, Writing
<1> QED
  BY <1>1, <1>4, <1>5, <1>6, <1>8, ByItself DEF Inv

LEMMA ReadNoteKeepsInv ==
  ASSUME Sizes, Inv, NEW p \in Procs, NEW t \in NoteTopics, NEW n \in Notes,
         ReadNote(p, t, n)
  PROVE  Inv'
<1>1. /\ cmd[p].at = "read" /\ <<t, n>> \in cmd[p].todo
      /\ alone' \in {None, p} /\ (alone' = p => alone = p)
      /\ UNCHANGED <<notes, dirs, pages, stats, log>>
  BY DEF ReadNote, files, IsNext, Acts, Sizes
<1>2. cmd[p] \in Command /\ cmd[p].kb \in KB /\ Placed(cmd[p].kb)
  BY <1>1 DEF Inv, Types, TopicsPlaced
<1>3. CASE notes[n] # None /\ notes[n].topic = t
  <2> DEFINE kb == [cmd[p].kb EXCEPT ![n] = notes[n]]
             todo == cmd[p].todo \ {<<t, n>>}
  <2>1. cmd' = [cmd EXCEPT ![p].kb[n] = notes[n], ![p].todo = @ \ {<<t, n>>}]
    BY <1>3 DEF ReadNote
  <2>2. kb \in KB /\ \A m \in Notes : kb[m] = IF m = n THEN notes[n] ELSE cmd[p].kb[m]
    BY <1>2 DEF Inv, Types, KB
  <2>3. /\ cmd' \in [Procs -> Command] /\ cmd'[p].at = "read"
        /\ cmd'[p].kb = kb /\ cmd'[p].todo = todo
        /\ \A q \in Procs \ {p} : cmd'[q] = cmd[q]
    BY <1>1, <1>2, <2>1, <2>2 DEF Inv, Types, Command
  <2>4. Types'
    BY <1>1, <2>3 DEF Inv, Types
  <2>5. Placed(kb)
    BY <1>2, <1>3, <2>2 DEF Inv, TopicsPlaced, Placed, Present
  <2>6. TopicsPlaced'
    BY <1>1, <2>2, <2>3, <2>5 DEF Inv, TopicsPlaced, Placed, PlacedPage
  <2>7. ASSUME alone = p PROVE HasRead(p)'
    <3>1. HasRead(p)
      BY <1>1, <2>7 DEF Inv, Alone, Progress
    <3>2. {m \in Present(notes) : kb[m] = None}
            = {m \in Present(notes) : cmd[p].kb[m] = None} \ {n}
      BY <1>3, <2>2 DEF Present
    <3>3. todo = {<<notes[m].topic, m>> : m \in {m \in Present(notes) : kb[m] = None}}
      BY <1>3, <3>1, <3>2 DEF HasRead
    <3>4. \A m \in Notes : kb[m] \in {None, notes[m]}
      BY <2>2, <3>1 DEF HasRead
    <3> QED
      BY <1>1, <2>2, <2>3, <3>3, <3>4 DEF HasRead
  <2>8. alone' = p => Progress(p)'
    BY <1>1, <2>3, <2>7 DEF Progress, Reading, Writing
  <2> QED
    BY <1>1, <2>3, <2>4, <2>6, <2>8, ByItself DEF Inv
<1>4. CASE ~(notes[n] # None /\ notes[n].topic = t)
  <2>1. alone # p
    <3> SUFFICES ASSUME alone = p PROVE FALSE
      OBVIOUS
    <3>1. HasRead(p)
      BY <1>1 DEF Inv, Alone, Progress
    <3>2. PICK m \in Present(notes) : <<t, n>> = <<notes[m].topic, m>>
      BY <1>1, <3>1 DEF HasRead
    <3> QED
      BY <1>4, <3>2 DEF Present
  <2>2. alone' = None
    BY <1>1, <2>1
  <2>3. cmd' = [cmd EXCEPT ![p] = Idle]
    BY <1>4 DEF ReadNote
  <2>4. Idle \in Command /\ Idle.at = "idle"
    BY DEF Idle, Command, Labels, Torn, Stats
  <2>5. Types'
    BY <1>1, <2>3, <2>4 DEF Inv, Types
  <2>6. TopicsPlaced'
    BY <1>1, <2>3, <2>4, PlacesStay DEF Inv, Types, TopicsPlaced, Placed
  <2> QED
    BY <2>2, <2>5, <2>6, Disturbed DEF Inv
<1> QED
  BY <1>3, <1>4

(* All notes read, and nobody has acted since: they are the notes.         *)
LEMMA GroupKeepsInv ==
  ASSUME Sizes, Inv, NEW p \in Procs, Group(p) PROVE Inv'
<1> DEFINE todo == Expected(cmd[p].kb, dirs, cmd[p].size)
<1>1. /\ cmd[p].at = "read" /\ cmd[p].todo = {}
      /\ alone' \in {None, p} /\ (alone' = p => alone = p)
      /\ UNCHANGED <<notes, dirs, pages, stats, log>>
      /\ cmd' = [cmd EXCEPT ![p].at = "pages", ![p].dirs = dirs, ![p].todo = todo]
  BY DEF Group, files, Acts, Sizes
<1>2. cmd[p] \in Command /\ cmd[p].kb \in KB /\ Placed(cmd[p].kb)
  BY <1>1 DEF Inv, Types, TopicsPlaced
<1>3. Grouped(cmd[p].kb, dirs) = dirs
  BY <1>2, Grouping DEF Placed, Inv, Types
<1>4. \A pp \in todo : pp \in Places \X PageNumbers /\ PlacedPage(pp)
  BY <1>3 DEF Expected, PlacedPage
<1>5. todo \in SUBSET Items
  BY <1>4 DEF Items
<1>6. /\ cmd' \in [Procs -> Command] /\ cmd'[p].at = "pages" /\ cmd'[p].dirs = dirs
      /\ cmd'[p].todo = todo /\ cmd'[p].kb = cmd[p].kb /\ cmd'[p].size = cmd[p].size
      /\ \A q \in Procs \ {p} : cmd'[q] = cmd[q]
  BY <1>1, <1>2, <1>5 DEF Inv, Types, Command, Labels, Writing
<1>7. Types'
  BY <1>1, <1>6 DEF Inv, Types
<1>8. TopicsPlaced'
  BY <1>1, <1>4, <1>6 DEF Inv, TopicsPlaced, Placed, PlacedPage
<1>9. ASSUME alone = p PROVE cmd[p].kb = notes
  <2>1. HasRead(p)
    BY <1>1, <1>9 DEF Inv, Alone, Progress
  <2>2. ASSUME NEW n \in Notes PROVE cmd[p].kb[n] = notes[n]
    <3>1. CASE notes[n] = None
      BY <2>1, <3>1 DEF HasRead
    <3>2. CASE notes[n] # None
      <4>1. <<notes[n].topic, n>> \notin cmd[p].todo
        BY <1>1
      <4>2. cmd[p].kb[n] # None
        BY <2>1, <3>2, <4>1 DEF HasRead, Present
      <4> QED
        BY <2>1, <4>2 DEF HasRead
    <3> QED
      BY <3>1, <3>2
  <2> QED
    BY <1>2, <2>2 DEF Inv, Types, KB
<1>10. alone' = p => Progress(p)'
  BY <1>1, <1>6, <1>9 DEF Progress, Reading, Writing, HasGrouped, HasPaged
<1> QED
  BY <1>1, <1>6, <1>7, <1>8, <1>10, ByItself DEF Inv

-------------------------------------------------------------------------------
(* Writing.                                                                *)

LEMMA WritePageKeepsInv ==
  ASSUME Sizes, Inv, NEW p \in Procs, NEW pp \in Places \X PageNumbers, WritePage(p, pp)
  PROVE  Inv'
<1> DEFINE page == Page(cmd[p].kb, cmd[p].dirs, cmd[p].size, pp)
           todo == cmd[p].todo \ {pp}
<1>1. /\ cmd[p].at = "pages" /\ pp \in cmd[p].todo
      /\ alone' \in {None, p} /\ (alone' = p => alone = p)
      /\ UNCHANGED <<notes, dirs, stats, log>>
      /\ pages' = [pages EXCEPT ![pp] = page]
      /\ cmd' = [cmd EXCEPT ![p].todo = @ \ {pp}]
  BY DEF WritePage, IsNext, Acts, Sizes
<1> HIDE DEF page
<1>2. cmd[p] \in Command
  BY DEF Inv, Types
<1>3. /\ cmd' \in [Procs -> Command] /\ cmd'[p].at = "pages" /\ cmd'[p].todo = todo
      /\ cmd'[p].kb = cmd[p].kb /\ cmd'[p].dirs = cmd[p].dirs /\ cmd'[p].size = cmd[p].size
      /\ \A q \in Procs \ {p} : cmd'[q] = cmd[q]
  BY <1>1, <1>2 DEF Inv, Types, Command
<1>4. /\ DOMAIN pages' = Places \X PageNumbers
      /\ \A x \in Places \X PageNumbers : pages'[x] = IF x = pp THEN page ELSE pages[x]
  BY <1>1 DEF Inv, Types
<1>5. Types'
  BY <1>1, <1>3, <1>4 DEF Inv, Types
<1>6. PlacedPage(pp)
  BY <1>1 DEF Inv, TopicsPlaced
<1>7. TopicsPlaced'
  BY <1>1, <1>3, <1>4, <1>6 DEF Inv, TopicsPlaced, Placed, PlacedPage
<1>8. ASSUME alone = p PROVE HasGrouped(p)' /\ HasPaged(p)'
  <2>1. HasGrouped(p) /\ HasPaged(p)
    BY <1>1, <1>8 DEF Inv, Alone, Progress, Writing
  <2>2. HasGrouped(p)'
    BY <1>1, <1>3, <2>1 DEF HasGrouped
  <2>3. ASSUME NEW x \in Expected(notes, dirs, cmd[p].size) \ todo
        PROVE  pages'[x] = Page(notes, dirs, cmd[p].size, x)
    <3>1. x \in Places \X PageNumbers
      BY DEF Expected
    <3>2. CASE x = pp
      BY <1>4, <2>1, <3>1, <3>2 DEF page, HasGrouped
    <3>3. CASE x # pp
      BY <1>4, <2>1, <3>1, <3>3 DEF HasPaged
    <3> QED
      BY <3>2, <3>3
  <2>4. HasPaged(p)'
    BY <1>1, <1>3, <2>3 DEF HasPaged
  <2> QED
    BY <2>2, <2>4
<1>9. alone' = p => Progress(p)'
  BY <1>1, <1>3, <1>8 DEF Progress, Reading, Writing
<1> QED
  BY <1>1, <1>3, <1>5, <1>7, <1>9, ByItself DEF Inv

(* With the last page written, the stale ones removed, the directory holds *)
(* what is rendered and nothing else.                                      *)
LEMMA UnlinkKeepsInv ==
  ASSUME Sizes, Inv, NEW p \in Procs, Unlink(p) PROVE Inv'
<1>1. /\ cmd[p].at = "pages" /\ cmd[p].todo = {}
      /\ alone' \in {None, p} /\ (alone' = p => alone = p)
      /\ UNCHANGED <<notes, dirs, stats, log>>
      /\ pages' = [pp \in DOMAIN pages |-> IF pp \in Stale(p) THEN None ELSE pages[pp]]
      /\ cmd' = [cmd EXCEPT ![p].at = "backlinks"]
  BY DEF Unlink, Acts, Goto, Sizes
<1>2. cmd[p] \in Command
  BY DEF Inv, Types
<1>3. /\ cmd' \in [Procs -> Command] /\ cmd'[p].at = "backlinks"
      /\ cmd'[p].kb = cmd[p].kb /\ cmd'[p].dirs = cmd[p].dirs /\ cmd'[p].size = cmd[p].size
      /\ \A q \in Procs \ {p} : cmd'[q] = cmd[q]
  BY <1>1, <1>2 DEF Inv, Types, Command, Labels, Writing
<1>4. /\ DOMAIN pages' = Places \X PageNumbers
      /\ \A x \in Places \X PageNumbers :
           pages'[x] = IF x \in Stale(p) THEN None ELSE pages[x]
  BY <1>1 DEF Inv, Types
<1>5. Types'
  BY <1>1, <1>3, <1>4 DEF Inv, Types
<1>6. TopicsPlaced'
  BY <1>1, <1>3, <1>4 DEF Inv, TopicsPlaced, Placed, PlacedPage
<1>7. ASSUME alone = p PROVE HasGrouped(p)' /\ pages' = Rendered(notes, dirs, cmd[p].size)
  <2>1. HasGrouped(p) /\ HasPaged(p)
    BY <1>1, <1>7 DEF Inv, Alone, Progress, Writing
  <2>2. HasGrouped(p)'
    BY <1>1, <1>3, <2>1 DEF HasGrouped
  <2> DEFINE wanted == Expected(notes, dirs, cmd[p].size)
             shown(x) == Page(notes, dirs, cmd[p].size, x)
  <2>3. Stale(p) = {x \in Places \X PageNumbers :
                      pages[x] # None /\ x[2] > 1 /\ x \notin wanted}
    BY <2>1 DEF Stale, HasGrouped
  <2>4. \A x \in wanted : pages[x] = shown(x)
    BY <1>1, <2>1 DEF HasPaged
  <2>5. \A x \in Places \X PageNumbers : pages[x] # None /\ x \notin wanted => x[2] > 1
    <3> SUFFICES ASSUME NEW x \in Places \X PageNumbers, pages[x] # None, ~(x[2] > 1)
                 PROVE  x \in wanted
      OBVIOUS
    <3>1. x[1] \in {Top} \cup dirs
      BY DEF Inv, TopicsPlaced, PlacedPage
    <3> QED
      BY <1>2, <3>1, FirstPageExpected DEF Inv, Types, Command
  <2> HIDE DEF wanted, shown
  <2>6. \A x \in Places \X PageNumbers : pages'[x] = IF x \in wanted THEN shown(x) ELSE None
    BY <1>4, <2>3, <2>4, <2>5
  <2>7. pages' = [x \in Places \X PageNumbers |-> IF x \in wanted THEN shown(x) ELSE None]
    BY <1>1, <1>4, <2>6
  <2> QED
    BY <2>2, <2>7 DEF Rendered, wanted, shown
<1>8. alone' = p => Progress(p)'
  BY <1>1, <1>3, <1>7 DEF Progress, Reading, Writing
<1> QED
  BY <1>1, <1>3, <1>5, <1>6, <1>8, ByItself DEF Inv

(* The artifacts that are one file each.                                   *)
LEMMA MoveOn ==
  ASSUME Sizes, Inv, NEW p \in Procs, NEW label \in Labels \ {"read", "pages", "idle"},
         Goto(p, label), Acts(p) \/ alone' = None,
         UNCHANGED <<notes, dirs, pages>>, stats' \in Stats, log' \in Nat
  PROVE  /\ Types' /\ TopicsPlaced'
         /\ alone' \in {None, p} /\ (alone' = p => alone = p)
         /\ cmd'[p].at = label /\ cmd'[p].kb = cmd[p].kb /\ cmd'[p].dirs = cmd[p].dirs
         /\ cmd'[p].size = cmd[p].size
<1>1. cmd[p] \in Command
  BY DEF Inv, Types
<1>2. /\ cmd' \in [Procs -> Command] /\ cmd'[p].at = label
      /\ cmd'[p].kb = cmd[p].kb /\ cmd'[p].dirs = cmd[p].dirs /\ cmd'[p].size = cmd[p].size
      /\ \A q \in Procs \ {p} : cmd'[q] = cmd[q]
  BY <1>1 DEF Inv, Types, Command, Goto
<1>3. Types'
  BY <1>2 DEF Inv, Types
<1>4. TopicsPlaced'
  BY <1>2, PlacesStay DEF Inv, TopicsPlaced, Placed
<1> QED
  BY <1>2, <1>3, <1>4 DEF Acts, Sizes

LEMMA WriteFileKeepsInv ==
  ASSUME Sizes, Inv, NEW p \in Procs, WriteBacklinks(p) \/ WriteStats(p) \/ WriteFts(p)
  PROVE  Inv'
<1>1. /\ {"stats", "fts", "manifest"} \subseteq Labels \ {"read", "pages", "idle"}
      /\ stats \in Stats /\ log \in Nat /\ cmd[p] \in Command
  BY DEF Labels, Writing, Inv, Types
<1>2. CASE WriteBacklinks(p)
  <2>1. /\ cmd[p].at = "backlinks" /\ Goto(p, "stats") /\ Acts(p)
        /\ UNCHANGED <<notes, dirs, pages, stats, log>>
        /\ backlinks' = BacklinksOf(cmd[p].kb)
    BY <1>2 DEF WriteBacklinks
  <2>2. /\ Types' /\ TopicsPlaced'
        /\ alone' \in {None, p} /\ (alone' = p => alone = p)
        /\ cmd'[p].at = "stats" /\ cmd'[p].kb = cmd[p].kb /\ cmd'[p].dirs = cmd[p].dirs
        /\ cmd'[p].size = cmd[p].size
    BY <1>1, <2>1, MoveOn
  <2>3. alone' = p => Progress(p)'
    BY <2>1, <2>2 DEF Inv, Alone, Progress, Writing, HasGrouped
  <2> QED
    BY <2>2, <2>3, ByItself DEF Inv
<1>3. CASE WriteStats(p)
  <2>1. /\ cmd[p].at = "stats" /\ Goto(p, "fts") /\ Acts(p)
        /\ UNCHANGED <<notes, dirs, pages, backlinks, log>>
        /\ stats' = StatsOf(cmd[p].kb, cmd[p].dirs, log)
    BY <1>3 DEF WriteStats
  <2>2. stats' \in Stats
    BY <1>1, <2>1, StatsAreStats DEF Command
  <2>3. /\ Types' /\ TopicsPlaced'
        /\ alone' \in {None, p} /\ (alone' = p => alone = p)
        /\ cmd'[p].at = "fts" /\ cmd'[p].kb = cmd[p].kb /\ cmd'[p].dirs = cmd[p].dirs
        /\ cmd'[p].size = cmd[p].size
    BY <1>1, <2>1, <2>2, MoveOn
  <2>4. alone' = p => Progress(p)'
    BY <2>1, <2>3 DEF Inv, Alone, Progress, Writing, HasGrouped
  <2> QED
    BY <2>3, <2>4, ByItself DEF Inv
<1>4. CASE WriteFts(p)
  <2>1. /\ cmd[p].at = "fts" /\ Goto(p, "manifest") /\ Acts(p)
        /\ UNCHANGED <<notes, dirs, pages, backlinks, stats, log>>
        /\ fts' = cmd[p].kb
    BY <1>4 DEF WriteFts
  <2>2. /\ Types' /\ TopicsPlaced'
        /\ alone' \in {None, p} /\ (alone' = p => alone = p)
        /\ cmd'[p].at = "manifest" /\ cmd'[p].kb = cmd[p].kb /\ cmd'[p].dirs = cmd[p].dirs
        /\ cmd'[p].size = cmd[p].size
    BY <1>1, <2>1, MoveOn
  <2>3. alone' = p => Progress(p)'
    BY <2>1, <2>2 DEF Inv, Alone, Progress, Writing, HasGrouped
  <2> QED
    BY <2>2, <2>3, ByItself DEF Inv
<1> QED
  BY <1>2, <1>3, <1>4

(* The manifest comes last: all others are in place.                       *)
LEMMA WriteManifestKeepsInv ==
  ASSUME Sizes, Inv, NEW p \in Procs, WriteManifest(p) PROVE Inv'
<1>1. /\ cmd[p].at = "manifest" /\ cmd' = [cmd EXCEPT ![p] = Idle]
      /\ manifest' = ManifestOf(cmd[p].kb, cmd[p].dirs, cmd[p].size)
      /\ alone' \in {None, p} /\ (alone' = p => alone = p)
      /\ UNCHANGED <<notes, dirs, pages, backlinks, stats, fts, log>>
  BY DEF WriteManifest, Acts, Sizes
<1>2. /\ cmd[p] \in Command /\ Idle \in Command /\ Idle.at = "idle"
  BY DEF Idle, Command, Labels, Torn, Stats, Inv, Types
<1>3. /\ cmd' \in [Procs -> Command] /\ cmd'[p] = Idle
      /\ \A q \in Procs \ {p} : cmd'[q] = cmd[q]
  BY <1>1, <1>2 DEF Inv, Types
<1>4. Types'
  BY <1>1, <1>3 DEF Inv, Types
<1>5. TopicsPlaced'
  BY <1>1, <1>2, <1>3, PlacesStay DEF Inv, TopicsPlaced, Placed
<1>6. Alone'
  BY <1>1, <1>2, <1>3 DEF Alone, Progress, Reading, Writing, Sizes
<1>7. Repairs'
  <2>1. cmd[p].size \in {PageSize, OtherSize}
    BY <1>2 DEF Command
  <2>2. alone = p => Progress(p)
    BY DEF Inv, Alone
  <2>3. ASSUME alone = p
        PROVE  /\ backlinks = BacklinksOf(notes) /\ stats = StatsOf(notes, dirs, log)
               /\ fts = notes /\ pages = Rendered(notes, dirs, cmd[p].size)
               /\ manifest' = ManifestOf(notes, dirs, cmd[p].size)
    BY <1>1, <2>2, <2>3 DEF Progress, Writing, HasGrouped
  <2> QED
    BY <1>1, <2>1, <2>3 DEF Repairs, Sizes
<1> QED
  BY <1>4, <1>5, <1>6, <1>7 DEF Inv

-------------------------------------------------------------------------------
(* Searches, and the end of a command.                                     *)

LEMMA SearchKeepsInv ==
  ASSUME Sizes, Inv, NEW p \in Procs,
         Search(p) \/ LoadStats(p) \/ TruncateStats(p) \/ RefreshStats(p) \/ Stop(p)
  PROVE  Inv'
<1>1. /\ alone' = None /\ UNCHANGED <<notes, dirs, pages>>
  BY DEF Search, LoadStats, TruncateStats, RefreshStats, Stop, files
<1>2. /\ cmd[p] \in Command /\ Idle \in Command /\ Idle.at = "idle"
      /\ log \in Nat /\ stats \in Stats /\ Torn \in Stats
      /\ {"load", "truncate", "refresh"} \subseteq Labels
  BY DEF Idle, Command, Labels, Searching, Torn, Stats, Inv, Types
<1>3. ASSUME cmd' \in [Procs -> Command], \A q \in Procs \ {p} : cmd'[q] = cmd[q],
             cmd'[p].at \notin {"read", "pages"}, stats' \in Stats, log' \in Nat
      PROVE  Inv'
  <2>1. Types'
    BY <1>1, <1>3 DEF Inv, Types
  <2>2. TopicsPlaced'
    BY <1>1, <1>3, PlacesStay DEF Inv, TopicsPlaced, Placed
  <2> QED
    BY <1>1, <2>1, <2>2, Disturbed DEF Inv
<1>4. CASE Search(p)
  <2>1. cmd' \in [Procs -> Command] /\ cmd'[p].at = "load"
        /\ \A q \in Procs \ {p} : cmd'[q] = cmd[q]
    BY <1>2, <1>4 DEF Search, Goto, Command, Inv, Types
  <2> QED
    BY <1>2, <1>3, <1>4, <2>1 DEF Search, files
<1>5. CASE LoadStats(p)
  <2>1. [stats EXCEPT !.used = log] \in Stats
    BY <1>2 DEF Stats
  <2>2. cmd' \in [Procs -> Command] /\ cmd'[p].at = "truncate"
        /\ \A q \in Procs \ {p} : cmd'[q] = cmd[q]
    BY <1>2, <1>5, <2>1 DEF LoadStats, Command, Inv, Types
  <2> QED
    BY <1>2, <1>3, <1>5, <2>2 DEF LoadStats, files
<1>6. CASE TruncateStats(p)
  <2>1. cmd' \in [Procs -> Command] /\ cmd'[p].at = "refresh"
        /\ \A q \in Procs \ {p} : cmd'[q] = cmd[q]
    BY <1>2, <1>6 DEF TruncateStats, Goto, Command, Inv, Types
  <2> QED
    BY <1>2, <1>3, <1>6, <2>1 DEF TruncateStats
<1>7. CASE RefreshStats(p) \/ Stop(p)
  <2>1. cmd' = [cmd EXCEPT ![p] = Idle] /\ stats' \in {stats, cmd[p].stats} /\ log' = log
    BY <1>7 DEF RefreshStats, Stop, files
  <2>2. cmd' \in [Procs -> Command] /\ cmd'[p].at = "idle"
        /\ \A q \in Procs \ {p} : cmd'[q] = cmd[q]
    BY <1>2, <2>1 DEF Inv, Types
  <2>3. cmd[p].stats \in Stats
    BY <1>2 DEF Command
  <2> QED
    BY <1>2, <1>3, <2>1, <2>2, <2>3
<1> QED
  BY <1>4, <1>5, <1>6, <1>7

-------------------------------------------------------------------------------
LEMMA NextInv ==
  ASSUME Sizes, Inv, [Next]_vars PROVE Inv'
<1>1. CASE EditByHand
  BY <1>1, EditByHandKeepsInv
<1>2. ASSUME NEW p \in Procs, Maintain(p) \/ ChangeByCommand(p) \/ List(p) \/ Group(p)
      PROVE  Inv'
  BY <1>2, MaintainKeepsInv, ChangeByCommandKeepsInv, ListKeepsInv, GroupKeepsInv
<1>3. ASSUME NEW p \in Procs, \E t \in NoteTopics, n \in Notes : ReadNote(p, t, n)
      PROVE  Inv'
  BY <1>3, ReadNoteKeepsInv
<1>4. ASSUME NEW p \in Procs, \E pp \in Places \X PageNumbers : WritePage(p, pp)
      PROVE  Inv'
  BY <1>4, WritePageKeepsInv
<1>5. ASSUME NEW p \in Procs,
             \/ Unlink(p) \/ WriteManifest(p)
             \/ WriteBacklinks(p) \/ WriteStats(p) \/ WriteFts(p)
      PROVE  Inv'
  BY <1>5, UnlinkKeepsInv, WriteFileKeepsInv, WriteManifestKeepsInv
<1>6. ASSUME NEW p \in Procs,
             Search(p) \/ LoadStats(p) \/ TruncateStats(p) \/ RefreshStats(p) \/ Stop(p)
      PROVE  Inv'
  BY <1>6, SearchKeepsInv
<1>7. CASE UNCHANGED vars
  BY <1>7 DEF vars, files, Inv, Types, TopicsPlaced, Placed, PlacedPage, Alone, Progress,
     HasRead, HasGrouped, HasPaged, Repairs, Present
<1> QED
  BY <1>1, <1>2, <1>3, <1>4, <1>5, <1>6, <1>7 DEF Next

(* A reindex that nobody disturbs leaves every artifact as the notes have  *)
(* it, whatever other commands have left behind, wherever they were killed *)
(* (reindex_data_dir of indexing.py).                                      *)
THEOREM ReindexRepairs ==
  ASSUME Sizes
  PROVE  Spec => []Repairs
<1>1. Init => Inv
  BY InitInv
<1>2. Inv /\ [Next]_vars => Inv'
  BY NextInv
<1>3. Inv => Repairs
  BY DEF Inv
<1> QED
  BY <1>1, <1>2, <1>3, PTL DEF Spec

-------------------------------------------------------------------------------
(* Types of what Repairs says nothing of, and of what is read.             *)

HasNotes(label) == label \in {"read"} \cup Writing

Known ==
  /\ fts \in KB
  /\ backlinks \in [Notes -> SUBSET Notes]
  /\ log \in 0..Searches /\ changes \in 0..Changes
  /\ alone \in Procs \cup {None}
  /\ \A p \in Procs : HasNotes(cmd[p].at) => cmd[p].kb \in KB

LEMMA BacklinksAreNotes == \A kb : BacklinksOf(kb) \in [Notes -> SUBSET Notes]
BY DEF BacklinksOf, Naming, Present

LEMMA InitKnown ==
  ASSUME Sizes, Init PROVE Known
BY BacklinksAreNotes DEF Init, Known, Sizes, Idle, HasNotes, Writing

(* A step of p that changes neither the index nor the backlinks.           *)
LEMMA KnownStays ==
  ASSUME Known, NEW p \in Procs, NEW new,
         cmd \in [Procs -> Command], cmd' = [cmd EXCEPT ![p] = new],
         HasNotes(new.at) => new.kb \in KB,
         UNCHANGED <<fts, backlinks>>, log' \in 0..Searches, changes' \in 0..Changes,
         alone' \in {None, p, alone}
  PROVE  Known'
<1>1. \A q \in Procs : cmd'[q] = IF q = p THEN new ELSE cmd[q]
  OBVIOUS
<1> QED
  BY <1>1 DEF Known

LEMMA NextKnown ==
  ASSUME Sizes, Inv, Known, [Next]_vars PROVE Known'
<1>1. CASE EditByHand
  BY <1>1 DEF EditByHand, Change, files, Known, Sizes
<1>2. ASSUME NEW p \in Procs,
             \/ Maintain(p) \/ ChangeByCommand(p)
             \/ Search(p) \/ LoadStats(p) \/ TruncateStats(p) \/ RefreshStats(p) \/ Stop(p)
      PROVE  Known'
  <2>1. /\ cmd \in [Procs -> Command] /\ Searches \in Nat /\ Changes \in Nat
        /\ log \in 0..Searches /\ changes \in 0..Changes
    BY DEF Sizes, Inv, Types, Known
  <2>2. ~HasNotes(cmd'[p].at) /\ \A q \in Procs \ {p} : cmd'[q] = cmd[q]
    <3>1. cmd[p] \in Command
      BY <2>1
    <3> QED
      BY <1>2, <2>1, <3>1 DEF Maintain, ChangeByCommand, Search, LoadStats, TruncateStats,
         RefreshStats, Stop, Goto, HasNotes, Writing, Idle, Command
  <2>3. /\ UNCHANGED <<fts, backlinks>>
        /\ log' \in 0..Searches /\ changes' \in 0..Changes
        /\ alone' \in {None, p, alone}
    BY <1>2, <2>1 DEF Maintain, ChangeByCommand, Change, Search, LoadStats, TruncateStats,
       RefreshStats, Stop, Acts, files
  <2> QED
    BY <2>2, <2>3 DEF Known
<1>3. ASSUME NEW p \in Procs, List(p) PROVE Known'
  <2> DEFINE nothing == [n \in Notes |-> None]
             todo == {<<notes[n].topic, n>> : n \in Present(notes)}
  <2>1. cmd \in [Procs -> Command] /\ cmd[p] \in Command
    BY DEF Inv, Types
  <2>2. /\ cmd' = [cmd EXCEPT ![p] = [cmd[p] EXCEPT !.at = "read", !.kb = nothing, !.todo = todo]]
        /\ UNCHANGED <<fts, backlinks, log, changes>> /\ alone' \in {None, p}
    BY <1>3, <2>1 DEF List, files
  <2>3. nothing \in KB
    BY DEF KB
  <2> HIDE DEF nothing, todo
  <2>4. [cmd[p] EXCEPT !.at = "read", !.kb = nothing, !.todo = todo].kb = nothing
    BY <2>1 DEF Command
  <2> QED
    BY <2>1, <2>2, <2>3, <2>4, KnownStays DEF Known
<1>4. ASSUME NEW p \in Procs, NEW t \in NoteTopics, NEW n \in Notes, ReadNote(p, t, n)
      PROVE  Known'
  <2>1. /\ cmd \in [Procs -> Command] /\ cmd[p] \in Command
        /\ cmd[p].kb \in KB /\ notes \in KB
    BY <1>4 DEF ReadNote, Inv, Types, TopicsPlaced
  <2>2. /\ UNCHANGED <<fts, backlinks, log, changes>> /\ alone' \in {None, p}
    BY <1>4 DEF ReadNote, files, Acts
  <2>3. CASE notes[n] # None /\ notes[n].topic = t
    <3> DEFINE kb == [cmd[p].kb EXCEPT ![n] = notes[n]]
               todo == cmd[p].todo \ {<<t, n>>}
    <3>1. cmd' = [cmd EXCEPT ![p] = [cmd[p] EXCEPT !.kb = kb, !.todo = todo]]
      BY <1>4, <2>1, <2>3 DEF ReadNote
    <3>2. kb \in KB
      BY <2>1 DEF KB
    <3> HIDE DEF kb, todo
    <3>3. [cmd[p] EXCEPT !.kb = kb, !.todo = todo].kb = kb
      BY <2>1 DEF Command
    <3> QED
      BY <2>1, <2>2, <3>1, <3>2, <3>3, KnownStays DEF Known
  <2>4. CASE ~(notes[n] # None /\ notes[n].topic = t)
    <3>1. cmd' = [cmd EXCEPT ![p] = Idle]
      BY <1>4, <2>4 DEF ReadNote
    <3>2. ~HasNotes(Idle.at)
      BY DEF HasNotes, Idle, Writing
    <3> QED
      BY <2>1, <2>2, <3>1, <3>2, KnownStays DEF Known
  <2> QED
    BY <2>3, <2>4
<1>5. ASSUME NEW p \in Procs,
             \/ Group(p) \/ Unlink(p)
             \/ WriteBacklinks(p) \/ WriteStats(p) \/ WriteFts(p) \/ WriteManifest(p)
             \/ \E pp \in Places \X PageNumbers : WritePage(p, pp)
      PROVE  Known'
  <2>1. /\ cmd \in [Procs -> Command] /\ cmd[p] \in Command
        /\ cmd[p].kb \in KB
    BY <1>5 DEF Inv, Types, Known, HasNotes, Writing, Group, Unlink, WriteBacklinks,
       WriteStats, WriteFts, WriteManifest, WritePage
  <2>2. /\ UNCHANGED <<log, changes>> /\ alone' \in {None, p}
        /\ fts' \in {fts, cmd[p].kb} /\ backlinks' \in {backlinks, BacklinksOf(cmd[p].kb)}
    BY <1>5 DEF Group, Unlink, WriteBacklinks, WriteStats, WriteFts, WriteManifest,
       WritePage, files, Acts
  <2>3. /\ cmd' \in [Procs -> Command]
        /\ \A q \in Procs : HasNotes(cmd'[q].at) => cmd'[q].kb \in {cmd[q].kb, cmd[p].kb}
        /\ \A q \in Procs \ {p} : cmd'[q] = cmd[q]
    <3>1. cmd' \in [Procs -> Command]
      BY NextInv DEF Inv, Types
    <3> QED
      BY <1>5, <2>1, <3>1 DEF Group, Unlink, WriteBacklinks, WriteStats, WriteFts,
         WriteManifest, WritePage, Goto, HasNotes, Writing, Idle, Command
  <2> QED
    BY <2>1, <2>2, <2>3, BacklinksAreNotes DEF Known
<1>6. CASE UNCHANGED vars
  BY <1>6 DEF vars, files, Known
<1> QED
  BY <1>1, <1>2, <1>3, <1>4, <1>5, <1>6 DEF Next

LEMMA KnownAlways ==
  ASSUME Sizes PROVE Spec => [](Inv /\ Known)
<1>1. Init => Inv /\ Known
  BY InitInv, InitKnown
<1>2. Inv /\ Known /\ [Next]_vars => (Inv /\ Known)'
  BY NextInv, NextKnown
<1> QED
  BY <1>1, <1>2, PTL DEF Spec

(* Every artifact is of its type, whatever processes overlap.              *)
THEOREM TypesHold ==
  ASSUME Sizes PROVE Spec => []TypeOK
<1>1. Inv /\ Known => TypeOK
  BY DEF Inv, Types, Known, TypeOK
<1> QED
  BY <1>1, KnownAlways, PTL

-------------------------------------------------------------------------------
(* A `kb reindex` that nobody disturbs ends with nothing for kb doctor to  *)
(* find: what doctor expects of pages and manifest (doctor.py) is what the *)
(* writers of indexing.py have left.                                       *)
THEOREM ReindexQuiets ==
  ASSUME Sizes PROVE Spec => ReindexQuietsDoctor
<1>1. ASSUME Inv, NEW p \in Procs, WriteManifest(p), alone = p, cmd[p].size = PageSize
      PROVE  DoctorIsSilent'
  <2>1. /\ pages = Rendered(notes, dirs, PageSize)
        /\ backlinks = BacklinksOf(notes) /\ fts = notes
        /\ cmd[p].kb = notes /\ cmd[p].dirs = dirs
    BY <1>1 DEF Inv, Alone, Progress, Writing, HasGrouped, WriteManifest
  <2>2. /\ manifest' = ManifestOf(notes, dirs, PageSize)
        /\ UNCHANGED <<notes, dirs, pages, backlinks, fts>>
    BY <1>1, <2>1 DEF WriteManifest
  <2>3. PagesCurrent
    BY <2>1 DEF PagesCurrent, Rendered, Expected
  <2>4. PagesCurrent'
    <3>1. Expected(notes, dirs, PageSize)' = Expected(notes, dirs, PageSize)
      BY <2>2 DEF Expected, Listed, Grouped, InTopic, Present
    <3>2. ASSUME NEW pp
          PROVE  Page(notes, dirs, PageSize, pp)' = Page(notes, dirs, PageSize, pp)
      BY <2>2 DEF Page, Listed, Grouped, InTopic, Present, Row
    <3> QED
      BY <2>2, <2>3, <3>1, <3>2 DEF PagesCurrent
  <2>5. FtsCurrent'
    BY <2>1, <2>2 DEF FtsCurrent, Present
  <2>6. backlinks' = BacklinksOf(notes)' /\ manifest' = ManifestOf(notes, dirs, PageSize)'
    BY <2>1, <2>2 DEF BacklinksOf, Naming, ManifestOf, Expected, Listed, Grouped, InTopic,
       Present
  <2> QED
    BY <2>4, <2>5, <2>6 DEF DoctorIsSilent
<1>2. Inv /\ [Next]_vars =>
        [\A p \in Procs :
           WriteManifest(p) /\ alone = p /\ cmd[p].size = PageSize => DoctorIsSilent']_vars
  BY <1>1
<1> QED
  BY <1>2, KnownAlways, PTL DEF Spec, ReindexQuietsDoctor
===============================================================================
