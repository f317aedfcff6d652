-------------------------- MODULE ReviewQueueProofs --------------------------
(***************************************************************************)
(* What ReviewQueue keeps for every set of items, notes and processes: the *)
(* types and the ids however many commands run at once, the rest when they *)
(* run one at a time.                                                      *)
(***************************************************************************)
EXTENDS ReviewQueue, TLAPS

USE KindAssumption, NumberAssumption, LimitAssumption, SwitchAssumption, NoneAssumption

-----------------------------------------------------------------------------
(* The steps, by what they change.                                         *)

(* No two items of a file share an id, and each number has three digits.   *)
Numbered(file) ==
  /\ \A k \in Keys : file[k] # None => file[k].number <= IdLimit
  /\ \A j, k \in Keys : /\ file[j] # None /\ file[k] # None
                        /\ IdOf(j, file[j]) = IdOf(k, file[k])
                        => j = k

(* The new item of k keeps the id it has in the file.                      *)
KeepsId(file, k, item) ==
  file[k] # None => item.number = file[k].number /\ item.created = file[k].created

(* The new item of k turns its question as it may be turned.               *)
Turns(file, k, item) ==
  /\ file[k] = None => item.status \in Open
  /\ file[k] # None /\ file[k].status = "rejected" =>
       item.status = "pending" /\ k \in Recurring
  /\ file[k] # None /\ file[k].status = "accepted" => Kind[k] = "hygiene"
  /\ item.status = "accepted" => Kind[k] # "hygiene" /\ file[k] # None

(* What a command has decided when it goes on to a label.                  *)
Decided(k, item, label) ==
  /\ item \in Item /\ KeepsId(items, k, item) /\ Turns(items, k, item)
  /\ Numbered(items) => Numbered([items EXCEPT ![k] = item])
  /\ \/ label = "write" /\ (item.status = "accepted" => Kind[k] = "searchmiss")
     \/ label = "create" /\ Kind[k] = "classification"
     \/ label = "body" /\ Kind[k] = "merge" /\ TargetsOf[k] # {}
     \/ label = "ack" /\ Kind[k] = "dispute" /\ TargetsOf[k] # {}
  /\ label # "write" => IsOpen(k) /\ item.status = "accepted"

(* A command begins with an item it has decided on.                        *)
Begins(p) == \E k \in Keys, item \in Item, label \in Labels :
               Decided(k, item, label) /\ Begin(p, k, item, label)

(* The statuses are different, and so are the kinds.                       *)
LEMMA Constants ==
  /\ None \notin Item
  /\ \A k \in Keys : Kind[k] \in Kinds /\ TargetsOf[k] \subseteq Targets
  /\ Labels = {"idle", "create", "body", "source", "ack", "write"}
BY DEF Labels

(* An item that takes over the id of an earlier one leaves the ids as they *)
(* are.                                                                    *)
LEMMA SameNumber ==
  ASSUME items \in [Keys -> Item \cup {None}], NEW k \in Keys, items[k] # None,
         NEW item \in Item,
         item.number = items[k].number, item.created = items[k].created
  PROVE  KeepsId(items, k, item) /\ (Numbered(items) => Numbered([items EXCEPT ![k] = item]))
<1> DEFINE file == [items EXCEPT ![k] = item]
<1>1. \A j \in Keys : file[j] = IF j = k THEN item ELSE items[j]
  OBVIOUS
<1>2. \A j \in Keys : /\ file[j] # None <=> items[j] # None
                      /\ file[j].number = items[j].number
                      /\ file[j].created = items[j].created
  BY <1>1
<1>3. Numbered(items) => Numbered(file)
  BY <1>2 DEF Numbered, IdOf
<1>4. QED
  BY <1>3 DEF KeepsId

(* A new item gets a number that no item of its queue and day has.         *)
LEMMA NewNumber ==
  ASSUME items \in [Keys -> Item \cup {None}], day \in Nat, NEW p, NEW k \in Keys,
         NEW facts \in Facts \cup {None}, ~Known(k), Append(p, k, facts)
  PROVE  Begins(p)
<1>1. PICK n \in 0..ItemLimit :
        IsNextNumber(n, k) /\ Begin(p, k, NewItem(n, facts), "write")
  BY DEF Append
<1> DEFINE item == NewItem(n, facts)
           file == [items EXCEPT ![k] = item]
<1>2. item \in Item
  BY <1>1 DEF NewItem, Item, Open, IsNextNumber
<1>3. item.number = n /\ item.created = day /\ item.status = "pending"
  BY DEF NewItem
<1>4. KeepsId(items, k, item)
  BY DEF KeepsId, Known
<1>5. ASSUME Numbered(items) PROVE Numbered(file)
  <2>1. \A j \in Keys : file[j] = IF j = k THEN item ELSE items[j]
    OBVIOUS
  <2>2. ASSUME NEW j \in Keys, j # k, items[j] # None
        PROVE  IdOf(j, items[j]) # IdOf(k, item)
    BY <1>1, <1>3, <1>5, <2>2 DEF IdOf, Numbered, IsNextNumber, Numbers
  <2>3. \A j \in Keys : file[j] # None => file[j].number <= IdLimit
    BY <1>1, <1>3, <1>5, <2>1 DEF Numbered
  <2>4. QED
    BY <1>5, <2>1, <2>2, <2>3 DEF Numbered
<1>6. Decided(k, item, "write")
  BY <1>2, <1>3, <1>4, <1>5 DEF Decided, Turns, Known, Open
<1>7. QED
  BY <1>1, <1>2, <1>6, Constants DEF Begins

(* Every command that scans or decides begins so.                          *)
LEMMA Beginnings ==
  ASSUME items \in [Keys -> Item \cup {None}], day \in Nat, NEW p, NEW k \in Keys,
         Queue(p, k) \/ Decide(p, k)
  PROVE  Begins(p)
<1> DEFINE Alike(item) == /\ items[k] # None /\ item \in Item
                          /\ item.number = items[k].number
                          /\ item.created = items[k].created
<1>1. ASSUME NEW item, Alike(item), item.status # "accepted", Begin(p, k, item, "write"),
             Turns(items, k, item)
      PROVE  Begins(p)
  <2>1. Decided(k, item, "write")
    BY <1>1, SameNumber DEF Decided
  <2>2. QED
    BY <1>1, <2>1, Constants DEF Begins
<1>2. CASE Add(p, k)
  BY <1>2, NewNumber DEF Add
<1>3. ASSUME NEW facts \in Facts, UpsertSearchMiss(p, k, facts) PROVE Begins(p)
  <2>1. CASE ~Known(k) /\ Append(p, k, facts)
    BY <2>1, NewNumber
  <2>2. CASE IsOpen(k) /\ Begin(p, k, Refreshed(k, facts), "write")
    <3>1. Alike(Refreshed(k, facts)) /\ Refreshed(k, facts).status # "accepted"
      BY <2>2 DEF Refreshed, IsOpen, Open, Item
    <3>2. Turns(items, k, Refreshed(k, facts))
      BY <2>2, <3>1 DEF Turns, IsOpen, Open
    <3>3. QED
      BY <1>1, <2>2, <3>1, <3>2
  <2>3. QED
    BY <1>3, <2>1, <2>2 DEF UpsertSearchMiss
<1>4. ASSUME NEW facts \in Facts, UpsertHygiene(p, k, facts) PROVE Begins(p)
  <2> DEFINE item == [Refreshed(k, facts) EXCEPT
                        !.status = IF @ \in Resolved THEN "pending" ELSE @]
  <2>1. CASE ~Known(k) /\ Append(p, k, facts)
    BY <2>1, NewNumber
  <2>2. CASE Known(k) /\ Begin(p, k, item, "write")
    <3>1. Refreshed(k, facts) \in Item
      BY <2>2 DEF Refreshed, Known, Item
    <3>2. Alike(item) /\ item.status # "accepted"
      BY <2>2, <3>1 DEF Refreshed, Known, Open, Resolved, Item
    <3>3. k \in Recurring /\ Kind[k] = "hygiene"
      BY <1>4 DEF UpsertHygiene, Recurring
    <3>4. items[k].status = "rejected" => item.status = "pending"
      BY <2>2, <3>1 DEF Refreshed, Known, Resolved, Item
    <3>5. Turns(items, k, item)
      BY <3>2, <3>3, <3>4 DEF Turns
    <3>6. QED
      BY <1>1, <2>2, <3>2, <3>5
  <2>3. QED
    BY <1>4, <2>1, <2>2 DEF UpsertHygiene
<1>5. ASSUME NEW facts \in Facts, QueueCluster(p, k, facts) PROVE Begins(p)
  <2> DEFINE item == [Refreshed(k, facts) EXCEPT !.status = "pending"]
  <2>1. CASE ~Known(k) /\ Append(p, k, facts)
    BY <2>1, NewNumber
  <2>2. CASE Is(k, "rejected") /\ Begin(p, k, item, "write")
    <3>1. Alike(item) /\ item.status # "accepted"
      BY <2>2 DEF Refreshed, Is, Open, Resolved, Item
    <3>2. item.status = "pending" /\ k \in Recurring
      BY <1>5, <2>2 DEF Refreshed, Is, Item, QueueCluster, Recurring
    <3>3. Turns(items, k, item)
      BY <2>2, <3>1, <3>2 DEF Turns, Is
    <3>4. QED
      BY <1>1, <2>2, <3>1, <3>3
  <2>3. QED
    BY <1>5, <2>1, <2>2 DEF QueueCluster
<1>6. ASSUME NEW status \in Open \cup Resolved, NEW due \in Nat \cup {None}, IsOpen(k)
      PROVE  Alike(Moved(k, status, due)) /\ Moved(k, status, due).status = status
  BY <1>6 DEF Moved, IsOpen, Item
<1>7. CASE RejectItem(p, k)
  <2>1. IsOpen(k) /\ Begin(p, k, Moved(k, "rejected", None), "write")
    BY <1>7 DEF RejectItem
  <2>2. Alike(Moved(k, "rejected", None)) /\ Moved(k, "rejected", None).status = "rejected"
    BY <1>6, <2>1 DEF Resolved
  <2>3. Turns(items, k, Moved(k, "rejected", None))
    BY <2>1, <2>2 DEF Turns, IsOpen, Open
  <2>4. QED
    BY <1>1, <2>1, <2>2, <2>3
<1>8. ASSUME NEW days \in DeferDays, DeferItem(p, k, days) PROVE Begins(p)
  <2>1. day + days \in Nat
    OBVIOUS
  <2> DEFINE item == Moved(k, "deferred", day + days)
  <2>2. IsOpen(k) /\ Begin(p, k, item, "write")
    BY <1>8 DEF DeferItem
  <2>3. Alike(item) /\ item.status = "deferred"
    BY <1>6, <2>1, <2>2 DEF Open
  <2>4. Turns(items, k, item)
    BY <2>2, <2>3 DEF Turns, IsOpen, Open
  <2>5. QED
    BY <1>1, <2>2, <2>3, <2>4
<1>9. CASE AcceptItem(p, k)
  <2> DEFINE item == Moved(k, "accepted", None)
  <2>1. IsOpen(k) /\ Begin(p, k, item, FirstLabel(k))
    BY <1>9 DEF AcceptItem
  <2>2. Alike(item) /\ item.status = "accepted"
    BY <1>6, <2>1 DEF Resolved
  <2>3. Turns(items, k, item)
    BY <1>9, <2>1, <2>2 DEF Turns, IsOpen, Open, AcceptItem
  <2>4. Decided(k, item, FirstLabel(k))
    BY <1>9, <2>1, <2>2, <2>3, SameNumber DEF Decided, AcceptItem, FirstLabel
  <2>5. FirstLabel(k) \in Labels
    BY <1>9, Constants DEF AcceptItem, FirstLabel
  <2>6. QED
    BY <2>1, <2>2, <2>4, <2>5 DEF Begins
<1>10. QED
  BY <1>2, <1>3, <1>4, <1>5, <1>7, <1>8, <1>9 DEF Queue, Decide

(* Every step begins a command, does something to the notes, writes the    *)
(* file, stops a command, or leaves all but the day alone.                 *)
LEMMA Steps ==
  ASSUME items \in [Keys -> Item \cup {None}], day \in Nat, [Next]_vars
  PROVE  \/ \E p \in Procs : Begins(p) \/ Apply(p) \/ WriteState(p) \/ Stop(p)
         \/ UNCHANGED <<items, notes, cmd>> /\ (day' = day \/ day' = day + 1)
<1>1. ASSUME NEW p \in Procs, NEW k \in Keys, Queue(p, k) \/ Decide(p, k)
      PROVE  Begins(p)
  BY <1>1, Beginnings
<1>2. CASE Tick
  BY <1>2 DEF Tick
<1>3. CASE UNCHANGED vars
  BY <1>3 DEF vars, notes
<1>4. QED
  BY <1>1, <1>2, <1>3 DEF Next

-----------------------------------------------------------------------------
(* Types.                                                                  *)

(* Nothing is running at first.                                            *)
LEMMA TypeInit == Init => TypeOK
<1> SUFFICES ASSUME Init PROVE TypeOK
  OBVIOUS
<1>1. Idle \in Command
  BY Constants DEF Idle, Command
<1>2. QED
  BY <1>1 DEF Init, TypeOK

(* A command that begins is a command.                                     *)
LEMMA BeginType ==
  ASSUME TypeOK, NEW p \in Procs, Begins(p) PROVE TypeOK'
<1>1. PICK k \in Keys, item \in Item, label \in Labels : Begin(p, k, item, label)
  BY DEF Begins
<1> DEFINE new == [at |-> label, key |-> k, read |-> items, item |-> item,
                   todo |-> TargetsOf[k], note |-> None]
<1>2. new \in Command
  BY Constants DEF Command, TypeOK
<1>3. cmd' = [cmd EXCEPT ![p] = new]
  BY <1>1 DEF Begin
<1>4. cmd' \in [Procs -> Command]
  BY <1>2, <1>3 DEF TypeOK
<1>5. QED
  BY <1>1, <1>4 DEF Begin, TypeOK, notes

(* The steps of accepting keep the types.                                  *)
LEMMA ApplyType ==
  ASSUME TypeOK, NEW p \in Procs, Apply(p),
         cmd[p].at # "idle" => cmd[p].key \in Keys /\ cmd[p].item \in Item,
         cmd[p].at = "source" => cmd[p].note \in Targets
  PROVE  TypeOK'
<1>1. cmd[p] \in Command
  BY DEF TypeOK
<1>2. ASSUME NEW label \in Labels, Goto(p, label) PROVE cmd' \in [Procs -> Command]
  <2>1. [cmd[p] EXCEPT !.at = label] \in Command
    BY <1>1 DEF Command
  <2>2. QED
    BY <1>2, <2>1 DEF Goto, TypeOK
<1>3. ASSUME NEW t, NEW label \in Labels, NextTarget(p, t, label)
      PROVE  cmd' \in [Procs -> Command]
  <2>1. PICK at \in Labels :
          cmd' = [cmd EXCEPT ![p].todo = @ \ {t}, ![p].note = None, ![p].at = at]
    BY <1>3, Constants DEF NextTarget
  <2>2. [cmd[p] EXCEPT !.todo = @ \ {t}, !.note = None, !.at = at] \in Command
    BY <1>1 DEF Command
  <2>3. QED
    BY <2>1, <2>2 DEF TypeOK
<1>4. cmd[p].at # "idle" => ItsId(p) \in Id
  BY Constants DEF ItsId, IdOf, Id, Item
<1>5. CASE CreateNote(p)
  BY <1>2, <1>5, Constants DEF CreateNote, TypeOK, Key
<1>6. ASSUME NEW t \in Targets, CiteInNote(p, t) PROVE TypeOK'
  BY <1>2, <1>6, Constants DEF CiteInNote, TypeOK, Key
<1>7. ASSUME NEW t \in Targets, MergeBody(p, t) PROVE TypeOK'
  <2>1. [cmd[p] EXCEPT !.at = "source", !.note = t] \in Command
    BY <1>1, Constants DEF Command
  <2>2. cmd' \in [Procs -> Command]
    BY <1>7, <2>1 DEF MergeBody, TypeOK
  <2>3. marks' \subseteq Targets \X Id
    BY <1>4, <1>7 DEF MergeBody, TypeOK
  <2>4. bodies' = bodies \/ bodies' = [bodies EXCEPT ![<<t, Key(p)>>] = @ + 1]
    BY <1>7 DEF MergeBody
  <2>5. bodies' \in [Targets \X Keys -> Nat]
    <3>1. bodies \in [Targets \X Keys -> Nat] /\ <<t, Key(p)>> \in Targets \X Keys
      BY <1>7 DEF MergeBody, TypeOK, Key
    <3> QED
      BY <2>4, <3>1
  <2>6. QED
    BY <1>7, <2>2, <2>3, <2>5 DEF MergeBody, TypeOK
<1>8. CASE MergeSource(p)
  BY <1>3, <1>8, Constants DEF MergeSource, TypeOK, Key
<1>9. ASSUME NEW t \in Targets, Acknowledge(p, t) PROVE TypeOK'
  BY <1>3, <1>4, <1>9, Constants DEF Acknowledge, TypeOK
<1>10. QED
  BY <1>5, <1>6, <1>7, <1>8, <1>9 DEF Apply

(* What a running command has in hand: an item that keeps its id, and a    *)
(* file with distinct ids once the item is in it.                          *)
InHand(p) ==
  /\ cmd[p].key \in Keys /\ cmd[p].item \in Item
  /\ cmd[p].at = "source" => cmd[p].note \in Targets
  /\ KeepsId(cmd[p].read, cmd[p].key, cmd[p].item)
  /\ Turns(cmd[p].read, cmd[p].key, cmd[p].item)
  /\ Numbered([cmd[p].read EXCEPT ![cmd[p].key] = cmd[p].item])

IdInv == Numbered(items) /\ \A p \in Procs : cmd[p].at # "idle" => InHand(p)

(* A step that leaves the command of p alone, or only moves it on.         *)
Same(p) == /\ cmd'[p].key = cmd[p].key /\ cmd'[p].item = cmd[p].item
           /\ cmd'[p].read = cmd[p].read

MovesOn(p) ==
  /\ \A q \in Procs : Same(q)
  /\ \A q \in Procs \ {p} : cmd'[q] = cmd[q]
  /\ cmd[p].at \in {"create", "body", "source", "ack"}
  /\ cmd'[p].at \in {"body", "source", "ack", "write"}
  /\ cmd'[p].at = "source" => cmd'[p].note \in Targets
  /\ UNCHANGED <<items, day>>

(* A step of accepting moves on the command of one process.                *)
LEMMA ApplyMoves ==
  ASSUME TypeOK, NEW p \in Procs, Apply(p)
  PROVE  MovesOn(p)
<1> USE DEF TypeOK, Command
<1> USE DEF MovesOn, Same
<1>1. CASE CreateNote(p)
  BY <1>1 DEF CreateNote, Goto
<1>2. ASSUME NEW t \in Targets, CiteInNote(p, t) PROVE MovesOn(p)
  BY <1>2 DEF CiteInNote, Goto
<1>3. ASSUME NEW t \in Targets, MergeBody(p, t) PROVE MovesOn(p)
  BY <1>3 DEF MergeBody
<1>4. ASSUME NEW t, NEW label \in {"body", "ack"}, NextTarget(p, t, label),
             cmd[p].at \in {"source", "ack"}, UNCHANGED <<items, day>>
      PROVE  MovesOn(p)
  <2>1. PICK at \in {"body", "ack", "write"} :
          cmd' = [cmd EXCEPT ![p].todo = @ \ {t}, ![p].note = None, ![p].at = at]
    BY <1>4 DEF NextTarget
  <2>2. QED
    BY <1>4, <2>1
<1>5. CASE MergeSource(p)
  BY <1>4, <1>5 DEF MergeSource
<1>6. ASSUME NEW t \in Targets, Acknowledge(p, t) PROVE MovesOn(p)
  BY <1>4, <1>6 DEF Acknowledge
<1>7. QED
  BY <1>1, <1>2, <1>3, <1>5, <1>6 DEF Apply

(* A command that begins has its item in hand.                             *)
LEMMA BeginInHand ==
  ASSUME TypeOK, IdInv, NEW p \in Procs, Begins(p)
  PROVE  InHand(p)' /\ UNCHANGED <<items, notes, day>> /\ cmd[p].at = "idle"
         /\ \A q \in Procs \ {p} : cmd'[q] = cmd[q]
<1>1. PICK k \in Keys, item \in Item, label \in Labels :
        Decided(k, item, label) /\ Begin(p, k, item, label)
  BY DEF Begins
<1>2. /\ cmd'[p].key = k /\ cmd'[p].item = item /\ cmd'[p].at = label
      /\ cmd'[p].read = items
  BY <1>1 DEF Begin, TypeOK
<1>3. /\ KeepsId(items, k, item) /\ Numbered([items EXCEPT ![k] = item])
      /\ Turns(items, k, item) /\ label # "source"
  BY <1>1 DEF Decided, IdInv
<1>4. InHand(p)'
  BY <1>2, <1>3 DEF InHand, KeepsId, Turns, Numbered, IdOf
<1>5. QED
  BY <1>1, <1>4 DEF Begin, TypeOK

(* The file a command writes.                                              *)
LEMMA Written ==
  ASSUME TypeOK, IdInv, NEW p \in Procs, WriteState(p)
  PROVE  /\ TypeOK' /\ Numbered(items') /\ cmd'[p].at = "idle"
         /\ \A q \in Procs \ {p} : cmd'[q] = cmd[q]
<1>1. InHand(p) /\ items' = [cmd[p].read EXCEPT ![cmd[p].key] = cmd[p].item]
  BY DEF WriteState, IdInv, Key
<1>2. cmd[p].read \in [Keys -> Item \cup {None}]
  BY DEF TypeOK, Command
<1>3. items' \in [Keys -> Item \cup {None}] /\ Numbered(items')
  BY <1>1, <1>2 DEF InHand
<1>4. Idle \in Command /\ Idle.at = "idle"
  BY Constants DEF Idle, Command
<1>5. /\ cmd' \in [Procs -> Command] /\ cmd'[p].at = "idle"
      /\ \A q \in Procs \ {p} : cmd'[q] = cmd[q]
  BY <1>4 DEF WriteState, TypeOK
<1>6. QED
  BY <1>3, <1>5 DEF WriteState, TypeOK, notes

(* A command that is stopped leaves all but itself alone.                  *)
LEMMA Stopped ==
  ASSUME TypeOK, NEW p \in Procs, Stop(p)
  PROVE  /\ TypeOK' /\ UNCHANGED <<items, notes, day>> /\ cmd'[p].at = "idle"
         /\ \A q \in Procs \ {p} : cmd'[q] = cmd[q]
<1>1. Idle \in Command /\ Idle.at = "idle"
  BY Constants DEF Idle, Command
<1>2. QED
  BY <1>1 DEF Stop, TypeOK, notes

(* What is in hand depends on the command alone.                           *)
LEMMA HandOfSame ==
  ASSUME NEW p \in Procs, InHand(p), Same(p),
         cmd'[p].at = "source" => cmd'[p].note \in Targets
  PROVE  InHand(p)'
BY DEF InHand, Same, KeepsId, Turns, Numbered, IdOf

(* Types and ids are kept by every step, however the commands interleave.  *)
LEMMA Keeping ==
  ASSUME TypeOK, IdInv, [Next]_vars PROVE TypeOK' /\ IdInv'
<1> USE DEF IdInv
<1>1. ASSUME NEW p \in Procs, Begins(p) PROVE TypeOK' /\ IdInv'
  <2>1. TypeOK'
    BY <1>1, BeginType
  <2>2. Numbered(items)'
    BY <1>1, BeginInHand
  <2>3. ASSUME NEW q \in Procs, cmd'[q].at # "idle" PROVE InHand(q)'
    <3>1. CASE q = p
      BY <1>1, <3>1, BeginInHand
    <3>2. CASE q # p
      BY <1>1, <2>3, <3>2, BeginInHand, HandOfSame DEF Same, InHand
    <3>3. QED
      BY <3>1, <3>2
  <2>4. QED
    BY <2>1, <2>2, <2>3
<1>2. ASSUME NEW p \in Procs, Apply(p) PROVE TypeOK' /\ IdInv'
  <2>1. MovesOn(p)
    BY <1>2, ApplyMoves
  <2>2. InHand(p)
    BY <2>1 DEF MovesOn
  <2>3. TypeOK'
    BY <1>2, <2>2, ApplyType DEF InHand
  <2>4. ASSUME NEW q \in Procs, cmd'[q].at # "idle" PROVE InHand(q)'
    BY <2>1, <2>2, <2>4, HandOfSame DEF MovesOn, Same, InHand
  <2>5. QED
    BY <2>1, <2>3, <2>4 DEF MovesOn
<1>3. ASSUME NEW p \in Procs, WriteState(p) PROVE TypeOK' /\ IdInv'
  <2>1. ASSUME NEW q \in Procs, cmd'[q].at # "idle" PROVE InHand(q)'
    BY <1>3, <2>1, Written, HandOfSame DEF Same, InHand
  <2>2. QED
    BY <1>3, <2>1, Written
<1>4. ASSUME NEW p \in Procs, Stop(p) PROVE TypeOK' /\ IdInv'
  <2>1. ASSUME NEW q \in Procs, cmd'[q].at # "idle" PROVE InHand(q)'
    BY <1>4, <2>1, Stopped, HandOfSame DEF Same, InHand
  <2>2. QED
    BY <1>4, <2>1, Stopped
<1>5. CASE UNCHANGED <<items, notes, cmd>> /\ (day' = day \/ day' = day + 1)
  <2>1. TypeOK'
    BY <1>5 DEF TypeOK, notes
  <2>2. ASSUME NEW q \in Procs, cmd'[q].at # "idle" PROVE InHand(q)'
    BY <1>5, <2>2, HandOfSame DEF Same, InHand
  <2>3. QED
    BY <1>5, <2>1, <2>2
<1>6. QED
  BY <1>1, <1>2, <1>3, <1>4, <1>5, Steps DEF TypeOK

(* No item has an id at first.                                             *)
LEMMA IdInit == Init => IdInv
BY DEF Init, IdInv, Numbered, Idle

(* So they hold in every state.                                            *)
LEMMA KeptAlways == Spec => [](TypeOK /\ IdInv)
<1>1. Init => TypeOK /\ IdInv
  BY TypeInit, IdInit
<1>2. (TypeOK /\ IdInv) /\ [Next]_vars => (TypeOK /\ IdInv)'
  BY Keeping
<1>3. QED
  BY <1>1, <1>2, PTL DEF Spec

(* The variables keep their types, whatever the interleaving of the reads  *)
(* and writes of review-items.json (review.py).                            *)
THEOREM TypeCorrect == Spec => []TypeOK
BY KeptAlways, PTL

(* Two items of review-items.json never share an id (_allocate_id), even   *)
(* when commands of several processes overwrite one another's file: what a *)
(* command writes is a file it has itself numbered.                        *)
THEOREM IdsDistinctHolds == Spec => []IdsDistinct
<1>1. IdInv => IdsDistinct
  BY DEF IdInv, Numbered, IdsDistinct
<1>2. QED
  BY <1>1, KeptAlways, PTL

-----------------------------------------------------------------------------
(* One command at a time.                                                  *)

(* A running command has read the file as it still is, and runs alone.     *)
SerialInv ==
  \A p \in Procs : cmd[p].at # "idle" =>
    cmd[p].read = items /\ \A q \in Procs : cmd[q].at # "idle" => q = p

(* What an item proposes has been done to the notes, the item's id being   *)
(* the one it is looked for by.                                            *)
Merged(t, k)     == bodies[<<t, k>>] > 0 /\ <<t, k>> \in cites
Settled(t, k, i) == <<t, IdOf(k, i)>> \in acks
DoneAs(k, i) ==
  /\ Kind[k] = "classification" => made[k] > 0 \/ \E t \in Targets : <<t, k>> \in cites
  /\ Kind[k] = "merge" => TargetsOf[k] # {} /\ \A t \in TargetsOf[k] : Merged(t, k)
  /\ Kind[k] = "dispute" => TargetsOf[k] # {} /\ \A t \in TargetsOf[k] : Settled(t, k, i)

(* How far an acceptance has come at each of its labels.                   *)
Progress(p, k, i) ==
  /\ cmd[p].at # "write" => IsOpen(k)
  /\ cmd[p].at = "create" => Kind[k] = "classification"
  /\ cmd[p].at \in {"body", "source"} =>
       /\ Kind[k] = "merge" /\ cmd[p].todo # {} /\ TargetsOf[k] # {}
       /\ \A t \in TargetsOf[k] \ cmd[p].todo : Merged(t, k)
  /\ cmd[p].at = "source" => bodies[<<cmd[p].note, k>>] > 0
  /\ cmd[p].at = "ack" =>
       /\ Kind[k] = "dispute" /\ cmd[p].todo # {} /\ TargetsOf[k] # {}
       /\ \A t \in TargetsOf[k] \ cmd[p].todo : Settled(t, k, i)
  /\ cmd[p].at = "write" /\ i.status = "accepted" => DoneAs(k, i)

WorkInv == \A p \in Procs : cmd[p].at # "idle" => Progress(p, cmd[p].key, cmd[p].item)

(* A note has the marker of an item exactly when it has the item's body,   *)
(* and has it once.                                                        *)
MarkInv ==
  /\ \A t \in Targets, k \in Keys :
       bodies[<<t, k>>] > 0 => items[k] # None /\ <<t, IdOf(k, items[k])>> \in marks
  /\ \A m \in marks : \E k \in Keys : /\ items[k] # None /\ m[2] = IdOf(k, items[k])
                                      /\ bodies[<<m[1], k>>] > 0
  /\ MergedOnce

(* What is acknowledged is so for an item there is.                        *)
AckInv == \A a \in acks : \E k \in Keys : items[k] # None /\ a[2] = IdOf(k, items[k])

DoneInv == \A k \in Keys : Is(k, "accepted") => /\ DoneAs(k, items[k])
                                              /\ Kind[k] # "hygiene"

IInv == SerialInv /\ WorkInv /\ MarkInv /\ AckInv /\ DoneInv

(* One command begins while none is running.                               *)
LEMMA BeginAlone ==
  ASSUME Serialized, TypeOK, IdInv, IInv, NEW p \in Procs, Begins(p) PROVE IInv'
<1>1. PICK k \in Keys, item \in Item, label \in Labels :
        Decided(k, item, label) /\ Begin(p, k, item, label)
  BY DEF Begins
<1>2. /\ cmd'[p].key = k /\ cmd'[p].item = item /\ cmd'[p].at = label
      /\ cmd'[p].read = items /\ cmd'[p].todo = TargetsOf[k]
      /\ \A q \in Procs : q # p => cmd'[q] = cmd[q] /\ cmd[q].at = "idle"
  BY <1>1 DEF Begin, TypeOK
<1>3. UNCHANGED <<items, made, bodies, marks, acks, cites>>
  BY <1>1 DEF Begin, notes
<1>4. SerialInv'
  BY <1>2, <1>3 DEF SerialInv
<1>5. Progress(p, k, item)'
  <2>1. label # "source" /\ label # "idle"
    BY <1>1 DEF Decided
  <2>2. (cmd'[p].at # "write" => IsOpen(k)')
    BY <1>1, <1>2, <1>3 DEF Decided, IsOpen
  <2>3. (label = "write" /\ item.status = "accepted") => DoneAs(k, item)'
    BY <1>1 DEF Decided, DoneAs
  <2>4. QED
    BY <1>1, <1>2, <2>1, <2>2, <2>3 DEF Decided, Progress
<1>6. WorkInv'
  BY <1>2, <1>5 DEF WorkInv
<1>7. MarkInv' /\ AckInv' /\ DoneInv'
  BY <1>3 DEF IInv, MarkInv, AckInv, DoneInv, MergedOnce, Is, DoneAs, Merged, Settled, IdOf
<1>8. QED
  BY <1>4, <1>6, <1>7 DEF IInv

(* What is done to the notes is not undone.                                *)
Grown ==
  /\ \A k \in Keys : made'[k] >= made[k]
  /\ \A t \in Targets, k \in Keys : bodies'[<<t, k>>] >= bodies[<<t, k>>]
  /\ cites \subseteq cites' /\ acks \subseteq acks'

LEMMA StillMerged ==
  ASSUME TypeOK, TypeOK', Grown, NEW k \in Keys
  PROVE  \A t \in Targets : Merged(t, k) => Merged(t, k)'
BY DEF Merged, Grown, TypeOK

(* Nor is what an item proposes, once it is done.                          *)
LEMMA StillDone ==
  ASSUME TypeOK, TypeOK', Grown, NEW k \in Keys, NEW i
  PROVE  /\ \A t \in Targets : Settled(t, k, i) => Settled(t, k, i)'
         /\ DoneAs(k, i) => DoneAs(k, i)'
<1>1. \A t \in Targets : Merged(t, k) => Merged(t, k)'
  BY StillMerged
<1>2. \A t \in Targets : Settled(t, k, i) => Settled(t, k, i)'
  BY DEF Settled, Grown, IdOf
<1>3. made[k] > 0 => made'[k] > 0
  BY DEF Grown, TypeOK
<1>4. (\E t \in Targets : <<t, k>> \in cites) => \E t \in Targets : <<t, k>> \in cites'
  BY DEF Grown
<1>5. QED
  BY <1>1, <1>2, <1>3, <1>4, Constants DEF DoneAs

(* At work on a merge, p has the item's id as the file has it.             *)
LEMMA AtWork ==
  ASSUME TypeOK, IdInv, IInv, NEW p \in Procs,
         cmd[p].at \in {"create", "body", "source", "ack"}
  PROVE  /\ Key(p) = cmd[p].key /\ Key(p) \in Keys /\ items[Key(p)] # None /\ IsOpen(Key(p))
         /\ ItsId(p) = IdOf(Key(p), items[Key(p)])
         /\ ItsId(p) = IdOf(Key(p), cmd[p].item)
         /\ cmd[p].todo \subseteq Targets
         /\ Progress(p, Key(p), cmd[p].item)
<1>1. InHand(p) /\ cmd[p].read = items /\ Progress(p, cmd[p].key, cmd[p].item)
  BY DEF IdInv, IInv, SerialInv, WorkInv
<1>2. IsOpen(cmd[p].key)
  BY <1>1 DEF Progress
<1>3. QED
  BY <1>1, <1>2 DEF InHand, KeepsId, Key, ItsId, IdOf, IsOpen, TypeOK, Command

(* A step of accepting that advances the work of p keeps the rest.         *)
LEMMA ApplyKeeps ==
  ASSUME TypeOK, TypeOK', IdInv, IInv, NEW p \in Procs, MovesOn(p), Grown, MarkInv',
         Progress(p, cmd[p].key, cmd[p].item)',
         \A a \in acks' : a \in acks \/ a[2] = ItsId(p)
  PROVE  IInv'
<1>1. SerialInv'
  BY DEF SerialInv, IInv, MovesOn, Same
<1>2. cmd'[p].key = cmd[p].key /\ cmd'[p].item = cmd[p].item
  BY DEF MovesOn, Same
<1>3. ASSUME NEW q \in Procs, cmd'[q].at # "idle" PROVE q = p
  BY <1>3 DEF MovesOn, IInv, SerialInv
<1>4. WorkInv'
  BY <1>2, <1>3 DEF WorkInv, Progress
<1>5. DoneInv'
  BY StillDone DEF DoneInv, IInv, MovesOn, Is
<1>6. AckInv'
  <2>1. items' = items
    BY DEF MovesOn
  <2>2. items[Key(p)] # None /\ ItsId(p) = IdOf(Key(p), items[Key(p)]) /\ Key(p) \in Keys
    BY AtWork DEF MovesOn
  <2>3. \A a \in acks' : \E k \in Keys : items[k] # None /\ a[2] = IdOf(k, items[k])
    BY <2>2 DEF IInv, AckInv
  <2>4. QED
    BY <2>1, <2>3 DEF AckInv, IdOf
<1>7. QED
  BY <1>1, <1>4, <1>5, <1>6 DEF IInv

(* The body of an item goes to a note that has not got it, and is found    *)
(* there.                                                                  *)
LEMMA MergeBodyAlone ==
  ASSUME TypeOK, TypeOK', IdInv, IInv, NEW p \in Procs, NEW t \in Targets,
         MergeBody(p, t), MovesOn(p)
  PROVE  IInv'
<1> DEFINE k == Key(p)
<1>1. /\ k = cmd[p].key /\ k \in Keys /\ items[k] # None /\ IsOpen(k)
      /\ ItsId(p) = IdOf(k, items[k]) /\ Progress(p, k, cmd[p].item)
  BY AtWork DEF MergeBody
<1>2. UNCHANGED <<items, made, acks, cites>>
  BY DEF MergeBody
<1>3. \A u \in Targets, j \in Keys : bodies[<<u, j>>] \in Nat
  BY DEF TypeOK
<1>4. CASE IsMerged(p, t)
  <2>1. bodies' = bodies /\ marks' = marks
    BY <1>4 DEF MergeBody
  <2>2. PICK j \in Keys : items[j] # None /\ ItsId(p) = IdOf(j, items[j]) /\ bodies[<<t, j>>] > 0
    BY <1>4 DEF IsMerged, IInv, MarkInv
  <2>3. bodies[<<t, k>>] > 0
    BY <1>1, <2>2 DEF IdInv, Numbered
  <2>4. QED
    <3>1. Grown
      BY <1>2, <1>3, <2>1 DEF Grown, TypeOK
    <3>2. MarkInv'
      BY <1>2, <2>1 DEF MarkInv, IInv, MergedOnce, IdOf
    <3>3. Progress(p, k, cmd[p].item)'
      <4>1. cmd'[p].at = "source" /\ cmd'[p].todo = cmd[p].todo /\ cmd'[p].note = t
            /\ cmd'[p].item = cmd[p].item /\ Key(p)' = k
        BY DEF MergeBody, TypeOK, Command, Key
      <4>2. QED
        BY <1>1, <1>2, <2>1, <2>3, <4>1 DEF Progress, MergeBody, IsOpen, Merged
    <3>4. QED
      BY <1>1, <1>2, <3>1, <3>2, <3>3, ApplyKeeps DEF Key, MovesOn, Same
<1>5. CASE ~IsMerged(p, t)
  <2>1. /\ bodies' = [bodies EXCEPT ![<<t, k>>] = @ + 1]
        /\ marks' = marks \cup {<<t, ItsId(p)>>}
    BY <1>5 DEF MergeBody
  <2>2. bodies[<<t, k>>] = 0
    BY <1>1, <1>3, <1>5 DEF IsMerged, IInv, MarkInv
  <2>3. \A u \in Targets, j \in Keys :
          bodies'[<<u, j>>] = IF u = t /\ j = k THEN 1 ELSE bodies[<<u, j>>]
    BY <2>1, <2>2 DEF TypeOK
  <2>4. Grown
    BY <1>2, <1>3, <2>2, <2>3 DEF Grown, TypeOK
  <2>5. MarkInv'
    <3>1. \A u \in Targets, j \in Keys :
            bodies'[<<u, j>>] > 0 => items[j] # None /\ <<u, IdOf(j, items[j])>> \in marks'
      BY <1>1, <2>1, <2>3 DEF IInv, MarkInv
    <3>2. \A m \in marks' : \E j \in Keys : /\ items[j] # None /\ m[2] = IdOf(j, items[j])
                                          /\ bodies'[<<m[1], j>>] > 0
      <4>1. ASSUME NEW m \in marks
            PROVE  \E j \in Keys : /\ items[j] # None /\ m[2] = IdOf(j, items[j])
                                  /\ bodies'[<<m[1], j>>] > 0
        <5>1. PICK j \in Keys : /\ items[j] # None /\ m[2] = IdOf(j, items[j])
                               /\ bodies[<<m[1], j>>] > 0
          BY DEF IInv, MarkInv
        <5>2. m[1] \in Targets
          BY DEF TypeOK
        <5>3. bodies'[<<m[1], j>>] > 0
          BY <2>3, <5>1, <5>2
        <5>4. QED
          BY <5>1, <5>3
      <4>2. /\ items[k] # None /\ <<t, ItsId(p)>>[2] = IdOf(k, items[k])
            /\ bodies'[<<(<<t, ItsId(p)>>[1]), k>>] > 0
        BY <1>1, <2>3
      <4>3. QED
        BY <1>1, <2>1, <4>1, <4>2
    <3>3. MergedOnce'
      <4>1. \A u \in Targets, j \in Keys : bodies[<<u, j>>] <= 1
        BY DEF IInv, MarkInv, MergedOnce
      <4>2. ASSUME NEW u \in Targets, NEW j \in Keys PROVE bodies'[<<u, j>>] <= 1
        <5>1. CASE bodies'[<<u, j>>] = 1
          BY <5>1
        <5>2. CASE bodies'[<<u, j>>] = bodies[<<u, j>>]
          BY <4>1, <5>2
        <5>3. QED
          BY <2>3, <5>1, <5>2
      <4>3. QED
        BY <4>2 DEF MergedOnce
    <3>4. QED
      BY <1>2, <3>1, <3>2, <3>3 DEF MarkInv, IdOf
  <2>6. Progress(p, k, cmd[p].item)'
    <3>1. cmd'[p].at = "source" /\ cmd'[p].todo = cmd[p].todo /\ cmd'[p].note = t
          /\ cmd'[p].item = cmd[p].item /\ Key(p)' = k
      BY DEF MergeBody, TypeOK, Command, Key
    <3>2. \A u \in Targets, j \in Keys : Merged(u, j) => Merged(u, j)'
      BY <2>4, StillMerged
    <3>3. bodies'[<<t, k>>] > 0
      BY <1>1, <2>3
    <3>4. QED
      BY <1>1, <1>2, <3>1, <3>2, <3>3, Constants DEF Progress, MergeBody, IsOpen, Merged
  <2>7. QED
    BY <1>1, <1>2, <2>4, <2>5, <2>6, ApplyKeeps DEF Key, MovesOn, Same
<1>6. QED
  BY <1>4, <1>5

(* A step that leaves the bodies and the file alone leaves the markers.    *)
LEMMA MarkSame ==
  ASSUME MarkInv, UNCHANGED <<items, bodies, marks>> PROVE MarkInv'
BY DEF MarkInv, MergedOnce, IdOf

(* The other steps of accepting.                                           *)
LEMMA ApplyAlone ==
  ASSUME TypeOK, TypeOK', IdInv, IInv, NEW p \in Procs, Apply(p) PROVE IInv'
<1> USE DEF TypeOK, Command
<1>1. MovesOn(p)
  BY ApplyMoves
<1>0. /\ Key(p) = cmd[p].key /\ Key(p) \in Keys /\ IsOpen(Key(p))
      /\ ItsId(p) = IdOf(Key(p), cmd[p].item)
      /\ cmd[p].todo \subseteq Targets /\ Progress(p, Key(p), cmd[p].item)
  BY <1>1, AtWork DEF MovesOn
<1> PICK k \in Keys, i \in Item : k = cmd[p].key /\ i = cmd[p].item
  BY <1>1 DEF MovesOn, IdInv, InHand
<1>2. /\ Key(p) = k /\ IsOpen(k) /\ IsOpen(k)' /\ cmd[p].todo \subseteq Targets
      /\ ItsId(p) = IdOf(k, i) /\ Progress(p, k, i)
      /\ cmd'[p].key = k /\ cmd'[p].item = i
  BY <1>0, <1>1 DEF MovesOn, Same, IsOpen
<1>3. ASSUME Grown, UNCHANGED <<items, bodies, marks>>,
             Progress(p, cmd[p].key, cmd[p].item)',
             \A a \in acks' : a \in acks \/ a[2] = ItsId(p)
      PROVE  IInv'
  BY <1>1, <1>3, MarkSame, ApplyKeeps DEF IInv
<1>4. CASE CreateNote(p)
  <2>1. Grown /\ made'[k] > 0
    BY <1>2, <1>4 DEF CreateNote, Grown
  <2>2. cmd'[p].at = "write" /\ Kind[k] = "classification"
    BY <1>2, <1>4 DEF CreateNote, Goto, Progress
  <2>3. Progress(p, cmd[p].key, cmd[p].item)'
    BY <1>2, <2>1, <2>2 DEF Progress, DoneAs
  <2>4. QED
    BY <1>3, <1>4, <2>1, <2>3 DEF CreateNote
<1>5. ASSUME NEW t \in Targets, CiteInNote(p, t) PROVE IInv'
  <2>1. Grown /\ <<t, k>> \in cites'
    BY <1>2, <1>5 DEF CiteInNote, Grown
  <2>2. cmd'[p].at = "write" /\ Kind[k] = "classification"
    BY <1>2, <1>5 DEF CiteInNote, Goto, Progress
  <2>3. Progress(p, cmd[p].key, cmd[p].item)'
    BY <1>2, <2>1, <2>2 DEF Progress, DoneAs
  <2>4. QED
    BY <1>3, <1>5, <2>1, <2>3 DEF CiteInNote
<1>6. ASSUME NEW t \in Targets, MergeBody(p, t) PROVE IInv'
  BY <1>1, <1>6, MergeBodyAlone
<1>7. CASE MergeSource(p)
  <2> DEFINE t == cmd[p].note
  <2>1. t \in Targets /\ bodies[<<t, k>>] > 0 /\ Kind[k] = "merge" /\ TargetsOf[k] # {}
    <3>1. cmd[p].at = "source" /\ InHand(p)
      BY <1>7 DEF MergeSource, IdInv
    <3>2. QED
      BY <1>2, <3>1 DEF InHand, Progress
  <2>2. Grown /\ bodies' = bodies /\ cites' = cites \cup {<<t, k>>}
    BY <1>2, <1>7 DEF MergeSource, Grown
  <2>3. /\ cmd'[p].todo = cmd[p].todo \ {t}
        /\ cmd'[p].at = IF cmd[p].todo = {t} THEN "write" ELSE "body"
    BY <1>7 DEF MergeSource, NextTarget
  <2>4. \A u \in TargetsOf[k] \ (cmd[p].todo \ {t}) :
          bodies'[<<u, k>>] > 0 /\ <<u, k>> \in cites'
    BY <1>2, <1>7, <2>1, <2>2 DEF Progress, MergeSource, Merged
  <2>5. Progress(p, cmd[p].key, cmd[p].item)'
    <3>1. CASE cmd[p].todo = {t}
      BY <1>2, <2>1, <2>3, <2>4, <3>1 DEF Progress, DoneAs, Merged
    <3>2. CASE cmd[p].todo # {t}
      <4>1. cmd[p].todo \ {t} # {}
        BY <1>2, <1>7, <3>2 DEF Progress, MergeSource
      <4>2. QED
        BY <1>2, <2>1, <2>3, <2>4, <3>2, <4>1 DEF Progress, Merged
    <3>3. QED
      BY <3>1, <3>2
  <2>6. QED
    BY <1>3, <1>7, <2>2, <2>5 DEF MergeSource
<1>8. ASSUME NEW t \in Targets, Acknowledge(p, t) PROVE IInv'
  <2>1. Grown /\ acks' = acks \cup {<<t, IdOf(k, i)>>}
    BY <1>2, <1>8 DEF Acknowledge, Grown
  <2>0. Kind[k] = "dispute" /\ TargetsOf[k] # {}
    BY <1>2, <1>8 DEF Acknowledge, Progress
  <2>2. /\ cmd'[p].todo = cmd[p].todo \ {t}
        /\ cmd'[p].at = IF cmd[p].todo = {t} THEN "write" ELSE "ack"
    BY <1>8 DEF Acknowledge, NextTarget
  <2>3. \A u \in TargetsOf[k] \ (cmd[p].todo \ {t}) : <<u, IdOf(k, i)>> \in acks'
    BY <1>2, <1>8, <2>1 DEF Progress, Acknowledge, Settled
  <2>4. Progress(p, cmd[p].key, cmd[p].item)'
    <3>1. CASE cmd[p].todo = {t}
      BY <1>2, <2>0, <2>1, <2>2, <2>3, <3>1 DEF Progress, DoneAs, Settled
    <3>2. CASE cmd[p].todo # {t}
      <4>1. cmd[p].todo \ {t} # {}
        BY <1>8, <3>2 DEF Acknowledge
      <4>2. QED
        BY <1>2, <2>0, <2>1, <2>2, <2>3, <3>2, <4>1 DEF Progress, Settled
    <3>3. QED
      BY <3>1, <3>2
  <2>5. QED
    BY <1>3, <1>8, <2>1, <2>4 DEF Acknowledge
<1>9. QED
  BY <1>4, <1>5, <1>6, <1>7, <1>8 DEF Apply

(* The file is written: the item has been dealt with as its status says.   *)
LEMMA WriteAlone ==
  ASSUME TypeOK, TypeOK', IdInv, IInv, NEW p \in Procs, WriteState(p) PROVE IInv'
<1>0. cmd[p].read = items /\ InHand(p) /\ Progress(p, cmd[p].key, cmd[p].item)
  BY DEF WriteState, IdInv, IInv, WorkInv, SerialInv
<1> PICK k \in Keys, i \in Item :
      /\ k = cmd[p].key /\ i = cmd[p].item /\ cmd[p].read = items
      /\ KeepsId(items, k, i) /\ Turns(items, k, i) /\ Progress(p, k, i)
  BY <1>0 DEF InHand
<1>1. items' = [items EXCEPT ![k] = i] /\ UNCHANGED notes
  BY DEF WriteState, Key
<1>2. \A j \in Keys : items'[j] = IF j = k THEN i ELSE items[j]
  BY <1>1 DEF TypeOK
<1>3. \A j \in Keys : items[j] # None =>
        items'[j] # None /\ IdOf(j, items'[j]) = IdOf(j, items[j])
  BY <1>2 DEF KeepsId, IdOf
<1>4. \A q \in Procs : cmd'[q].at = "idle"
  BY Written DEF IInv, SerialInv, WriteState
<1>5. MarkInv'
  <2>1. \A t \in Targets, j \in Keys :
          bodies[<<t, j>>] > 0 => items'[j] # None /\ <<t, IdOf(j, items'[j])>> \in marks
    BY <1>3 DEF IInv, MarkInv
  <2>2. \A m \in marks : \E j \in Keys : /\ items'[j] # None /\ m[2] = IdOf(j, items'[j])
                                       /\ bodies[<<m[1], j>>] > 0
    BY <1>3 DEF IInv, MarkInv
  <2>3. bodies' = bodies /\ marks' = marks
    BY <1>1 DEF notes
  <2>4. MergedOnce'
    BY <2>3 DEF IInv, MarkInv, MergedOnce
  <2>5. QED
    BY <2>1, <2>2, <2>3, <2>4 DEF MarkInv, IdOf
<1>6. DoneInv'
  <2>1. ASSUME NEW j \in Keys, Is(j, "accepted")'
        PROVE  DoneAs(j, items'[j]) /\ Kind[j] # "hygiene"
    <3>1. CASE j = k
      BY <1>2, <2>1, <3>1 DEF Is, Progress, WriteState, Turns
    <3>2. CASE j # k
      BY <1>2, <2>1, <3>2 DEF Is, IInv, DoneInv
    <3>3. QED
      BY <3>1, <3>2
  <2>2. QED
    BY <1>1, <2>1 DEF DoneInv, DoneAs, Merged, Settled, notes, IdOf
<1>7. AckInv'
  <2>1. \A a \in acks : \E j \in Keys : items'[j] # None /\ a[2] = IdOf(j, items'[j])
    BY <1>3 DEF IInv, AckInv
  <2>2. QED
    BY <1>1, <2>1 DEF AckInv, notes, IdOf
<1>8. QED
  BY <1>4, <1>5, <1>6, <1>7 DEF IInv, SerialInv, WorkInv

(* With one command at a time, each step keeps the invariant.              *)
LEMMA KeepingAlone ==
  ASSUME Serialized, TypeOK, IdInv, IInv, [Next]_vars PROVE IInv'
<1>0. TypeOK'
  BY Keeping
<1>1. ASSUME NEW p \in Procs, Begins(p) PROVE IInv'
  BY <1>1, BeginAlone
<1>2. ASSUME NEW p \in Procs, Apply(p) PROVE IInv'
  BY <1>0, <1>2, ApplyAlone
<1>3. ASSUME NEW p \in Procs, WriteState(p) PROVE IInv'
  BY <1>0, <1>3, WriteAlone
<1>4. ASSUME UNCHANGED <<items, notes>>,
             \A q \in Procs : cmd'[q].at = "idle" \/ cmd'[q] = cmd[q]
      PROVE  IInv'
  <2>1. SerialInv' /\ WorkInv'
    <3>1. SerialInv'
      BY <1>4 DEF IInv, SerialInv
    <3>2. ASSUME NEW q \in Procs, cmd'[q].at # "idle"
          PROVE  Progress(q, cmd[q].key, cmd[q].item)'
      <4>1. cmd'[q] = cmd[q] /\ Progress(q, cmd[q].key, cmd[q].item)
        BY <1>4, <3>2 DEF IInv, WorkInv
      <4>2. QED
        BY <1>4, <4>1 DEF Progress, IsOpen, DoneAs, Merged, Settled, notes, IdOf
    <3>3. QED
      BY <3>1, <3>2 DEF WorkInv
  <2>2. MarkInv'
    BY <1>4, MarkSame DEF IInv, notes
  <2>3. DoneInv'
    BY <1>4 DEF IInv, DoneInv, Is, DoneAs, Merged, Settled, notes, IdOf
  <2>4. AckInv'
    BY <1>4 DEF IInv, AckInv, notes, IdOf
  <2>5. QED
    BY <2>1, <2>2, <2>3, <2>4 DEF IInv
<1>5. ASSUME NEW p \in Procs, Stop(p) PROVE IInv'
  BY <1>4, <1>5, Stopped
<1>6. CASE UNCHANGED <<items, notes, cmd>>
  BY <1>4, <1>6
<1>7. QED
  BY <1>1, <1>2, <1>3, <1>5, <1>6, Steps DEF TypeOK

(* It holds at first, when nothing has been merged.                        *)
LEMMA InitAlone == Init => IInv
<1> SUFFICES ASSUME Init PROVE IInv
  OBVIOUS
<1>1. SerialInv /\ WorkInv
  BY DEF Init, SerialInv, WorkInv, Idle
<1>2. MarkInv
  BY DEF Init, MarkInv, MergedOnce
<1>3. AckInv /\ DoneInv
  BY DEF Init, DoneInv, AckInv, Is
<1>4. QED
  BY <1>1, <1>2, <1>3 DEF IInv

(* So it holds in every state.                                             *)
LEMMA AloneAlways == ASSUME Serialized PROVE Spec => [](TypeOK /\ IdInv /\ IInv)
<1>1. Init => TypeOK /\ IdInv /\ IInv
  BY TypeInit, IdInit, InitAlone
<1>2. (TypeOK /\ IdInv /\ IInv) /\ [Next]_vars => (TypeOK /\ IdInv /\ IInv)'
  BY Keeping, KeepingAlone
<1>3. QED
  BY <1>1, <1>2, PTL DEF Spec

-----------------------------------------------------------------------------
(* With one command at a time, accept_review_item marks an item accepted   *)
(* only when what it proposes has been done to every note it names,        *)
(* wherever earlier attempts were stopped.                                 *)
THEOREM AcceptedMeansAppliedHolds ==
  ASSUME Serialized PROVE Spec => []AcceptedMeansApplied
<1>1. IInv => AcceptedMeansApplied
  <2>1. \A k \in Keys : Is(k, "accepted") /\ DoneAs(k, items[k]) => Done(k)
    BY DEF Done, DoneAs, Merged, Settled, Is
  <2>2. QED
    BY <2>1 DEF IInv, DoneInv, AcceptedMeansApplied
<1>2. QED
  BY <1>1, AloneAlways, PTL

(* With one command at a time, a body is appended to a note at most once   *)
(* (_append_merge_body_to_note), however often accepting is stopped and    *)
(* repeated.                                                               *)
THEOREM MergedOnceHolds == ASSUME Serialized PROVE Spec => []MergedOnce
<1>1. IInv => MergedOnce
  BY DEF IInv, MarkInv
<1>2. QED
  BY <1>1, AloneAlways, PTL

(* With one command at a time, an accepted item makes no more notes and    *)
(* goes into no more bodies (accept_review_item's early return).           *)
THEOREM SettledIsQuietHolds == ASSUME Serialized PROVE Spec => SettledIsQuiet
<1> DEFINE Quiet == \A k \in Keys : Is(k, "accepted") =>
             made'[k] = made[k] /\ \A t \in Targets : bodies'[<<t, k>>] = bodies[<<t, k>>]
<1>1. ASSUME TypeOK, IdInv, IInv, [Next]_vars PROVE [Quiet]_vars
  <2>1. ASSUME UNCHANGED notes PROVE Quiet
    BY <2>1 DEF notes
  <2>2. ASSUME NEW p \in Procs, Apply(p), NEW k \in Keys, Is(k, "accepted")
        PROVE  made'[k] = made[k] /\ \A t \in Targets : bodies'[<<t, k>>] = bodies[<<t, k>>]
    <3>1. MovesOn(p)
      BY <1>1, <2>2, ApplyMoves
    <3>2. IsOpen(Key(p)) /\ Key(p) \in Keys
      BY <1>1, <2>2, <3>1, AtWork DEF MovesOn
    <3>3. Key(p) # k
      BY <2>2, <3>2 DEF IsOpen, Is, Open
    <3>4. made'[k] = made[k]
      BY <1>1, <2>2, <3>3
         DEF Apply, CreateNote, CiteInNote, MergeBody, MergeSource, Acknowledge, TypeOK
    <3>5. ASSUME NEW t \in Targets PROVE bodies'[<<t, k>>] = bodies[<<t, k>>]
      <4>1. CASE bodies' = bodies
        BY <4>1
      <4>2. ASSUME NEW u \in Targets, bodies' = [bodies EXCEPT ![<<u, Key(p)>>] = @ + 1]
            PROVE  bodies'[<<t, k>>] = bodies[<<t, k>>]
        BY <1>1, <3>2, <3>3, <4>2 DEF TypeOK
      <4>3. QED
        BY <2>2, <4>1, <4>2
           DEF Apply, CreateNote, CiteInNote, MergeBody, MergeSource, Acknowledge
    <3>6. QED
      BY <3>4, <3>5
  <2>3. ASSUME NEW p \in Procs, Begins(p) \/ WriteState(p) \/ Stop(p) PROVE UNCHANGED notes
    BY <2>3 DEF Begins, Begin, WriteState, Stop
  <2>4. QED
    BY <1>1, <2>1, <2>2, <2>3, Steps DEF TypeOK
<1>2. QED
  BY <1>1, AloneAlways, PTL DEF Spec, SettledIsQuiet

(* With one command at a time, an item that is in review-items.json stays  *)
(* there: what _write_state replaces is what the command has read.         *)
THEOREM RememberedHolds == ASSUME Serialized PROVE Spec => Remembered
<1> DEFINE Stays == \A k \in Keys : items[k] # None => items'[k] # None
<1>1. ASSUME TypeOK, IdInv, IInv, [Next]_vars PROVE [Stays]_vars
  <2>1. ASSUME NEW p \in Procs, Begins(p) \/ Stop(p) PROVE items' = items
    BY <2>1 DEF Begins, Begin, Stop
  <2>2. ASSUME NEW p \in Procs, Apply(p) PROVE items' = items
    BY <1>1, <2>2, ApplyMoves DEF MovesOn
  <2>3. ASSUME NEW p \in Procs, WriteState(p) PROVE Stays
    <3>1. cmd[p].read = items /\ InHand(p)
      BY <1>1, <2>3 DEF WriteState, IInv, SerialInv, IdInv
    <3>2. QED
      BY <1>1, <2>3, <3>1 DEF WriteState, InHand, Key, TypeOK
  <2>4. QED
    BY <1>1, <2>1, <2>2, <2>3, Steps DEF TypeOK
<1>2. QED
  BY <1>1, AloneAlways, PTL DEF Spec, Remembered

-----------------------------------------------------------------------------
(* The queue implements ReviewLife.                                        *)

(* How ReviewLife sees an item.                                            *)
Seen(item) == IF item = None THEN "none"
              ELSE IF item.status \in Open THEN "open" ELSE item.status

LEMMA StatusSeen ==
  /\ Status = [k \in Keys |-> Seen(items[k])]
  /\ Status' = [k \in Keys |-> Seen(items'[k])]
BY DEF Status, Seen, IsOpen

(* Done, and Done in the next state, by the kind of the item.              *)
LEMMA DoneCases ==
  ASSUME NEW k \in Keys
  PROVE
    /\ Kind[k] \notin Effects => Done(k) /\ Done(k)'
    /\ Kind[k] = "classification" =>
         /\ Done(k) <=> made[k] > 0 \/ \E t \in Targets : <<t, k>> \in cites
         /\ Done(k)' <=> made'[k] > 0 \/ \E t \in Targets : <<t, k>> \in cites'
    /\ Kind[k] = "merge" =>
         /\ Done(k) <=> /\ TargetsOf[k] # {}
                        /\ \A t \in TargetsOf[k] : bodies[<<t, k>>] > 0 /\ <<t, k>> \in cites
         /\ Done(k)' <=> /\ TargetsOf[k] # {}
                         /\ \A t \in TargetsOf[k] : bodies'[<<t, k>>] > 0 /\ <<t, k>> \in cites'
    /\ Kind[k] = "dispute" =>
         /\ Done(k) <=> /\ items[k] # None /\ TargetsOf[k] # {}
                        /\ \A t \in TargetsOf[k] : <<t, IdOf(k, items[k])>> \in acks
         /\ Done(k)' <=> /\ items'[k] # None /\ TargetsOf[k] # {}
                         /\ \A t \in TargetsOf[k] : <<t, IdOf(k, items'[k])>> \in acks'
BY DEF Done, Effects, IdOf

(* At first no question is asked and nothing has been done.                *)
LEMMA LifeInit == Init => Abstract!Init
<1> SUFFICES ASSUME Init PROVE Abstract!Init
  OBVIOUS
<1>1. Status = [k \in Keys |-> "none"]
  BY StatusSeen DEF Init, Seen
<1>2. \A k \in Keys : Done(k) <=> Kind[k] \notin Effects
  BY DoneCases, Constants DEF Init, Effects
<1>3. Applied = Effectless
  BY <1>2 DEF Applied, Effectless
<1>4. QED
  BY <1>1, <1>3 DEF Abstract!Init

(* A step that leaves the file and the notes alone does nothing.           *)
LEMMA LifeIdle ==
  ASSUME UNCHANGED <<items, notes>> PROVE UNCHANGED <<Status, Applied>>
<1>1. \A k \in Keys : Done(k)' <=> Done(k)
  BY DEF Done, notes, IdOf
<1>2. QED
  BY <1>1, StatusSeen DEF Applied

(* Accepting an open item does what this one item proposes.                *)
LEMMA LifeApply ==
  ASSUME TypeOK, TypeOK', IdInv, IInv, NEW p \in Procs, Apply(p)
  PROVE  Abstract!Apply(Key(p)) \/ UNCHANGED <<Status, Applied>>
<1>1. MovesOn(p)
  BY ApplyMoves
<1> PICK k \in Keys : k = Key(p)
  BY <1>1, AtWork DEF MovesOn
<1>2. IsOpen(k) /\ items[k] # None /\ ItsId(p) = IdOf(k, items[k]) /\ items' = items
  BY <1>1, AtWork DEF MovesOn
<1>3. Status' = Status /\ Status[k] = "open"
  BY <1>2, StatusSeen DEF Seen, IsOpen
<1>3a. /\ made' = made \/ made' = [made EXCEPT ![k] = @ + 1]
       /\ \/ bodies' = bodies
          \/ \E u \in Targets : bodies' = [bodies EXCEPT ![<<u, k>>] = @ + 1]
       /\ cites' = cites \/ \E u : cites' = cites \cup {<<u, k>>}
       /\ acks' = acks \/ \E u : acks' = acks \cup {<<u, ItsId(p)>>}
  BY DEF Apply, CreateNote, CiteInNote, MergeBody, MergeSource, Acknowledge
<1>4. ASSUME NEW j \in Keys, j # k
      PROVE  /\ made'[j] = made[j]
             /\ \A t \in Targets : bodies'[<<t, j>>] = bodies[<<t, j>>]
             /\ \A t \in Targets : <<t, j>> \in cites' <=> <<t, j>> \in cites
  <2>1. made'[j] = made[j]
    BY <1>3a, <1>4 DEF TypeOK
  <2>2. ASSUME NEW t \in Targets PROVE bodies'[<<t, j>>] = bodies[<<t, j>>]
    <3>1. ASSUME NEW u \in Targets, bodies' = [bodies EXCEPT ![<<u, k>>] = @ + 1]
          PROVE  bodies'[<<t, j>>] = bodies[<<t, j>>]
      BY <1>4, <3>1 DEF TypeOK
    <3>2. QED
      BY <1>3a, <3>1
  <2>3. ASSUME NEW t \in Targets PROVE <<t, j>> \in cites' <=> <<t, j>> \in cites
    BY <1>3a, <1>4
  <2>4. QED
    BY <2>1, <2>2, <2>3
<1>5. /\ made'[k] >= made[k] /\ cites \subseteq cites' /\ acks \subseteq acks'
      /\ \A t \in Targets : bodies'[<<t, k>>] >= bodies[<<t, k>>]
  <2>1. made'[k] >= made[k]
    BY <1>3a DEF TypeOK
  <2>2. cites \subseteq cites' /\ acks \subseteq acks'
    BY <1>3a
  <2>3. ASSUME NEW t \in Targets PROVE bodies'[<<t, k>>] >= bodies[<<t, k>>]
    <3>1. bodies[<<t, k>>] \in Nat
      BY DEF TypeOK
    <3>2. ASSUME NEW u \in Targets, bodies' = [bodies EXCEPT ![<<u, k>>] = @ + 1]
          PROVE  bodies'[<<t, k>>] >= bodies[<<t, k>>]
      <4>1. bodies'[<<t, k>>] = IF u = t THEN bodies[<<t, k>>] + 1 ELSE bodies[<<t, k>>]
        BY <3>2 DEF TypeOK
      <4>2. QED
        BY <3>1, <4>1
    <3>3. CASE bodies' = bodies
      BY <3>1, <3>3
    <3>4. QED
      BY <1>3a, <3>2, <3>3
  <2>4. QED
    BY <2>1, <2>2, <2>3
<1>6. \A a \in acks' : a \in acks \/ a[2] = ItsId(p)
  BY <1>3a
<1>7. ASSUME NEW j \in Keys, j # k PROVE Done(j)' <=> Done(j)
  <2>1. CASE Kind[j] = "dispute"
    <3>1. items[j] # None => IdOf(j, items[j]) # ItsId(p)
      BY <1>2, <1>7 DEF IdInv, Numbered
    <3>2. items[j] # None =>
            \A t \in Targets : <<t, IdOf(j, items[j])>> \in acks'
                                 <=> <<t, IdOf(j, items[j])>> \in acks
      BY <1>5, <1>6, <3>1
    <3>3. QED
      BY <1>2, <2>1, <3>2, DoneCases, Constants
  <2>2. CASE Kind[j] # "dispute"
    BY <1>4, <1>7, <2>2, DoneCases, Constants DEF Effects
  <2>3. QED
    BY <2>1, <2>2
<1>8. Done(k) => Done(k)'
  <2>1. CASE Kind[k] = "classification"
    <3>1. made[k] > 0 => made'[k] > 0
      BY <1>5 DEF TypeOK
    <3>2. QED
      BY <1>5, <2>1, <3>1, DoneCases
  <2>2. CASE Kind[k] = "merge"
    BY <1>5, <2>2, DoneCases, Constants DEF TypeOK
  <2>3. CASE Kind[k] = "dispute"
    BY <1>2, <1>5, <2>3, DoneCases
  <2>4. CASE Kind[k] \notin Effects
    BY <2>4, DoneCases
  <2>5. QED
    BY <2>1, <2>2, <2>3, <2>4 DEF Effects
<1>9. Applied' = Applied \/ Applied' = Applied \cup {k}
  BY <1>7, <1>8 DEF Applied
<1>10. QED
  BY <1>3, <1>9 DEF Abstract!Apply

(* A write of the file turns one question, as it may be turned.            *)
LEMMA LifeWrite ==
  ASSUME TypeOK, TypeOK', IdInv, IdInv', IInv, IInv', NEW p \in Procs, WriteState(p)
  PROVE  [Abstract!Next]_<<Status, Applied>>
<1>1. cmd[p].read = items /\ InHand(p) /\ Progress(p, cmd[p].key, cmd[p].item)
  BY DEF WriteState, IdInv, IInv, WorkInv, SerialInv
<1> PICK k \in Keys, i \in Item :
      /\ k = cmd[p].key /\ i = cmd[p].item
      /\ KeepsId(items, k, i) /\ Turns(items, k, i) /\ Progress(p, k, i)
  BY <1>1 DEF InHand
<1>2. items' = [items EXCEPT ![k] = i] /\ UNCHANGED notes /\ cmd[p].at = "write"
  BY <1>1 DEF WriteState, Key
<1>3. \A j \in Keys : items'[j] = IF j = k THEN i ELSE items[j]
  BY <1>2 DEF TypeOK
<1>4. ASSUME NEW j \in Keys PROVE Done(j)' <=> Done(j)
  <2>1. CASE Kind[j] = "dispute" /\ items[j] = None /\ j = k
    <3>1. ~Done(j)
      BY <2>1, DoneCases
    <3>2. ASSUME Done(j)' PROVE FALSE
      <4>1. PICK t \in TargetsOf[k] : <<t, IdOf(k, items'[k])>> \in acks
        BY <1>2, <2>1, <3>2, DoneCases DEF notes
      <4>2. PICK l \in Keys : items[l] # None /\ IdOf(k, items'[k]) = IdOf(l, items[l])
        BY <4>1 DEF IInv, AckInv
      <4>3. l # k /\ items'[l] = items[l] /\ items'[k] # None
        BY <1>3, <2>1, <4>2, Constants
      <4>4. QED
        BY <4>2, <4>3 DEF IdInv, Numbered, IdOf
    <3>3. QED
      BY <3>1, <3>2
  <2>2. CASE Kind[j] = "dispute" /\ (items[j] # None \/ j # k)
    <3>1. items[j] # None <=> items'[j] # None
      BY <1>3, <2>2, Constants
    <3>2. items[j] # None => IdOf(j, items'[j]) = IdOf(j, items[j])
      BY <1>3, <2>2 DEF KeepsId, IdOf
    <3>3. QED
      BY <1>2, <2>2, <3>1, <3>2, DoneCases DEF notes
  <2>3. CASE Kind[j] # "dispute"
    BY <1>2, <2>3, DoneCases DEF notes, Effects
  <2>4. QED
    BY <2>1, <2>2, <2>3
<1>5. Applied' = Applied
  BY <1>4 DEF Applied
<1>6. Status' = [Status EXCEPT ![k] = Seen(i)]
  BY <1>3, StatusSeen
<1>7. Status[k] = Seen(items[k])
  BY StatusSeen
<1>8. i # None /\ i.status \in Open \cup Resolved
  BY Constants DEF Item
<1>9. CASE items[k] = None
  <2>1. Status[k] = "none" /\ Seen(i) = "open"
    BY <1>7, <1>8, <1>9 DEF Seen, Turns
  <2>2. Abstract!Ask(k)
    BY <1>5, <1>6, <2>1 DEF Abstract!Ask, Abstract!Turn
  <2>3. QED
    BY <2>2 DEF Abstract!Next
<1>10. CASE IsOpen(k)
  <2>1. Status[k] = "open"
    BY <1>7, <1>10 DEF Seen, IsOpen
  <2>2. CASE i.status \in Open
    <3>1. Seen(i) = "open"
      BY <1>8, <2>2 DEF Seen
    <3>2. Status' = Status
      BY <1>6, <2>1, <3>1 DEF Status
    <3>3. QED
      BY <1>5, <3>2
  <2>3. CASE i.status = "accepted"
    <3>1. DoneAs(k, i) /\ Kind[k] # "hygiene"
      BY <1>2, <1>10, <2>3 DEF Progress, Turns, IsOpen
    <3>2. Is(k, "accepted")' /\ items'[k] = i
      BY <1>3, <1>8, <2>3 DEF Is
    <3>3. Done(k)
      BY <1>2, <1>4, <3>1, <3>2, DoneCases
         DEF DoneAs, Merged, Settled, notes, Effects, IdOf, Is
    <3>4. Seen(i) = "accepted" /\ k \in Applied
      BY <1>8, <2>3, <3>3 DEF Seen, Open, Applied
    <3>5. Abstract!Accept(k)
      BY <1>5, <1>6, <2>1, <3>4 DEF Abstract!Accept, Abstract!Turn
    <3>6. QED
      BY <3>5 DEF Abstract!Next
  <2>4. CASE i.status = "rejected"
    <3>1. Seen(i) = "rejected"
      BY <1>8, <2>4 DEF Seen, Open
    <3>2. Abstract!Reject(k)
      BY <1>5, <1>6, <2>1, <3>1 DEF Abstract!Reject, Abstract!Turn
    <3>3. QED
      BY <3>2 DEF Abstract!Next
  <2>5. QED
    BY <1>8, <2>2, <2>3, <2>4 DEF Resolved
<1>11. CASE Is(k, "rejected")
  <2>1. Status[k] = "rejected" /\ Seen(i) = "open" /\ k \in Recurring
    BY <1>7, <1>8, <1>11 DEF Seen, Is, Turns, Open
  <2>2. Abstract!Reopen(k)
    BY <1>5, <1>6, <2>1 DEF Abstract!Reopen, Abstract!Turn
  <2>3. QED
    BY <2>2 DEF Abstract!Next
<1>12. ~Is(k, "accepted")
  BY DEF Is, Turns, IInv, DoneInv
<1>13. QED
  BY <1>9, <1>10, <1>11, <1>12 DEF IsOpen, Is, TypeOK, Item, Resolved

(* With one command at a time, the queue implements ReviewLife: each       *)
(* question is asked once and stays, its proposal is carried out only      *)
(* while it is open and before it is accepted, and it comes back only if   *)
(* it was rejected and is of a kind that recurs.                           *)
THEOREM QueueRefines == ASSUME Serialized PROVE Spec => ImplementsReviewLife
<1>1. ASSUME TypeOK, IdInv, IInv, [Next]_vars
      PROVE  [Abstract!Next]_<<Status, Applied>>
  <2>0. TypeOK' /\ IdInv' /\ IInv'
    BY <1>1, Keeping, KeepingAlone
  <2>1. ASSUME NEW p \in Procs, Begins(p) \/ Stop(p)
        PROVE  [Abstract!Next]_<<Status, Applied>>
    BY <2>1, LifeIdle DEF Begins, Begin, Stop
  <2>2. ASSUME NEW p \in Procs, Apply(p) PROVE [Abstract!Next]_<<Status, Applied>>
    <3>1. Key(p) \in Keys
      BY <1>1, <2>2, ApplyMoves, AtWork DEF MovesOn
    <3>2. QED
      BY <1>1, <2>0, <2>2, <3>1, LifeApply DEF Abstract!Next
  <2>3. ASSUME NEW p \in Procs, WriteState(p) PROVE [Abstract!Next]_<<Status, Applied>>
    BY <1>1, <2>0, <2>3, LifeWrite
  <2>4. ASSUME UNCHANGED <<items, notes>> PROVE [Abstract!Next]_<<Status, Applied>>
    BY <2>4, LifeIdle
  <2>5. QED
    BY <1>1, <2>1, <2>2, <2>3, <2>4, Steps DEF TypeOK
<1>2. QED
  BY <1>1, LifeInit, AloneAlways, PTL
     DEF Spec, ImplementsReviewLife, Abstract!Spec, Abstract!vars

===============================================================================
