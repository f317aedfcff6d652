---------------------------- MODULE HygieneProofs ----------------------------
(***************************************************************************)
(* For any notes, reasons, thresholds and bounds: hygiene scans settle,    *)
(* and no suspect flag is forgotten.                                       *)
(***************************************************************************)
EXTENDS Hygiene, TLAPS

(* None is no review item.                                                 *)
NoneIsNoItem == \A status, facts : None # [status |-> status, facts |-> facts]

-------------------------------------------------------------------------------
(* The types that matter: what is counted, and what a queue holds.         *)
Item(i) == \/ i = None
           \/ \E status, facts : i = [status |-> status, facts |-> facts]

Types ==
  /\ items = [k \in Keys |-> items[k]]
  /\ \A k \in Keys : Item(items[k])
  /\ DOMAIN use = Notes
  /\ \A n \in Notes : "flags" \in DOMAIN use[n] /\ use[n].flags \in Seq(Reasons)
  /\ cmd.at = "flag" => cmd.about \in Notes /\ cmd.reason \in Reasons

(* What a scan would find has its item, as it would be written now.        *)
Wanted(k) == k[2] \in Present /\ Found(k[1], k[2])
Current(k) == items[k] # None /\ items[k].facts = FactsOf(k[1], k[2])
Settled == quiet => \A k \in ScanKeys : Wanted(k) => Current(k)

(* A dispute counts the flags there were; the one that is being dealt with *)
(* is not among them yet, unless its line was swallowed.                   *)
Dispute(n) == items[<<"dispute", n>>]
Counted ==
  \A n \in Notes : Dispute(n) # None =>
    /\ Dispute(n).facts.suspects \in 0..Flags(n)
    /\ cmd.at = "flag" /\ cmd.about = n /\ ~cmd.lost => Dispute(n).facts.suspects < Flags(n)

Inv == Types /\ Settled /\ Counted

-------------------------------------------------------------------------------
(* The keys of a scan are those of three queues.                           *)
LEMMA QueueNames ==
  /\ ScanKeys \subseteq Keys
  /\ \A n \in Notes : <<"dispute", n>> \in Keys \ ScanKeys /\ <<"low_utility", n>> \in ScanKeys
BY DEF ScanKeys, Keys, Hygienic

(* A record with the fields of an item is one.                             *)
LEMMA ItemsAreItems ==
  ASSUME NoneIsNoItem, NEW status, NEW facts
  PROVE  LET i == [status |-> status, facts |-> facts] IN Item(i) /\ i # None
<1> DEFINE i == [status |-> status, facts |-> facts]
<1>1. i # None
  BY Zenon DEF NoneIsNoItem
<1>2. Item(i)
  BY Zenon DEF Item
<1> QED
  BY <1>1, <1>2

(* An upsert leaves an open item with the payload, or one that has had it  *)
(* before.                                                                 *)
LEMMA Upserting ==
  ASSUME NoneIsNoItem, Types, NEW k \in Keys, NEW facts
  PROVE  LET new == Refreshed(items, k, facts) IN
         /\ new = [j \in Keys |-> new[j]]
         /\ \A j \in Keys \ {k} : new[j] = items[j]
         /\ new[k] # None /\ new[k].facts = facts /\ Item(new[k])
         /\ new[k] = items[k] \/ new[k].status = "pending"
         /\ new = items \/ new[k] = Pending(facts)
<1>1. CASE items[k] # None /\ items[k].facts = facts
  BY <1>1 DEF Refreshed, Types
<1>2. CASE ~(items[k] # None /\ items[k].facts = facts)
  <2>1. Refreshed(items, k, facts) = [items EXCEPT ![k] = Pending(facts)]
    BY <1>2 DEF Refreshed
  <2>2. DOMAIN items = Keys
    BY DEF Types
  <2>3. Pending(facts).facts = facts /\ Pending(facts).status = "pending"
    BY DEF Pending
  <2>4. Pending(facts) # None /\ Item(Pending(facts))
    BY ItemsAreItems DEF Pending
  <2> QED
    BY <2>1, <2>2, <2>3, <2>4
<1> QED
  BY <1>1, <1>2

-------------------------------------------------------------------------------
(* What is found in a note depends on the notes, the day and the log.      *)
LEMMA FindingsStay ==
  ASSUME UNCHANGED <<notes, day, use>>
  PROVE  /\ Present' = Present
         /\ \A n : Flags(n)' = Flags(n)
         /\ \A q, n : Found(q, n)' = Found(q, n) /\ FactsOf(q, n)' = FactsOf(q, n)
<1>1. Present' = Present /\ \A n : Flags(n)' = Flags(n)
  BY DEF Present, Flags
<1>2. \A n : Corrections(n)' = Corrections(n)
  BY DEF Corrections
<1>3. \A n : Age(n)' = Age(n) /\ Weeks(n)' = Weeks(n)
  BY DEF Age, Weeks
<1>4. \A n : IsStale(n)' = IsStale(n) /\ StaleFacts(n)' = StaleFacts(n)
  BY <1>3 DEF IsStale, StaleFacts
<1>5. \A n : IsOrphan(n)' = IsOrphan(n) /\ OrphanFacts(n)' = OrphanFacts(n)
  BY <1>1, <1>3 DEF IsOrphan, OrphanFacts, Inbound, Neighbours, Recent
<1>6. \A n : IsLowUtility(n)' = IsLowUtility(n)
  BY <1>1 DEF IsLowUtility
<1>7. \A n : LowFacts(n, None)' = LowFacts(n, None)
  BY <1>1, <1>2 DEF LowFacts
<1> QED
  BY <1>1, <1>4, <1>5, <1>6, <1>7 DEF Found, FactsOf

-------------------------------------------------------------------------------
LEMMA InitInv == Init => Inv
<1> SUFFICES ASSUME Init PROVE Inv
  OBVIOUS
<1>1. Types
  <2>1. items = [k \in Keys |-> items[k]] /\ \A k \in Keys : Item(items[k])
    BY DEF Init, Item
  <2>2. DOMAIN use = Notes /\ \A n \in Notes : use[n] = Unused
    BY DEF Init
  <2>3. "flags" \in DOMAIN Unused /\ Unused.flags = <<>>
    BY DEF Unused
  <2>4. cmd.at = "idle"
    BY DEF Init, Idle
  <2>5. \A n \in Notes : "flags" \in DOMAIN use[n] /\ use[n].flags \in Seq(Reasons)
    <3>1. <<>> \in Seq(Reasons)
      OBVIOUS
    <3> QED
      BY <2>2, <2>3, <3>1, Zenon
  <2> QED
    BY <2>1, <2>2, <2>4, <2>5, Zenon DEF Types
<1>2. Settled
  BY DEF Init, Settled
<1>3. Counted
  BY QueueNames DEF Init, Counted, Dispute
<1> QED
  BY <1>1, <1>2, <1>3 DEF Inv

(* Whoever resets quiet need not care about scans.                         *)
LEMMA Unsettled == ASSUME quiet' = FALSE PROVE Settled'
BY DEF Settled

(* Steps that touch neither items nor the log.                             *)
LEMMA CountedStays ==
  ASSUME Counted, items' = items, use' = use, cmd' = cmd \/ cmd'.at = "idle"
  PROVE  Counted'
BY DEF Counted, Dispute, Flags

(* A reviewer's decision changes a status and nothing else.                *)
LEMMA ResolveKeepsInv ==
  ASSUME NoneIsNoItem, Inv, NEW k \in Keys, Resolve(k)
  PROVE  Inv'
<1>1. /\ items[k] # None /\ items' = [items EXCEPT ![k].status = "resolved"]
      /\ UNCHANGED <<notes, day, use, cmd, quiet>>
  BY DEF Resolve
<1>2. PICK status, facts : items[k] = [status |-> status, facts |-> facts]
  BY <1>1 DEF Inv, Types, Item
<1>3. /\ DOMAIN items = Keys
      /\ items' = [items EXCEPT ![k] = [status |-> "resolved", facts |-> facts]]
  <2>1. DOMAIN items = Keys
    BY DEF Inv, Types
  <2>2. [items[k] EXCEPT !.status = "resolved"] = [status |-> "resolved", facts |-> facts]
    BY <1>2
  <2>3. items' = [items EXCEPT ![k] = [items[k] EXCEPT !.status = "resolved"]]
    BY <1>1
  <2> QED
    BY <2>1, <2>2, <2>3
<1>4. /\ items' = [j \in Keys |-> items'[j]] /\ \A j \in Keys \ {k} : items'[j] = items[j]
      /\ items'[k] = [status |-> "resolved", facts |-> facts]
  BY <1>3
<1>5. items'[k].facts = items[k].facts /\ items'[k] # None /\ Item(items'[k])
  BY <1>2, <1>4, ItemsAreItems
<1>6. Types'
  BY <1>1, <1>4, <1>5 DEF Inv, Types
<1>7. Settled'
  <2>1. \A j \in ScanKeys : Wanted(j)' = Wanted(j)
    BY <1>1, FindingsStay DEF Wanted
  <2>2. \A j \in ScanKeys : Current(j) => Current(j)'
    BY <1>1, <1>4, <1>5, FindingsStay, QueueNames DEF Current
  <2> QED
    BY <1>1, <2>1, <2>2 DEF Inv, Settled
<1>8. Counted'
  <2>1. \A n \in Notes : Dispute(n)' # None =>
          Dispute(n) # None /\ Dispute(n)'.facts = Dispute(n).facts
    BY <1>1, <1>4, <1>5, QueueNames DEF Dispute
  <2> QED
    BY <1>1, <2>1, FindingsStay DEF Inv, Counted
<1> QED
  BY <1>6, <1>7, <1>8 DEF Inv

(* Days pass, notes change, lines are cut short, commands are killed.      *)
LEMMA WorldKeepsInv ==
  ASSUME Inv,
         \/ \E days \in Jumps : Pass(days)
         \/ \E n \in Notes, note \in Note \cup {None} : EditNote(n, note)
         \/ CutShort \/ Stop
  PROVE  Inv'
<1>1. UNCHANGED <<use, items>> /\ (cmd' = cmd \/ cmd' = Idle)
  BY DEF Pass, EditNote, CutShort, Stop
<1>2. cmd' = cmd \/ cmd'.at = "idle"
  BY <1>1 DEF Idle
<1>3. Types'
  BY <1>1, <1>2 DEF Inv, Types
<1>4. Counted'
  BY <1>1, <1>2, CountedStays DEF Inv
<1>5. quiet' = FALSE \/ UNCHANGED <<notes, day, quiet>>
  BY DEF Pass, EditNote, CutShort, Stop
<1>6. Settled'
  BY <1>1, <1>5, FindingsStay, Unsettled DEF Inv, Settled, Wanted, Current
<1> QED
  BY <1>3, <1>4, <1>6 DEF Inv

-------------------------------------------------------------------------------
(* A line appended to the log, or swallowed.                               *)
LEMMA AppendKeeps ==
  ASSUME Types, NEW n \in Notes, NEW u, AppendUse(n, u),
         "flags" \in DOMAIN u, u.flags \in Seq(Reasons)
  PROVE  /\ DOMAIN use' = Notes
         /\ \A m \in Notes : "flags" \in DOMAIN use'[m] /\ use'[m].flags \in Seq(Reasons)
         /\ \A m \in Notes : use'[m].flags = IF m = n /\ ~torn THEN u.flags ELSE use[m].flags
<1>1. DOMAIN Seen(u) = DOMAIN u /\ Seen(u).flags = u.flags
  BY DEF Seen
<1>2. use' = IF torn THEN use ELSE [use EXCEPT ![n] = Seen(u)]
  BY DEF AppendUse
<1> QED
  BY <1>1, <1>2 DEF Types

(* Retrievals and uses leave the flags as they are.                        *)
LEMMA UseKeepsInv ==
  ASSUME Inv, NEW n \in Notes,
         \/ \E weak \in BOOLEAN, times \in Bursts : Retrieve(n, weak, times)
         \/ LogUse(n)
  PROVE  Inv'
<1>1. \E u : /\ AppendUse(n, u) /\ DOMAIN u = DOMAIN use[n] /\ u.flags = use[n].flags
  <2>1. ASSUME NEW weak \in BOOLEAN, NEW times \in Bursts, Retrieve(n, weak, times)
        PROVE  \E u : /\ AppendUse(n, u) /\ DOMAIN u = DOMAIN use[n] /\ u.flags = use[n].flags
    <3> DEFINE u == [use[n] EXCEPT !.retrieved = @ + times,
                                   !.weak = IF weak THEN @ + times ELSE @,
                                   !.recent = day]
    <3>1. DOMAIN u = DOMAIN use[n] /\ u.flags = use[n].flags
      OBVIOUS
    <3>2. AppendUse(n, u)
      BY <2>1 DEF Retrieve
    <3> HIDE DEF u
    <3> QED
      BY <3>1, <3>2
  <2>2. ASSUME LogUse(n)
        PROVE  \E u : /\ AppendUse(n, u) /\ DOMAIN u = DOMAIN use[n] /\ u.flags = use[n].flags
    <3> DEFINE u == [use[n] EXCEPT !.used = @ + 1, !.recent = day]
    <3>1. DOMAIN u = DOMAIN use[n] /\ u.flags = use[n].flags
      OBVIOUS
    <3>2. AppendUse(n, u)
      BY <2>2 DEF LogUse
    <3> HIDE DEF u
    <3> QED
      BY <3>1, <3>2
  <2> QED
    BY <2>1, <2>2
<1>2. UNCHANGED <<items, cmd>> /\ quiet' = FALSE
  BY DEF Retrieve, LogUse, AppendUse
<1>3. /\ DOMAIN use' = Notes
      /\ \A m \in Notes : "flags" \in DOMAIN use'[m] /\ use'[m].flags \in Seq(Reasons)
      /\ \A m \in Notes : use'[m].flags = use[m].flags
  BY <1>1, AppendKeeps DEF Inv, Types
<1>4. Types'
  BY <1>2, <1>3 DEF Inv, Types
<1>5. Counted'
  BY <1>2, <1>3 DEF Inv, Counted, Dispute, Flags
<1> QED
  BY <1>2, <1>4, <1>5, Unsettled DEF Inv

(* A flag: one more than any dispute counts, unless it is swallowed.       *)
LEMMA FlagKeepsInv ==
  ASSUME Inv, NEW n \in Notes, NEW reason \in Reasons, Flag(n, reason)
  PROVE  Inv'
<1> DEFINE u == [use[n] EXCEPT !.flags = Append(@, reason)]
<1>1. /\ AppendUse(n, u) /\ items' = items /\ quiet' = FALSE
      /\ cmd' = [at |-> "flag", about |-> n, reason |-> reason, lost |-> torn]
  BY DEF Flag, AppendUse
<1>2. /\ u.flags = Append(use[n].flags, reason) /\ "flags" \in DOMAIN u
      /\ u.flags \in Seq(Reasons) /\ Len(u.flags) = Len(use[n].flags) + 1
      /\ \A m \in Notes : Len(use[m].flags) \in Nat
  BY DEF Inv, Types
<1> HIDE DEF u
<1>3. /\ DOMAIN use' = Notes
      /\ \A m \in Notes : "flags" \in DOMAIN use'[m] /\ use'[m].flags \in Seq(Reasons)
      /\ \A m \in Notes : use'[m].flags = IF m = n /\ ~torn THEN u.flags ELSE use[m].flags
  BY <1>1, <1>2, AppendKeeps DEF Inv
<1>4. Types'
  BY <1>1, <1>3 DEF Inv, Types
<1>5. Counted'
  <2> SUFFICES ASSUME NEW m \in Notes, Dispute(m) # None
               PROVE  /\ Dispute(m).facts.suspects \in 0..Flags(m)'
                      /\ m = n /\ ~torn => Dispute(m).facts.suspects < Flags(m)'
    BY <1>1 DEF Counted, Dispute
  <2>1. Dispute(m).facts.suspects \in 0..Flags(m)
    BY DEF Inv, Counted
  <2>2. /\ Flags(m) \in Nat
        /\ Flags(m)' = IF m = n /\ ~torn THEN Flags(m) + 1 ELSE Flags(m)
    BY <1>2, <1>3 DEF Flags
  <2> QED
    BY <2>1, <2>2
<1> QED
  BY <1>1, <1>4, <1>5, Unsettled DEF Inv

-------------------------------------------------------------------------------
(* A scan, whole or not, upserts what it finds.                            *)
LEMMA ScanUpserts ==
  ASSUME NoneIsNoItem, Inv, NEW S \in SUBSET ScanKeys, ScanOf(S)
  PROVE  /\ Types' /\ Counted'
         /\ \A k \in Keys \ S : items'[k] = items[k]
         /\ \A k \in S : IF Wanted(k)
                         THEN Current(k)' /\ (Current(k) => items'[k] = items[k])
                         ELSE items'[k] = items[k]
<1>1. /\ items' = [k \in Keys |-> IF k \in S THEN Upserted(k) ELSE items[k]]
      /\ UNCHANGED <<notes, day, use, cmd>>
  BY DEF ScanOf
<1>2. S \subseteq Keys
  BY QueueNames
<1>3. ASSUME NEW k \in S, Wanted(k)
      PROVE  /\ Current(k)' /\ (Current(k) => items'[k] = items[k])
             /\ Item(items'[k])
  <2> DEFINE facts == FactsOf(k[1], k[2])
             new == Refreshed(items, k, facts)
  <2>1. k \in Keys /\ items'[k] = new[k]
    BY <1>1, <1>2, <1>3 DEF Upserted, Wanted
  <2>2. new[k] # None /\ new[k].facts = facts /\ Item(new[k])
    BY <2>1, Upserting DEF Inv
  <2>3. FactsOf(k[1], k[2])' = facts
    BY <1>1, FindingsStay
  <2>4. Current(k) => new = items
    BY DEF Current, Refreshed
  <2> QED
    BY <2>1, <2>2, <2>3, <2>4 DEF Current
<1>4. ASSUME NEW k \in S, ~Wanted(k) PROVE items'[k] = items[k]
  BY <1>1, <1>2, <1>4 DEF Upserted, Wanted
<1>5. \A k \in Keys \ S : items'[k] = items[k]
  BY <1>1
<1>6. Types'
  <2>1. \A k \in Keys : Item(items'[k])
    BY <1>3, <1>4, <1>5 DEF Inv, Types
  <2>2. items' = [k \in Keys |-> items'[k]]
    BY <1>1
  <2> QED
    BY <1>1, <2>1, <2>2 DEF Inv, Types
<1>7. Counted'
  <2>1. \A n \in Notes : Dispute(n)' = Dispute(n)
    BY <1>5, QueueNames DEF Dispute
  <2> QED
    BY <1>1, <2>1, FindingsStay DEF Inv, Counted
<1> QED
  BY <1>3, <1>4, <1>5, <1>6, <1>7

LEMMA ScanKeepsInv ==
  ASSUME NoneIsNoItem, Inv, Scan
  PROVE  Inv'
<1>1. ScanOf(ScanKeys) /\ quiet' = TRUE
  BY DEF Scan
<1>2. UNCHANGED <<notes, day, use>>
  BY <1>1 DEF ScanOf
<1>3. \A k \in ScanKeys : Wanted(k)' = Wanted(k)
  BY <1>2, FindingsStay DEF Wanted
<1> QED
  BY <1>1, <1>3, ScanUpserts DEF Inv, Settled

LEMMA ScanStopsKeepsInv ==
  ASSUME NoneIsNoItem, Inv, NEW k \in ScanKeys, ScanStops(k)
  PROVE  Inv'
<1>1. ScanOf(Before(k)) /\ quiet' = FALSE /\ Before(k) \in SUBSET ScanKeys
  BY DEF ScanStops, Before
<1> QED
  BY <1>1, ScanUpserts, Unsettled DEF Inv

-------------------------------------------------------------------------------
(* The second step of a flag: its item is open.                            *)
LEMMA HearOpens ==
  ASSUME NoneIsNoItem, Inv, Hear
  PROVE  /\ Inv'
         /\ ~(cmd.lost /\ cmd.reason \in Disputing) =>
              items'[<<Queue(cmd.reason), cmd.about>>].status = "pending"
<1> DEFINE n == cmd.about
           reason == cmd.reason
           k == <<Queue(reason), n>>
<1>1. /\ cmd.at = "flag" /\ n \in Notes /\ items' = Suspected(n, reason)
      /\ cmd' = Idle /\ quiet' = FALSE /\ UNCHANGED use
  BY DEF Hear, Present
<1>2. k \in Keys /\ (reason \in Disputing => k = <<"dispute", n>>)
      /\ (reason \notin Disputing => k = <<"low_utility", n>>)
  BY <1>1, QueueNames DEF Queue
<1>3. Types
  BY DEF Inv
<1> HIDE DEF k, n, reason
<1>4. PICK facts : /\ items' = Refreshed(items, k, facts)
                   /\ reason \in Disputing => facts = DisputeFacts(n, reason)
                   /\ reason \notin Disputing =>
                        items[k] = None \/ items[k].facts # facts
                        \/ items[k].status = "pending"
  <2> DEFINE hinted == Refreshed(items, k, LowFacts(n, reason))
  <2>1. CASE reason \in Disputing
    BY <1>1, <2>1 DEF Suspected, k
  <2>2. CASE reason \notin Disputing /\ hinted # items
    <3>1. items' = hinted
      BY <1>1, <2>2 DEF Suspected, k
    <3>2. items[k] = None \/ items[k].facts # LowFacts(n, reason)
      BY <2>2 DEF Refreshed
    <3> QED
      BY <2>2, <3>1, <3>2
  <2>3. CASE reason \notin Disputing /\ hinted = items
    <3>1. items' = Refreshed(items, k, PlainFacts(n, reason))
      BY <1>1, <2>3 DEF Suspected, k
    <3>2. hinted[k].facts = LowFacts(n, reason)
      BY <1>2, <1>3, Upserting
    <3>3. items[k].facts.plain = FALSE
      BY <2>3, <3>2 DEF LowFacts
    <3>4. PlainFacts(n, reason).plain = TRUE
      BY DEF PlainFacts, LowFacts
    <3>5. items[k].facts # PlainFacts(n, reason)
      BY <3>3, <3>4
    <3> QED
      BY <2>3, <3>1, <3>5
  <2> QED
    BY <2>1, <2>2, <2>3
<1>5. /\ items' = [j \in Keys |-> items'[j]] /\ \A j \in Keys \ {k} : items'[j] = items[j]
      /\ items'[k] # None /\ items'[k].facts = facts /\ Item(items'[k])
      /\ items'[k] = items[k] \/ items'[k].status = "pending"
  BY <1>2, <1>3, <1>4, Upserting
<1>6. Types'
  <2>1. \A j \in Keys : Item(items'[j])
    BY <1>2, <1>3, <1>5 DEF Types
  <2> QED
    BY <1>1, <1>3, <1>5, <2>1 DEF Types, Idle
<1>7. Flags(n) \in Nat /\ \A m \in Notes : Flags(m)' = Flags(m)
  BY <1>1, <1>3 DEF Types, Flags
<1>8. Counted'
  <2> SUFFICES ASSUME NEW m \in Notes, Dispute(m)' # None
               PROVE  Dispute(m)'.facts.suspects \in 0..Flags(m)
    BY <1>1, <1>7 DEF Counted, Idle
  <2>1. <<"dispute", m>> \in Keys
    BY QueueNames
  <2>2. CASE k = <<"dispute", m>>
    <3>1. reason \in Disputing /\ m = n
      BY <1>2, <2>2
    <3>2. Dispute(m)'.facts.suspects = Flags(n)
      BY <1>4, <1>5, <2>2, <3>1 DEF Dispute, DisputeFacts
    <3> QED
      BY <1>7, <3>1, <3>2
  <2>3. CASE k # <<"dispute", m>>
    BY <1>5, <2>1, <2>3 DEF Inv, Counted, Dispute
  <2> QED
    BY <2>2, <2>3
<1>9. ASSUME ~(cmd.lost /\ reason \in Disputing)
      PROVE  items'[k].status = "pending"
  <2>1. CASE reason \in Disputing
    <3>1. items[k] = None \/ items[k].facts.suspects < Flags(n)
      BY <1>1, <1>2, <1>9, <2>1 DEF Inv, Counted, Dispute, n
    <3>2. facts.suspects = Flags(n)
      BY <1>4, <2>1 DEF DisputeFacts
    <3>3. items'[k] # items[k]
      BY <1>5, <1>7, <3>1, <3>2
    <3> QED
      BY <1>5, <3>3
  <2>2. CASE reason \notin Disputing
    BY <1>4, <1>5, <2>2
  <2> QED
    BY <2>1, <2>2
<1> QED
  BY <1>1, <1>6, <1>8, <1>9, Unsettled DEF Inv, k, n, reason

-------------------------------------------------------------------------------
LEMMA NextInv ==
  ASSUME NoneIsNoItem, Inv, [Next]_vars
  PROVE  Inv'
<1>1. CASE Logging
  BY <1>1, UseKeepsInv, FlagKeepsInv, WorldKeepsInv DEF Logging
<1>2. CASE \/ \E n \in Notes, note \in Note \cup {None} : EditNote(n, note)
           \/ \E days \in Jumps : Pass(days)
           \/ Stop
  BY <1>2, WorldKeepsInv
<1>3. CASE Scan \/ \E k \in ScanKeys : ScanStops(k)
  BY <1>3, ScanKeepsInv, ScanStopsKeepsInv
<1>4. CASE Hear
  BY <1>4, HearOpens
<1>5. CASE \E k \in Keys : Resolve(k)
  BY <1>5, ResolveKeepsInv
<1>6. CASE UNCHANGED vars
  <2>1. UNCHANGED <<notes, day, use, items, cmd, quiet>>
    BY <1>6 DEF vars
  <2> QED
    BY <2>1, FindingsStay, CountedStays DEF Inv, Types, Settled, Wanted, Current
<1> QED
  BY <1>1, <1>2, <1>3, <1>4, <1>5, <1>6 DEF Next

LEMMA Invariant ==
  ASSUME NoneIsNoItem
  PROVE  Spec => []Inv
<1>1. Inv /\ [Next]_vars => Inv'
  BY NextInv
<1> QED
  BY InitInv, <1>1, PTL DEF Spec

(* A scan of `kb reindex --scan-clusters` opens nothing again and adds     *)
(* nothing when only reviewers have acted since the last, whatever they    *)
(* decided (scan_hygiene_queues, upsert_hygiene_review_item).              *)
THEOREM ScansSettle ==
  ASSUME NoneIsNoItem
  PROVE  Spec => ScanSettles
<1>1. Inv /\ [Next]_vars => [Scan /\ quiet => items' = items]_vars
  <2> SUFFICES ASSUME Inv, Scan, quiet PROVE items' = items
    OBVIOUS
  <2>1. ScanOf(ScanKeys) /\ items = [k \in Keys |-> items[k]]
    BY DEF Scan, Inv, Types
  <2>2. items' = [k \in Keys |-> items'[k]]
    BY <2>1, ScanUpserts DEF Types
  <2>3. \A k \in Keys : items'[k] = items[k]
    BY <2>1, ScanUpserts DEF Inv, Settled
  <2> QED
    BY <2>1, <2>2, <2>3
<1> QED
  BY Invariant, <1>1, PTL DEF Spec, ScanSettles

(* No suspect flag is forgotten: `kb flag-suspect` leaves its item open,   *)
(* whatever was decided on it before, and the next scan counts the flags   *)
(* of commands that were killed between log and queue (flag_suspect_note,  *)
(* _low_utility_candidate of hygiene.py).                                  *)
THEOREM FlagsAreHeard ==
  ASSUME NoneIsNoItem
  PROVE  Spec => FlagIsHeard
<1>1. ASSUME Inv, Scan, NEW n \in Present, use[n].flags # <<>>
      PROVE  LET item == items'[<<"low_utility", n>>] IN
             item # None /\ item.facts.counts.flags = Len(use[n].flags)
  <2> DEFINE k == <<"low_utility", n>>
  <2>1. /\ n \in Notes /\ k \in ScanKeys /\ "flags" \in DOMAIN use[n]
        /\ use[n].flags \in Seq(Reasons)
    BY QueueNames, <1>1 DEF Present, Inv, Types
  <2>2. Flags(n) \in Nat /\ Flags(n) > 0
    BY <1>1, <2>1 DEF Flags
  <2>3. Wanted(k)
    BY <2>1, <2>2 DEF Wanted, Found, IsLowUtility
  <2>4. Current(k)' /\ UNCHANGED <<notes, day, use>>
    BY <1>1, <2>1, <2>3, ScanUpserts DEF Scan, ScanOf
  <2>5. items'[k] # None /\ items'[k].facts = LowFacts(n, None)
    BY <2>4, FindingsStay DEF Current, FactsOf
  <2>6. LowFacts(n, None).counts.flags = Flags(n)
    BY <2>1 DEF LowFacts
  <2> QED
    BY <2>5, <2>6 DEF Flags
<1>2. Inv /\ [Next]_vars =>
        [/\ Hear /\ ~(cmd.lost /\ cmd.reason \in Disputing) =>
              items'[<<Queue(cmd.reason), cmd.about>>].status = "pending"
         /\ Scan =>
              \A n \in Present : use[n].flags # <<>> =>
                LET item == items'[<<"low_utility", n>>] IN
                item # None /\ item.facts.counts.flags = Len(use[n].flags)]_vars
  BY <1>1, HearOpens
<1> QED
  BY Invariant, <1>2, PTL DEF Spec, FlagIsHeard

-------------------------------------------------------------------------------
(* Types.                                                                  *)

Days == Nat \cup {None}
Uses == [retrieved : Nat, weak : Nat, used : Nat, flags : Seq(Reasons),
         recent : Days, first : Days, last : Days]

Marked == quiet \in BOOLEAN /\ torn \in BOOLEAN
Logged ==
  /\ notes \in [Notes -> Note \cup {None}]
  /\ day \in 0..LastDay /\ events \in 0..Events
  /\ use \in [Notes -> Uses]
  /\ \A n \in Notes : use[n].weak <= use[n].retrieved
  /\ cmd.at \in {"idle", "flag"}

Statuses == \A k \in Keys : items[k] # None => items[k].status \in {"pending", "resolved"}

LEMMA InitLogged ==
  ASSUME Bounds, Init PROVE Marked /\ Logged
<1>1. /\ Unused \in Uses /\ Unused.weak <= Unused.retrieved
  BY DEF Unused, Uses, Days
<1>2. use \in [Notes -> Uses] /\ \A n \in Notes : use[n].weak <= use[n].retrieved
  BY <1>1 DEF Init
<1>3. cmd.at = "idle"
  BY DEF Init, Idle
<1>4. notes \in [Notes -> Note \cup {None}] /\ day \in 0..LastDay /\ events \in 0..Events
  BY DEF Bounds, Init
<1> QED
  BY <1>2, <1>3, <1>4 DEF Init, Marked, Logged

(* The fields of a count, and the counts that differ from it in some of    *)
(* them.                                                                   *)
LEMMA FieldsOfUses ==
  ASSUME NEW u \in Uses
  PROVE  /\ u.retrieved \in Nat /\ u.weak \in Nat /\ u.used \in Nat
         /\ u.flags \in Seq(Reasons)
         /\ u.recent \in Days /\ u.first \in Days /\ u.last \in Days
  BY DEF Uses

LEMMA SeenUses ==
  ASSUME NEW u \in Uses, NEW first \in Days, NEW last \in Days
  PROVE  LET v == [u EXCEPT !.first = first, !.last = last]
         IN v \in Uses /\ v.weak = u.weak /\ v.retrieved = u.retrieved
  BY DEF Uses

LEMMA UsedUses ==
  ASSUME NEW u \in Uses, NEW used \in Nat, NEW recent \in Days
  PROVE  LET v == [u EXCEPT !.used = used, !.recent = recent]
         IN v \in Uses /\ v.weak = u.weak /\ v.retrieved = u.retrieved
  BY DEF Uses

LEMMA FlaggedUses ==
  ASSUME NEW u \in Uses, NEW flags \in Seq(Reasons)
  PROVE  LET v == [u EXCEPT !.flags = flags]
         IN v \in Uses /\ v.weak = u.weak /\ v.retrieved = u.retrieved
  BY DEF Uses

(* A line of the log.                                                      *)
LEMMA AppendKeepsLogged ==
  ASSUME Bounds, Logged, NEW n \in Notes, NEW u \in Uses, u.weak <= u.retrieved,
         Event, AppendUse(n, u), UNCHANGED <<notes, day>>, cmd'.at \in {"idle", "flag"}
  PROVE  Logged'
<1> DEFINE first == IF u.first = None THEN day ELSE u.first
<1>1. day \in Days /\ first \in Days
  BY FieldsOfUses DEF Days, Logged, Bounds
<1>2. Seen(u) = [u EXCEPT !.first = first, !.last = day]
  BY DEF Seen
<1> HIDE DEF first
<1>3. Seen(u) \in Uses /\ Seen(u).weak = u.weak /\ Seen(u).retrieved = u.retrieved
  <2> DEFINE v == [u EXCEPT !.first = first, !.last = day]
  <2>1. v \in Uses /\ v.weak = u.weak /\ v.retrieved = u.retrieved
    BY <1>1, SeenUses
  <2> HIDE DEF v
  <2>2. Seen(u) = v
    BY <1>2 DEF v
  <2> QED
    BY <2>1, <2>2
<1>4. use' = use \/ use' = [use EXCEPT ![n] = Seen(u)]
  BY DEF AppendUse
<1>5. use' \in [Notes -> Uses] /\ \A m \in Notes : use'[m].weak <= use'[m].retrieved
  BY <1>3, <1>4 DEF Logged
<1>6. events' \in 0..Events
  BY DEF Event, Logged, Bounds
<1> QED
  BY <1>5, <1>6 DEF Logged

LEMMA LoggingKeepsLogged ==
  ASSUME Bounds, Logged, Logging PROVE Logged'
<1>1. \A n \in Notes : use[n] \in Uses /\ use[n].weak <= use[n].retrieved
  BY DEF Logged
<1>2. day \in Days
  BY DEF Logged, Bounds, Days
<1>3. ASSUME NEW n \in Notes, NEW weak \in BOOLEAN, NEW times \in Bursts,
             Retrieve(n, weak, times)
      PROVE  Logged'
  <2> DEFINE found == use[n].retrieved + times
             poor == IF weak THEN use[n].weak + times ELSE use[n].weak
             u == [use[n] EXCEPT !.retrieved = found, !.weak = poor, !.recent = day]
  <2>1. /\ found \in Nat /\ poor \in Nat /\ poor <= found
    BY <1>1, FieldsOfUses DEF Bounds
  <2>2. /\ Event /\ AppendUse(n, u) /\ UNCHANGED <<notes, day>> /\ cmd'.at \in {"idle", "flag"}
    BY <1>3 DEF Retrieve, Logged
  <2> HIDE DEF found, poor
  <2>3. u \in Uses /\ u.weak = poor /\ u.retrieved = found
    <3>1. use[n] \in Uses /\ found \in Nat /\ poor \in Nat
      BY <1>1, <2>1
    <3> QED
      BY <1>2, <3>1 DEF Uses
  <2> HIDE DEF u
  <2> QED
    BY <2>1, <2>2, <2>3, AppendKeepsLogged
<1>4. ASSUME NEW n \in Notes, LogUse(n) PROVE Logged'
  <2> DEFINE used == use[n].used + 1
             u == [use[n] EXCEPT !.used = used, !.recent = day]
  <2>1. used \in Nat
    BY <1>1, FieldsOfUses
  <2>2. /\ Event /\ AppendUse(n, u) /\ UNCHANGED <<notes, day>> /\ cmd'.at \in {"idle", "flag"}
    BY <1>4 DEF LogUse, Logged
  <2> HIDE DEF used
  <2>3. u \in Uses /\ u.weak = use[n].weak /\ u.retrieved = use[n].retrieved
    BY <1>1, <1>2, <2>1, UsedUses
  <2> HIDE DEF u
  <2> QED
    BY <1>1, <2>2, <2>3, AppendKeepsLogged
<1>5. ASSUME NEW n \in Notes, NEW reason \in Reasons, Flag(n, reason) PROVE Logged'
  <2> DEFINE flags == Append(use[n].flags, reason)
             u == [use[n] EXCEPT !.flags = flags]
  <2>1. flags \in Seq(Reasons)
    BY <1>1, FieldsOfUses
  <2>2. /\ Event /\ AppendUse(n, u) /\ UNCHANGED <<notes, day>> /\ cmd'.at \in {"idle", "flag"}
    BY <1>5 DEF Flag
  <2> HIDE DEF flags
  <2>3. u \in Uses /\ u.weak = use[n].weak /\ u.retrieved = use[n].retrieved
    BY <1>1, <2>1, FlaggedUses
  <2> HIDE DEF u
  <2> QED
    BY <1>1, <2>2, <2>3, AppendKeepsLogged
<1>6. CASE CutShort
  BY <1>6 DEF CutShort, Event, Logged, Bounds
<1> QED
  BY <1>3, <1>4, <1>5, <1>6 DEF Logging

LEMMA NextLogged ==
  ASSUME Bounds, Logged, [Next]_vars PROVE Logged'
<1>1. CASE Logging
  BY <1>1, LoggingKeepsLogged
<1>2. ASSUME NEW n \in Notes, NEW note \in Note \cup {None}, EditNote(n, note) PROVE Logged'
  <2>1. notes' \in [Notes -> Note \cup {None}] /\ events' \in 0..Events
    BY <1>2 DEF EditNote, Event, Logged, Bounds
  <2>2. UNCHANGED <<day, use, cmd>>
    BY <1>2 DEF EditNote
  <2> QED
    BY <2>1, <2>2 DEF Logged
<1>3. ASSUME NEW days \in Jumps, Pass(days) PROVE Logged'
  <2>1. day' \in 0..LastDay /\ UNCHANGED <<notes, use, cmd, events>>
    BY <1>3 DEF Pass, Logged, Bounds
  <2> QED
    BY <2>1 DEF Logged
<1>4. CASE Scan \/ (\E k \in ScanKeys : ScanStops(k)) \/ Hear \/ Stop
           \/ (\E k \in Keys : Resolve(k))
  <2>1. UNCHANGED <<notes, day, use, events>>
    BY <1>4 DEF Scan, ScanStops, ScanOf, Hear, Stop, Resolve
  <2>2. cmd' \in {cmd, Idle} /\ Idle.at = "idle"
    BY <1>4 DEF Scan, ScanStops, ScanOf, Hear, Stop, Resolve, Idle
  <2> QED
    BY <2>1, <2>2 DEF Logged
<1>5. CASE UNCHANGED vars
  BY <1>5 DEF vars, Logged
<1> QED
  BY <1>1, <1>2, <1>3, <1>4, <1>5 DEF Next

LEMMA NextMarked ==
  ASSUME Marked, [Next]_vars PROVE Marked'
<1>1. quiet' \in {TRUE, FALSE} \/ quiet' = quiet
  BY Zenon DEF Next, vars, Logging, Retrieve, LogUse, Flag, CutShort, AppendUse, EditNote, Pass,
     Scan, ScanStops, Hear, Stop, Resolve
<1>2. torn' \in {TRUE, FALSE} \/ torn' = torn
  BY Zenon DEF Next, vars, Logging, Retrieve, LogUse, Flag, CutShort, AppendUse, EditNote, Pass,
     Scan, ScanStops, ScanOf, Hear, Stop, Resolve
<1> QED
  BY <1>1, <1>2, Zenon DEF Marked

(* A payload opens an item; nothing else makes one.                        *)
LEMMA RefreshedStatuses ==
  ASSUME NoneIsNoItem, NEW its, NEW k \in Keys, NEW facts, DOMAIN its = Keys,
         \A j \in Keys : its[j] # None => its[j].status \in {"pending", "resolved"}
  PROVE  LET new == Refreshed(its, k, facts) IN
         /\ DOMAIN new = Keys
         /\ \A j \in Keys : new[j] # None => new[j].status \in {"pending", "resolved"}
<1>1. Pending(facts).status = "pending"
  BY DEF Pending
<1>2. CASE its[k] # None /\ its[k].facts = facts
  BY <1>2 DEF Refreshed
<1>3. CASE ~(its[k] # None /\ its[k].facts = facts)
  <2> DEFINE new == [its EXCEPT ![k] = Pending(facts)]
  <2>1. Refreshed(its, k, facts) = new
    BY <1>3 DEF Refreshed
  <2>2. \A j \in Keys : new[j] = IF j = k THEN Pending(facts) ELSE its[j]
    OBVIOUS
  <2> QED
    BY <1>1, <2>1, <2>2
<1> QED
  BY <1>2, <1>3

LEMMA NextStatuses ==
  ASSUME NoneIsNoItem, Inv, Statuses, [Next]_vars PROVE Statuses'
<1>0. DOMAIN items = Keys
  BY DEF Inv, Types
<1>1. ASSUME NEW S \in SUBSET ScanKeys, ScanOf(S) PROVE Statuses'
  <2>1. \A k \in Keys : items'[k] = IF k \in S THEN Upserted(k) ELSE items[k]
    BY <1>1 DEF ScanOf
  <2>2. ASSUME NEW k \in Keys, Upserted(k) # None
        PROVE  Upserted(k).status \in {"pending", "resolved"}
    <3>1. \A facts : Refreshed(items, k, facts)[k] # None =>
                        Refreshed(items, k, facts)[k].status \in {"pending", "resolved"}
      BY <1>0, RefreshedStatuses DEF Statuses
    <3> QED
      BY <2>2, <3>1 DEF Upserted, Statuses
  <2> QED
    BY <2>1, <2>2 DEF Statuses
<1>2. CASE Hear
  <2> DEFINE n == cmd.about
             reason == cmd.reason
             k == <<Queue(reason), n>>
  <2>1. n \in Notes /\ k \in Keys
    BY <1>2 DEF Hear, Present, Queue, Keys, Hygienic
  <2>2. PICK facts : items' = Refreshed(items, k, facts)
    BY <1>2 DEF Hear, Suspected
  <2> QED
    BY <1>0, <2>1, <2>2, RefreshedStatuses DEF Statuses
<1>3. ASSUME NEW k \in Keys, Resolve(k) PROVE Statuses'
  <2>1. items' = [items EXCEPT ![k] = [items[k] EXCEPT !.status = "resolved"]]
    BY <1>3 DEF Resolve
  <2>2. PICK status, facts : items[k] = [status |-> status, facts |-> facts]
    BY <1>3 DEF Resolve, Inv, Types, Item
  <2>3. [items[k] EXCEPT !.status = "resolved"].status = "resolved"
    BY <2>2
  <2>4. \A j \in Keys : items'[j] = IF j = k THEN [items[k] EXCEPT !.status = "resolved"] ELSE items[j]
    BY <1>0, <2>1
  <2> QED
    BY <2>3, <2>4 DEF Statuses
<1>4. ASSUME items' = items PROVE Statuses'
  BY <1>4 DEF Statuses
<1>5. ASSUME NEW k \in ScanKeys, ScanStops(k) PROVE Statuses'
  BY <1>1, <1>5 DEF ScanStops, Before
<1>6. CASE Logging \/ (\E n \in Notes, note \in Note \cup {None} : EditNote(n, note))
           \/ (\E days \in Jumps : Pass(days)) \/ Stop \/ UNCHANGED vars
  BY <1>4, <1>6 DEF Logging, Retrieve, LogUse, Flag, CutShort, EditNote, Pass, Stop, vars
<1> QED
  BY <1>1, <1>2, <1>3, <1>5, <1>6 DEF Next, Scan

(* Nothing that a note has been found weakly counts more often than the    *)
(* note has been found, and every item is open or settled.                 *)
THEOREM TypesHold ==
  ASSUME Bounds, NoneIsNoItem PROVE Spec => []TypeOK
<1>1. Init => Marked /\ Logged
  BY InitLogged
<1>2. Marked /\ Logged /\ [Next]_vars => Marked' /\ Logged'
  BY NextMarked, NextLogged
<1>3. Init => Statuses
  BY DEF Init, Statuses
<1>4. Inv /\ Statuses /\ [Next]_vars => Statuses'
  BY NextStatuses
<1>5. Marked /\ Logged /\ Statuses => TypeOK
  <2>1. Logged => \A n \in Notes : use[n].flags \in Seq(Reasons)
    BY FieldsOfUses DEF Logged
  <2> QED
    BY <2>1, Zenon DEF Marked, Logged, Statuses, TypeOK
<1> QED
  BY Invariant, <1>1, <1>2, <1>3, <1>4, <1>5, PTL DEF Spec
==============================================================================
