----------------------------- MODULE SearchMisses -----------------------------
(***************************************************************************)
(* Searches that miss: their log, and the review items they are promoted   *)
(* to (usage.py, upsert_search_miss_review_item of review.py).  A miss is  *)
(* appended to the log first, and all groups of equal queries are looked   *)
(* at in a second step; the command may be stopped in between.  A line     *)
(* that is cut short swallows the line appended next.                      *)
(***************************************************************************)
EXTENDS Naturals

CONSTANTS
  Queries,  \* normalized queries with their filters
  Misses,   \* bound: how often each may miss
  Tears,    \* bound: the lines that are cut short
  None

VARIABLES
  misses,  \* what search-misses.log says of each query
  torn,    \* has its last line been cut short?
  items,   \* the review item of each query
  at,      \* the query whose miss a search has logged and not promoted yet
  tears    \* how many lines have been cut short

vars == <<misses, torn, items, at, tears>>

Counted == [count : 0..Misses, high : BOOLEAN]
Item    == [status : {"pending", "resolved"}, facts : Counted]

(* What is assumed of the bounds, and of None.                             *)
Sizes ==
  /\ Misses \in Nat /\ Tears \in Nat
  /\ None \notin Item

Init ==
  /\ misses = [q \in Queries |-> [count |-> 0, high |-> FALSE]]
  /\ torn = FALSE
  /\ items = [q \in Queries |-> None]
  /\ at = None
  /\ tears = 0

(* maybe_log_search_miss, log_search_miss: the line.  A miss is of high    *)
(* value when it was reported with --report-miss.                          *)
Miss(q, high) ==
  /\ at = None /\ misses[q].count < Misses
  /\ misses' = IF torn THEN misses
               ELSE [misses EXCEPT ![q] = [count |-> @.count + 1, high |-> @.high \/ high]]
  /\ torn' = FALSE
  /\ at' = q
  /\ UNCHANGED <<items, tears>>

CutShort ==
  /\ at = None /\ tears < Tears
  /\ torn' = TRUE /\ tears' = tears + 1
  /\ UNCHANGED <<misses, items, at>>

(* _should_promote_group                                                   *)
Due(q) == misses[q].count >= 3 \/ misses[q].high

(* upsert_search_miss_review_item: what has been resolved stays so.        *)
Noted(q) ==
  IF items[q] # None /\ items[q].status = "resolved" THEN items[q]
  ELSE [status |-> "pending", facts |-> misses[q]]

(* Faulty: of all queries, the one that has just missed is looked at.      *)
Promote_Latest ==
  /\ at # None
  /\ items' = [q \in Queries |-> IF q = at /\ Due(q) THEN Noted(q) ELSE items[q]]
  /\ at' = None
  /\ UNCHANGED <<misses, torn, tears>>

(* promote_search_misses                                                   *)
Promote ==
  /\ at # None
  /\ items' = [q \in Queries |-> IF Due(q) THEN Noted(q) ELSE items[q]]
  /\ at' = None
  /\ UNCHANGED <<misses, torn, tears>>

Stop ==
  /\ at # None
  /\ at' = None
  /\ UNCHANGED <<misses, torn, items, tears>>

(* kb review accept, kb review reject                                      *)
Resolve(q) ==
  /\ items[q] # None /\ items[q].status = "pending"
  /\ items' = [items EXCEPT ![q].status = "resolved"]
  /\ UNCHANGED <<misses, torn, at, tears>>

Next ==
  \/ \E q \in Queries : Resolve(q) \/ \E high \in BOOLEAN : Miss(q, high)
  \/ CutShort \/ Promote \/ Stop

Spec == Init /\ [][Next]_vars

-------------------------------------------------------------------------------
TypeOK ==
  /\ misses \in [Queries -> Counted]
  /\ torn \in BOOLEAN
  /\ items \in [Queries -> Item \cup {None}]
  /\ at \in Queries \cup {None}
  /\ tears \in 0..Tears

(* Once a search that missed has been dealt with, each query that has      *)
(* missed three times or been reported has its item, with the present      *)
(* count unless the item was resolved: also where the command that should  *)
(* have made it was stopped.                                               *)
MissesPromoted ==
  [][Promote =>
       \A q \in Queries : misses[q].count >= 3 \/ misses[q].high =>
         /\ items'[q] # None
         /\ items'[q].status = "pending" => items'[q].facts = misses[q]]_vars
===============================================================================
