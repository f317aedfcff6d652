-------------------------------- MODULE MCParts --------------------------------
(***************************************************************************)
(* Small instances of the parts for TLC.                                   *)
(***************************************************************************)
EXTENDS Parts, TLC

(* ProviderPolicy: two cloud providers, a local one.                       *)
Adapters == [claude |-> "anthropic", codex |-> "codexcli", local |-> "ollama"]

(* Reindex: two notes, of the first topic, or of the second and naming the *)
(* other.  The processes are alike.                                        *)
Draft == [topic |-> 1, shown |-> 0, links |-> FALSE]
Linked == [topic |-> 2, shown |-> 1, links |-> TRUE]
Pair == {1, 2}
Either == {Draft, Linked}
BothDrafts == {[id \in Pair |-> Draft]}
Alike == Permutations(Procs)

(* Hygiene: a note stale after two weeks; it may move and name another, or *)
(* be archived.                                                            *)
Aged == [status |-> "active", updated |-> 0, topic |-> 1, tags |-> {}, refs |-> {},
         fact |-> TRUE, risk |-> "high", unsure |-> TRUE]
Ages == {Aged, [Aged EXCEPT !.topic = 2, !.refs = {1}],
         [Aged EXCEPT !.status = "archived", !.updated = 14]}
OneAged == {[id \in Pair |-> IF id = 1 THEN Aged ELSE None]}

-------------------------------------------------------------------------------
MCInit ==
  /\ PartsInit
  /\ which # "git" =>
       gConf = [nested |-> FALSE, scope |-> FALSE, allow |-> FALSE, quoted |-> {}]

(* All topics are named: which of them are blocked varies.  Two commands   *)
(* that commit and one turn of the user, or one and two.  One change of    *)
(* the indexed notes or one search, among any number of reindexes.         *)
MCNext ==
  /\ PartsNext
  /\ conf = None /\ conf' # None => conf'.named = Topics
  /\ gN' + gTurns' <= 3
  /\ xChanges' + xLog' <= 1

MCSpec == MCInit /\ [][MCNext]_parts
===============================================================================
