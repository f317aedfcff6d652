--------------------------- MODULE MCNoteMutations ---------------------------
(* Instances of NoteMutations for TLC.                                     *)
EXTENDS NoteMutations

(* Two topics, one with a topic below it.                                  *)
Tree == {<<"a">>, <<"b">>, <<"b", "a">>}
Roots == {<<"a">>, <<"b">>}

Symmetry == Permutations(Captured)

(* Bounds: a behaviour has proposals of one kind.  One with compactions    *)
(* has the topics at the root, none described, and moves notes while a     *)
(* proposal waits.                                                         *)
VARIABLE kind
MCvars == <<files, scope, pending, cmd, kind>>
MCInit == Init /\ kind \in {"topic", "compaction"}
MCNext ==
  /\ Next
  /\ UNCHANGED kind
  /\ \A item \in pending' : item.kind = kind
  /\ kind = "compaction" =>
       /\ \A t \in Topics : scope'[t] \notin {"edited", "torn"} /\ (Len(t) > 1 => scope'[t] = "none")
       /\ \A m \in cmd'.moves : Len(m.to) = 1
       /\ \A item \in pending' : Len(item.topic) = 1
       /\ cmd'.at = "scopes" => pending # {}
MCSpec == MCInit /\ [][MCNext]_MCvars
===============================================================================
