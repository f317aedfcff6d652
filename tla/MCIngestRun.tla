----------------------------- MODULE MCIngestRun -----------------------------
(* Instances of IngestRun for TLC.                                         *)
EXTENDS IngestRun, TLC

CONSTANTS a, b, e, u, bad, x, y

(* a and b are copies of one document, e is a later edition of a under its *)
(* path; u and bad are other documents.                                    *)
Contents == [f \in Files |-> IF f \in {a, b} THEN x ELSE y]
Paths    == [f \in Files |-> IF f = e THEN a ELSE f]

(* The documents that the runs are given.  Of the first the provider may   *)
(* find several candidates and give any verdict; of the others it finds    *)
(* one, which is unrelated to what there is, or identical in editions.     *)
VARIABLE scene
Casts == "candidates" :> {a} @@ "copies" :> {a, b, bad} @@ "editions" :> {a, e, u}
Cast  == Casts[scene] \cap Files

Heard == "candidates" :> {"identical", "contradicts"} @@ "copies" :> {}
           @@ "editions" :> {"identical", "adds_nuance"}

Named == {notes'[i].title : i \in DOMAIN notes'} \cup run'.due
           \cup ({item.title : item \in review'} \ {None})
Staged == /\ \A f \in Files \ (Cast \cup Outside) : place'[f] = "absent"
          /\ run'.queue \subseteq Cast
          /\ scene = "candidates" \/ \A s, t \in Named : s = t
          /\ run'.at = "append"  => "identical" \in Heard[scene]
          /\ run'.at = "dispute" => "contradicts" \in Heard[scene]
          /\ (\E item \in review' : item.queue = "merge") => "adds_nuance" \in Heard[scene]

SceneInit == /\ Init
             /\ scene \in DOMAIN Casts
             /\ \A f \in Files \ (Cast \cup Outside) : place[f] = "absent"
SceneNext == Next /\ UNCHANGED scene /\ Staged
SceneSpec == SceneInit /\ [][SceneNext]_<<vars, scene>>

TitleSymmetry == Permutations(Titles)
===============================================================================
