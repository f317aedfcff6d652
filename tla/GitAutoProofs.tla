----------------------------- MODULE GitAutoProofs -----------------------------
(***************************************************************************)
(* Theorems about GitAuto, for any paths, commands and turns of the user:  *)
(* what a commit of kb may hold.                                           *)
(***************************************************************************)
EXTENDS GitAuto, TLAPS

Numbers == 1..Len(writer)

Types ==
  /\ conf \in Conf
  /\ writer \in Seq(Nat)
  /\ tree \in [Paths -> SUBSET Numbers]
  /\ index \in [Paths -> SUBSET Numbers]
  /\ head \in [Paths -> SUBSET Numbers]
  /\ n \in Nat
  /\ mark \in Nat /\ mark <= Len(writer)
  /\ loose \subseteq Numbers
  /\ related \subseteq Paths

Older(S) == {w \in S : w <= mark}

(* A path that was not changed when the command began holds the same old   *)
(* writes in the worktree, the index and the last commit.                  *)
AsBegun ==
  at # "idle" =>
    \A p \in Paths \ before :
      Older(tree[p]) = Older(head[p]) /\ Older(index[p]) = Older(head[p])

(* What the user wrote between two commands is old for the later one.      *)
LooseIsOld == at # "idle" => \A w \in loose : w <= mark

(* What the command has found out when it adds and commits.                *)
Cleared == at \in {"add", "commit"} /\ ~conf.allow => before \subseteq related
Chosen ==
  at = "add" =>
    /\ conf.nested => paths \subseteq Data
    /\ conf.allow => paths \cap before \subseteq {Log}

(* Nothing of the user's gets into the index but by their own hand.        *)
StagedLoose ==
  conf.allow => \A p \in Paths \ {Log} : index[p] \cap loose \subseteq handed \cup head[p]
StagedOutside ==
  conf.nested => \A p \in Outside : index[p] \ head[p] \subseteq handed

Inv ==
  /\ Types /\ AsBegun /\ LooseIsOld /\ Cleared /\ Chosen
  /\ StagedLoose /\ StagedOutside

-------------------------------------------------------------------------------
(* A write has a number of its own, later than all others.                 *)
LEMMA WritesAreNew ==
  ASSUME Types, NEW who \in Nat, NEW where, Write(who, where)
  PROVE  /\ writer' \in Seq(Nat)
         /\ Len(writer') = Len(writer) + 1
         /\ Numbers \subseteq Numbers'
         /\ tree' \in [Paths -> SUBSET Numbers']
         /\ \A p \in Paths : \/ tree'[p] = tree[p]
                             \/ tree'[p] = tree[p] \cup {Len(writer) + 1}
<1>1. writer' = Append(writer, who)
  BY DEF Write
<1>2. writer' \in Seq(Nat) /\ Len(writer') = Len(writer) + 1 /\ Len(writer) \in Nat
  BY <1>1 DEF Types
<1>3. Numbers \subseteq Numbers' /\ Len(writer) + 1 \in Numbers'
  BY <1>2 DEF Numbers
<1>4. \A p \in Paths : tree'[p] = IF p \in where THEN tree[p] \cup {Len(writer) + 1}
                                                 ELSE tree[p]
  BY DEF Write
<1>5. \A p \in Paths : tree'[p] \in SUBSET Numbers'
  BY <1>3, <1>4 DEF Types
<1>6. tree' \in [Paths -> SUBSET Numbers']
  BY <1>5 DEF Write
<1> QED
  BY <1>2, <1>3, <1>4, <1>6

(* Types that depend on the numbers only keep when numbers are added.      *)
LEMMA TypesGrow ==
  ASSUME Types, Numbers \subseteq Numbers', writer' \in Seq(Nat),
         Len(writer) <= Len(writer'),
         tree' \in [Paths -> SUBSET Numbers'], UNCHANGED <<index, head>>,
         conf' = conf, n' \in Nat, mark' \in Nat, mark' <= Len(writer'),
         loose' \subseteq Numbers', related' \subseteq Paths
  PROVE  Types'
BY DEF Types

(* A command that ends leaves nothing to be compared.                      *)
LEMMA EndKeepsInv ==
  ASSUME Inv, End, Types', conf' = conf, UNCHANGED <<index, head, handed, loose>>
  PROVE  Inv'
BY DEF Inv, End, AsBegun, LooseIsOld, Cleared, Chosen, StagedLoose, StagedOutside

LEMMA SkipKeepsInv ==
  ASSUME Inv, Skip, conf' = conf
  PROVE  Inv'
<1>1. n \in Nat /\ Types
  BY DEF Inv, Types
<1>2. /\ writer' \in Seq(Nat) /\ Len(writer') = Len(writer) + 1
      /\ Numbers \subseteq Numbers' /\ tree' \in [Paths -> SUBSET Numbers']
  BY <1>1, WritesAreNew DEF Skip
<1>3. Len(writer) \in Nat
  BY <1>1 DEF Types
<1>4. Types'
  BY <1>1, <1>2, <1>3, TypesGrow DEF Skip, End, Types, user
<1> QED
  BY <1>4, EndKeepsInv DEF Skip, user

-------------------------------------------------------------------------------
LEMMA InitInv == Init => Inv
BY DEF Init, Inv, Types, Numbers, AsBegun, LooseIsOld, Cleared, Chosen, StagedLoose,
       StagedOutside

(* The four turns of the user.                                             *)
LEMMA EditKeepsInv ==
  ASSUME Inv, NEW q \in Paths, Edit(q)
  PROVE  Inv'
<1>1. /\ Types /\ 0 \in Nat /\ Write(0, {q})
      /\ UNCHANGED <<conf, index, head, at, n, related, before, paths, mark, handed>>
      /\ loose' = IF at = "idle" THEN loose \cup {Len(writer')} ELSE loose
  BY DEF Inv, Edit, command
<1>2. /\ writer' \in Seq(Nat) /\ Len(writer') = Len(writer) + 1 /\ Len(writer) \in Nat
      /\ Numbers \subseteq Numbers' /\ tree' \in [Paths -> SUBSET Numbers']
      /\ \A p \in Paths : tree'[p] = tree[p] \/ tree'[p] = tree[p] \cup {Len(writer) + 1}
  BY <1>1, WritesAreNew DEF Types
<1>3. Len(writer') \in Numbers'
  BY <1>2 DEF Numbers
<1>4. Types'
  BY <1>1, <1>2, <1>3, TypesGrow DEF Types
<1>5. AsBegun'
  <2> SUFFICES ASSUME at # "idle", NEW p \in Paths \ before
               PROVE  /\ Older(tree'[p]) = Older(head[p])
                      /\ Older(index[p]) = Older(head[p])
    BY <1>1 DEF AsBegun, Older
  <2>1. ~(Len(writer) + 1 <= mark)
    BY <1>1, <1>2 DEF Types
  <2>2. Older(tree'[p]) = Older(tree[p])
    BY <1>2, <2>1 DEF Older
  <2> QED
    BY <2>2 DEF Inv, AsBegun
<1>6. LooseIsOld'
  BY <1>1 DEF Inv, LooseIsOld
<1>7. Cleared' /\ Chosen' /\ StagedOutside'
  BY <1>1 DEF Inv, Cleared, Chosen, StagedOutside
<1>8. StagedLoose'
  <2>1. \A p \in Paths : Len(writer') \notin index[p]
    BY <1>1, <1>2 DEF Types, Numbers
  <2> QED
    BY <1>1, <2>1 DEF Inv, StagedLoose
<1> QED
  BY <1>4, <1>5, <1>6, <1>7, <1>8 DEF Inv

LEMMA StageKeepsInv ==
  ASSUME Inv, NEW q \in Paths, Stage(q)
  PROVE  Inv'
<1>1. /\ UNCHANGED <<conf, tree, head, writer, at, n, related, before, paths, mark, loose>>
      /\ index' = [index EXCEPT ![q] = tree[q]]
      /\ handed' = handed \cup tree[q]
  BY DEF Stage, command
<1>2. Types'
  BY <1>1 DEF Inv, Types, Numbers
<1>3. \A p \in Paths : \/ p = q /\ index'[p] = tree[p]
                       \/ p # q /\ index'[p] = index[p]
  BY <1>1 DEF Inv, Types
<1>4. AsBegun'
  BY <1>1, <1>3 DEF Inv, AsBegun, Older
<1>5. LooseIsOld' /\ Cleared' /\ Chosen'
  BY <1>1 DEF Inv, LooseIsOld, Cleared, Chosen
<1>6. StagedLoose'
  BY <1>1, <1>3 DEF Inv, StagedLoose
<1>7. StagedOutside'
  BY <1>1, <1>3 DEF Inv, StagedOutside, Paths
<1> QED
  BY <1>2, <1>4, <1>5, <1>6, <1>7 DEF Inv

LEMMA CommitByHandKeepsInv ==
  ASSUME Inv, CommitByHand
  PROVE  Inv'
<1>1. /\ UNCHANGED <<conf, tree, index, writer, at, n, related, before, paths, mark,
                     handed, loose>>
      /\ head' = index
  BY DEF CommitByHand, command
<1>2. Types'
  BY <1>1 DEF Inv, Types, Numbers
<1>3. AsBegun'
  BY <1>1 DEF Inv, AsBegun, Older
<1> QED
  BY <1>1, <1>2, <1>3
  DEF Inv, LooseIsOld, Cleared, Chosen, StagedLoose, StagedOutside

LEMMA StashKeepsInv ==
  ASSUME Inv, Stash
  PROVE  Inv'
<1>1. /\ UNCHANGED <<conf, head, writer, at, n, related, before, paths, mark, handed, loose>>
      /\ tree' = head /\ index' = head
  BY DEF Stash, command
<1>2. Types'
  BY <1>1 DEF Inv, Types, Numbers
<1>3. AsBegun'
  BY <1>1 DEF Inv, AsBegun, Older
<1> QED
  BY <1>1, <1>2, <1>3
  DEF Inv, LooseIsOld, Cleared, Chosen, StagedLoose, StagedOutside

-------------------------------------------------------------------------------
(* The command.  It compares with the state in which it began.             *)
LEMMA BeginKeepsInv ==
  ASSUME Layout, Inv, Begin
  PROVE  Inv'
<1>1. /\ UNCHANGED <<conf, tree, index, head, writer, paths, handed, loose>>
      /\ n' = n + 1 /\ related' \in {{}, Raw} /\ Raw \subseteq Paths
      /\ before' = Changed /\ mark' = Len(writer) /\ at' = "working"
  BY DEF Layout, Begin, repo, user, Paths
<1>2. Len(writer) \in Nat
  BY DEF Inv, Types
<1>3. Types'
  BY <1>1, <1>2 DEF Inv, Types, Numbers
<1>4. AsBegun'
  BY <1>1 DEF AsBegun, Changed, Older
<1>5. LooseIsOld'
  BY <1>1, <1>2 DEF Inv, Types, Numbers, LooseIsOld
<1>6. Cleared' /\ Chosen'
  BY <1>1 DEF Cleared, Chosen
<1> QED
  BY <1>1, <1>3, <1>4, <1>5, <1>6 DEF Inv, StagedLoose, StagedOutside

(* What it writes is new, and a path it empties was never known to git.    *)
LEMMA WorkKeepsInv ==
  ASSUME Inv, Work
  PROVE  Inv'
<1>1. /\ at = "working" /\ at' = "check"
      /\ UNCHANGED <<conf, index, head, n, related, before, paths, mark, handed, loose>>
  BY DEF Work, user
<1>2. PICK written \in SUBSET Data, moved \in SUBSET related :
        /\ writer' = Append(writer, n)
        /\ tree' = [p \in Paths |->
                      IF p \in written THEN tree[p] \cup {Len(writer')}
                      ELSE IF p \in moved /\ head[p] = {} /\ index[p] = {} THEN {}
                      ELSE tree[p]]
  BY DEF Work
<1>3. writer' \in Seq(Nat) /\ Len(writer') = Len(writer) + 1 /\ Len(writer) \in Nat
  BY <1>2 DEF Inv, Types
<1>4. Numbers \subseteq Numbers' /\ Len(writer') \in Numbers'
  BY <1>3 DEF Numbers
<1>5. \A p \in Paths : \/ tree'[p] = tree[p] \cup {Len(writer')}
                       \/ tree'[p] = {} /\ head[p] = {} /\ index[p] = {}
                       \/ tree'[p] = tree[p]
  BY <1>2
<1>6. tree' \in [Paths -> SUBSET Numbers']
  <2>1. \A p \in Paths : tree'[p] \in SUBSET Numbers'
    BY <1>4, <1>5 DEF Inv, Types
  <2> QED
    BY <1>2, <2>1
<1>7. Types'
  BY <1>1, <1>3, <1>4, <1>6, TypesGrow DEF Inv, Types
<1>8. AsBegun'
  <2> SUFFICES ASSUME NEW p \in Paths \ before
               PROVE  /\ Older(tree'[p]) = Older(head[p])
                      /\ Older(index[p]) = Older(head[p])
    BY <1>1 DEF AsBegun, Older
  <2>1. /\ Older(tree[p]) = Older(head[p])
        /\ Older(index[p]) = Older(head[p])
    BY <1>1 DEF Inv, AsBegun
  <2>2. ~(Len(writer') <= mark)
    BY <1>3 DEF Inv, Types
  <2>3. CASE tree'[p] = tree[p] \cup {Len(writer')}
    BY <2>1, <2>2, <2>3 DEF Older
  <2>4. CASE tree'[p] = {} /\ head[p] = {} /\ index[p] = {}
    BY <2>4 DEF Older
  <2>5. CASE tree'[p] = tree[p]
    BY <2>1, <2>5
  <2> QED
    BY <1>5, <2>3, <2>4, <2>5
<1>9. LooseIsOld'
  BY <1>1 DEF Inv, LooseIsOld
<1>10. Cleared' /\ Chosen'
  BY <1>1 DEF Cleared, Chosen
<1>11. StagedLoose' /\ StagedOutside'
  BY <1>1 DEF Inv, StagedLoose, StagedOutside
<1> QED
  BY <1>7, <1>8, <1>9, <1>10, <1>11 DEF Inv

(* The paths it takes.                                                     *)
LEMMA CompareKeepsInv ==
  ASSUME Layout, Inv, Compare
  PROVE  Inv'
<1>1. /\ at = "check" /\ at' = "add" /\ MayCommit
      /\ paths' = OperationPaths \cup {Log} /\ Write(n, {Log})
      /\ UNCHANGED <<conf, index, head, n, related, before, mark, handed, loose>>
  BY DEF Compare, user
<1>2. /\ writer' \in Seq(Nat) /\ Len(writer') = Len(writer) + 1 /\ Len(writer) \in Nat
      /\ Numbers \subseteq Numbers' /\ tree' \in [Paths -> SUBSET Numbers']
      /\ \A p \in Paths : tree'[p] = tree[p] \/ tree'[p] = tree[p] \cup {Len(writer) + 1}
  BY <1>1, WritesAreNew DEF Inv, Types
<1>3. Types'
  BY <1>1, <1>2, TypesGrow DEF Inv, Types
<1>4. AsBegun'
  <2> SUFFICES ASSUME NEW p \in Paths \ before
               PROVE  /\ Older(tree'[p]) = Older(head[p])
                      /\ Older(index[p]) = Older(head[p])
    BY <1>1 DEF AsBegun, Older
  <2>1. ~(Len(writer) + 1 <= mark)
    BY <1>2 DEF Inv, Types
  <2>2. Older(tree'[p]) = Older(tree[p])
    BY <1>2, <2>1 DEF Older
  <2> QED
    BY <1>1, <2>2 DEF Inv, AsBegun
<1>5. LooseIsOld'
  BY <1>1 DEF Inv, LooseIsOld
<1>6. Cleared'
  BY <1>1 DEF Cleared, MayCommit, Unrelated
<1>7. Chosen'
  BY <1>1 DEF Layout, Chosen, OperationPaths
<1>8. StagedLoose' /\ StagedOutside'
  BY <1>1 DEF Inv, StagedLoose, StagedOutside
<1> QED
  BY <1>3, <1>4, <1>5, <1>6, <1>7, <1>8 DEF Inv

(* What it stages was either clean when it began, or related to it.        *)
LEMMA AddKeepsInv ==
  ASSUME Layout, Inv, Add
  PROVE  Inv'
<1>1. /\ at = "add" /\ at' = "commit"
      /\ index' = [p \in Paths |-> IF p \in paths THEN tree[p] ELSE index[p]]
      /\ UNCHANGED <<conf, tree, head, writer, n, related, before, paths, mark,
                     handed, loose>>
  BY DEF Add, user
<1>2. \A p \in Paths : \/ p \in paths /\ index'[p] = tree[p]
                       \/ p \notin paths /\ index'[p] = index[p]
  BY <1>1
<1>3. Types'
  <2>1. index' \in [Paths -> SUBSET Numbers]
    BY <1>1 DEF Inv, Types
  <2> QED
    BY <1>1, <2>1 DEF Inv, Types, Numbers
<1>4. AsBegun'
  BY <1>1, <1>2 DEF Inv, AsBegun, Older
<1>5. LooseIsOld' /\ Cleared' /\ Chosen'
  BY <1>1 DEF Inv, LooseIsOld, Cleared, Chosen
<1>6. StagedLoose'
  <2> SUFFICES ASSUME conf.allow, NEW p \in Paths \ {Log}
               PROVE  index'[p] \cap loose \subseteq handed \cup head[p]
    BY <1>1 DEF StagedLoose
  <2>1. CASE p \in paths
    <3>1. p \notin before
      BY <1>1, <2>1 DEF Inv, Chosen
    <3>2. Older(tree[p]) = Older(head[p])
      BY <1>1, <3>1 DEF Inv, AsBegun
    <3>3. tree[p] \cap loose \subseteq Older(tree[p])
      BY <1>1 DEF Inv, LooseIsOld, Older
    <3>4. Older(head[p]) \subseteq head[p]
      BY DEF Older
    <3> QED
      BY <1>2, <2>1, <3>2, <3>3, <3>4
  <2>2. CASE p \notin paths
    BY <1>2, <2>2 DEF Inv, StagedLoose
  <2> QED
    BY <2>1, <2>2
<1>7. StagedOutside'
  <2> SUFFICES ASSUME conf.nested, NEW p \in Outside
               PROVE  index'[p] \ head[p] \subseteq handed
    BY <1>1 DEF StagedOutside
  <2>1. p \in Paths /\ p \notin paths
    BY <1>1 DEF Layout, Inv, Chosen, Paths
  <2> QED
    BY <1>2, <2>1 DEF Inv, StagedOutside
<1> QED
  BY <1>3, <1>4, <1>5, <1>6, <1>7 DEF Inv

LEMMA CommitKeepsInv ==
  ASSUME Inv, Commit
  PROVE  Inv'
<1>1. /\ UNCHANGED <<conf, tree, index, writer, n, handed, loose>>
      /\ head' = index /\ at' = "idle" /\ related' = {} /\ mark' = 0
  BY DEF Commit, End, user
<1>2. Types'
  BY <1>1 DEF Inv, Types, Numbers
<1> QED
  BY <1>1, <1>2 DEF Inv, AsBegun, LooseIsOld, Cleared, Chosen, StagedLoose, StagedOutside

-------------------------------------------------------------------------------
LEMMA NextInv ==
  ASSUME Layout, Inv, [Next]_vars
  PROVE  Inv'
<1>1. CASE User
  BY <1>1, EditKeepsInv, StageKeepsInv, CommitByHandKeepsInv, StashKeepsInv DEF User
<1>2. CASE Begin
  BY <1>2, BeginKeepsInv
<1>3. CASE Work
  BY <1>3, WorkKeepsInv
<1>4. CASE Fail
  <2>1. End /\ UNCHANGED <<conf, tree, index, head, writer, n, handed, loose>>
    BY <1>4 DEF Fail, repo, user
  <2>2. Types'
    BY <2>1 DEF Inv, Types, Numbers, End
  <2> QED
    BY <2>1, <2>2, EndKeepsInv
<1>5. CASE Refuse \/ NothingNew \/ GitFails
  BY <1>5, SkipKeepsInv DEF Refuse, NothingNew, GitFails, Skip
<1>6. CASE Compare
  BY <1>6, CompareKeepsInv
<1>7. CASE Add
  BY <1>7, AddKeepsInv
<1>8. CASE Commit
  BY <1>8, CommitKeepsInv
<1>9. CASE UNCHANGED vars
  BY <1>9 DEF vars, Inv, Types, Numbers, AsBegun, Older, LooseIsOld, Cleared, Chosen,
              StagedLoose, StagedOutside
<1> QED
  BY <1>1, <1>2, <1>3, <1>4, <1>5, <1>6, <1>7, <1>8, <1>9 DEF Next

LEMMA InvAlways ==
  ASSUME Layout
  PROVE  Spec => []Inv
<1>1. Inv /\ [Next]_vars => Inv'
  BY NextInv
<1> QED
  BY InitInv, <1>1, PTL DEF Spec

(* A commit of kb holds only what its command wrote, or was handed, or the *)
(* user had staged (git_auto.py, _preexisting_unrelated_paths and          *)
(* _operation_paths).                                                      *)
THEOREM CommitsAreOwn ==
  ASSUME Layout
  PROVE  Spec => CommitIsOwn
<1>1. Inv /\ [Next]_vars =>
        [Commit => IF conf.allow
                   THEN \A p \in Paths \ {Log} : Held(p) \cap loose \subseteq handed
                   ELSE \A p \in Paths \ related : \A w \in Held(p) : w > mark]_vars
  <2> SUFFICES ASSUME Inv, Commit
               PROVE  IF conf.allow
                      THEN \A p \in Paths \ {Log} : Held(p) \cap loose \subseteq handed
                      ELSE \A p \in Paths \ related : \A w \in Held(p) : w > mark
    OBVIOUS
  <2>1. at = "commit" /\ \A p : Held(p) = index[p] \ head[p]
    BY DEF Commit, Held
  <2>2. CASE conf.allow
    BY <2>1, <2>2 DEF Inv, StagedLoose
  <2>3. CASE ~conf.allow
    <3> SUFFICES ASSUME NEW p \in Paths \ related, NEW w \in Held(p)
                 PROVE  w > mark
      BY <2>3
    <3>1. p \notin before
      BY <2>1, <2>3 DEF Inv, Cleared
    <3>2. Older(index[p]) = Older(head[p])
      BY <2>1, <3>1 DEF Inv, AsBegun
    <3>3. w \in index[p] /\ w \notin head[p]
      BY <2>1
    <3>4. w \in Nat /\ mark \in Nat
      BY <3>3 DEF Inv, Types, Numbers
    <3> QED
      BY <3>2, <3>3, <3>4 DEF Older
  <2> QED
    BY <2>2, <2>3
<1> QED
  BY InvAlways, <1>1, PTL DEF Spec, CommitIsOwn

(* In a larger repository nothing outside of the data directory is         *)
(* committed that the user had not staged (git_auto.py, _operation_paths). *)
THEOREM OutsideIsLeft ==
  ASSUME Layout
  PROVE  Spec => OutsideStays
<1>1. Inv /\ [Next]_vars =>
        [Commit /\ conf.nested => \A p \in Outside : Held(p) \subseteq handed]_vars
  BY DEF Inv, StagedOutside, Commit, Held
<1> QED
  BY InvAlways, <1>1, PTL DEF Spec, OutsideStays
-------------------------------------------------------------------------------
(* What a commit leaves out.                                               *)

Ours(S) == {w \in S : writer[w] = n}
Foreign(S) == \A w \in S : writer[w] = 0

(* kb writes nothing outside of the data directory; and what the command   *)
(* has written and is not about to stage is in the index.                  *)
OutsideForeign ==
  \A p \in Outside : Foreign(tree[p]) /\ Foreign(index[p]) /\ Foreign(head[p])
Staged ==
  at \in {"add", "commit"} /\ ~conf.allow =>
    \A p \in Paths \ conf.quoted :
      (at = "add" /\ p \in paths) \/ Ours(tree[p]) \subseteq index[p]

Whole == (at # "idle" => n > 0) /\ OutsideForeign /\ Staged

(* A write leaves the writers of all others as they were.                  *)
LEMMA WritersStay ==
  ASSUME Types, NEW who \in Nat, writer' = Append(writer, who)
  PROVE  /\ \A w \in Numbers : writer'[w] = writer[w]
         /\ writer'[Len(writer) + 1] = who
BY DEF Types, Numbers

(* A step that writes nothing and leaves worktree and index as they are.   *)
LEMMA WholeStays ==
  ASSUME Whole, UNCHANGED <<conf, tree, index, head, writer>>,
         at' \in {"idle", "working", "check"}, at' # "idle" => n' > 0
  PROVE  Whole'
BY DEF Whole, OutsideForeign, Foreign, Staged

(* A command that ends with a line in the log.                             *)
LEMMA SkipKeepsWhole ==
  ASSUME Layout, Inv, Whole, Skip, conf' = conf
  PROVE  Whole'
<1>1. /\ Types /\ n \in Nat /\ writer' = Append(writer, n) /\ at' = "idle"
      /\ \A p \in Outside : tree'[p] = tree[p]
      /\ UNCHANGED <<index, head>>
  BY DEF Inv, Types, Skip, End, Write, Layout, Paths
<1>2. \A w \in Numbers : writer'[w] = writer[w]
  BY <1>1, WritersStay
<1> QED
  BY <1>1, <1>2 DEF Whole, OutsideForeign, Foreign, Staged, Types, Paths

(* The user's writes are never the command's.                              *)
LEMMA UserKeepsWhole ==
  ASSUME Layout, Inv, Whole, User
  PROVE  Whole'
<1>1. Types /\ n \in Nat
  BY DEF Inv, Types
<1>2. ASSUME NEW q \in Paths, Edit(q) PROVE Whole'
  <2>1. /\ writer' = Append(writer, 0)
        /\ \A p \in Paths : tree'[p] = IF p = q THEN tree[p] \cup {Len(writer) + 1}
                                                ELSE tree[p]
        /\ UNCHANGED <<conf, index, head, at, n, paths>>
    BY <1>2 DEF Edit, Write, command
  <2>2. /\ \A w \in Numbers : writer'[w] = writer[w]
        /\ writer'[Len(writer) + 1] = 0
    BY <1>1, <2>1, WritersStay
  <2>3. OutsideForeign'
    <3>1. \A p \in Paths : /\ tree[p] \subseteq Numbers /\ index[p] \subseteq Numbers
                           /\ head[p] \subseteq Numbers
      BY <1>1 DEF Types
    <3>2. \A p \in Outside : Foreign(index[p])' /\ Foreign(head[p])'
      BY <2>1, <2>2, <3>1 DEF Whole, OutsideForeign, Foreign, Paths
    <3>3. ASSUME NEW p \in Outside, NEW w \in tree'[p] PROVE writer'[w] = 0
      <4>1. p \in Paths /\ (w \in tree[p] \/ w = Len(writer) + 1)
        BY <2>1, <3>3 DEF Paths
      <4>2. w \in tree[p] => writer'[w] = 0
        BY <2>2, <3>1, <4>1 DEF Whole, OutsideForeign, Foreign
      <4> QED
        BY <2>2, <4>1, <4>2
    <3> QED
      BY <3>2, <3>3 DEF OutsideForeign, Foreign
  <2>4. ASSUME n > 0, NEW p \in Paths
        PROVE  Ours(tree[p])' = Ours(tree[p])
    <3>1. tree[p] \subseteq Numbers
      BY <1>1 DEF Types
    <3>2. \A w \in tree[p] : writer'[w] = writer[w]
      BY <2>2, <3>1
    <3>3. tree'[p] = tree[p] \/ tree'[p] = tree[p] \cup {Len(writer) + 1}
      BY <2>1
    <3>4. writer'[Len(writer) + 1] # n
      BY <2>2, <2>4
    <3>5. n' = n
      BY <2>1
    <3>6. CASE tree'[p] = tree[p]
      BY <3>2, <3>5, <3>6 DEF Ours
    <3>7. CASE tree'[p] = tree[p] \cup {Len(writer) + 1}
      <4>1. \A w : w \in Ours(tree[p])' <=> w \in tree'[p] /\ writer'[w] = n
        BY <3>5 DEF Ours
      <4>2. \A w : w \in Ours(tree[p]) <=> w \in tree[p] /\ writer[w] = n
        BY DEF Ours
      <4>3. Len(writer) + 1 \notin tree[p]
        BY <1>1, <3>1 DEF Numbers, Types
      <4>4. \A w : w \in Ours(tree[p])' <=> w \in Ours(tree[p])
        BY <3>2, <3>4, <3>7, <4>1, <4>2, <4>3
      <4> QED
        BY <4>4
    <3> QED
      BY <3>3, <3>6, <3>7
  <2>5. Staged'
    BY <2>1, <2>4 DEF Whole, Staged
  <2> QED
    BY <2>1, <2>3, <2>5 DEF Whole
<1>3. ASSUME NEW q \in Paths, Stage(q) PROVE Whole'
  <2>1. /\ \A p \in Paths : index'[p] = IF p = q THEN tree[p] ELSE index[p]
        /\ UNCHANGED <<conf, tree, head, writer, at, n, paths>>
    BY <1>1, <1>3 DEF Stage, command, Types
  <2> QED
    BY <2>1 DEF Whole, OutsideForeign, Foreign, Staged, Ours, Paths
<1>4. CASE CommitByHand
  <2>1. head' = index /\ UNCHANGED <<conf, tree, index, writer, at, n, paths>>
    BY <1>4 DEF CommitByHand, command
  <2> QED
    BY <2>1 DEF Whole, OutsideForeign, Foreign, Staged, Ours
<1>5. CASE Stash
  <2>1. tree' = head /\ index' = head /\ UNCHANGED <<conf, head, writer, at, n, paths>>
    BY <1>5 DEF Stash, command
  <2> QED
    BY <2>1 DEF Whole, OutsideForeign, Foreign, Staged, Ours
<1> QED
  BY <1>2, <1>3, <1>4, <1>5 DEF User

(* What the command writes is in the data directory.                       *)
LEMMA WorkKeepsWhole ==
  ASSUME Layout, Inv, Whole, Work
  PROVE  Whole'
<1>1. /\ Types /\ n \in Nat /\ writer' = Append(writer, n)
      /\ \A p \in Outside : tree'[p] \subseteq tree[p]
      /\ at = "working" /\ at' = "check" /\ UNCHANGED <<conf, index, head, n>>
  BY DEF Inv, Types, Work, Layout, Paths
<1>2. \A w \in Numbers : writer'[w] = writer[w]
  BY <1>1, WritersStay
<1> QED
  BY <1>1, <1>2 DEF Whole, OutsideForeign, Foreign, Staged, Types, Paths

(* A path that is not taken is not changed, or outside, or quoted.         *)
LEMMA CompareKeepsWhole ==
  ASSUME Layout, Inv, Whole, Compare
  PROVE  Whole'
<1>1. /\ Types /\ n \in Nat /\ n > 0 /\ writer' = Append(writer, n)
      /\ at = "check" /\ at' = "add" /\ paths' = OperationPaths \cup {Log}
      /\ UNCHANGED <<conf, index, head, n>>
      /\ \A p \in Paths \ {Log} : tree'[p] = tree[p]
  BY DEF Inv, Types, Compare, Write, user, Whole
<1>2. \A w \in Numbers : writer'[w] = writer[w]
  BY <1>1, WritersStay
<1>3. OutsideForeign'
  BY <1>1, <1>2 DEF Whole, OutsideForeign, Foreign, Types, Paths, Layout
<1>4. Staged'
  <2> SUFFICES ASSUME ~conf.allow, NEW p \in Paths \ conf.quoted, p \notin paths'
               PROVE  Ours(tree[p])' \subseteq index[p]
    BY <1>1 DEF Staged
  <2>1. p # Log /\ tree'[p] = tree[p] /\ p \notin OperationPaths
    BY <1>1
  <2>2. Ours(tree[p])' = Ours(tree[p])
    BY <1>1, <1>2, <2>1 DEF Ours, Types
  <2>3. CASE p \notin Changed
    BY <2>2, <2>3 DEF Changed, Ours
  <2>4. CASE p \in Changed
    <3>1. p \in Outside
      BY <2>1, <2>4 DEF OperationPaths, Paths
    <3>2. Ours(tree[p]) = {}
      BY <1>1, <3>1 DEF Whole, OutsideForeign, Foreign, Ours
    <3> QED
      BY <2>2, <3>2
  <2> QED
    BY <2>3, <2>4
<1> QED
  BY <1>1, <1>3, <1>4 DEF Whole

(* git add takes all of a path's writes.                                   *)
LEMMA AddKeepsWhole ==
  ASSUME Layout, Inv, Whole, Add
  PROVE  Whole'
<1>1. /\ at = "add" /\ at' = "commit"
      /\ \A p \in Paths : index'[p] = IF p \in paths THEN tree[p] ELSE index[p]
      /\ UNCHANGED <<conf, tree, head, writer, n, paths>>
  BY DEF Add
<1> QED
  BY <1>1 DEF Whole, OutsideForeign, Foreign, Staged, Ours, Paths

LEMMA NextWhole ==
  ASSUME Layout, Inv, Whole, [Next]_vars
  PROVE  Whole'
<1>1. CASE User
  BY <1>1, UserKeepsWhole
<1>2. CASE Begin
  BY <1>2, WholeStays DEF Begin, repo, Inv, Types
<1>3. CASE Work
  BY <1>3, WorkKeepsWhole
<1>4. CASE Fail
  BY <1>4, WholeStays DEF Fail, repo, End
<1>5. CASE Refuse \/ NothingNew \/ GitFails
  BY <1>5, SkipKeepsWhole DEF Refuse, NothingNew, GitFails, Skip
<1>6. CASE Compare
  BY <1>6, CompareKeepsWhole
<1>7. CASE Add
  BY <1>7, AddKeepsWhole
<1>8. CASE Commit
  <2>1. head' = index /\ at' = "idle" /\ UNCHANGED <<conf, tree, index, writer>>
    BY <1>8 DEF Commit, End
  <2> QED
    BY <2>1 DEF Whole, OutsideForeign, Foreign, Staged
<1>9. CASE UNCHANGED vars
  BY <1>9 DEF vars, Whole, OutsideForeign, Foreign, Staged, Ours
<1> QED
  BY <1>1, <1>2, <1>3, <1>4, <1>5, <1>6, <1>7, <1>8, <1>9 DEF Next

(* Unless unrelated changes are allowed, a commit of kb leaves out nothing *)
(* that its command has written and that is still there, the paths apart   *)
(* that git prints in quotes (git_auto.py, _operation_paths), whatever the *)
(* user edits, stages, stashes or commits meanwhile.                       *)
THEOREM CommitsAreWhole ==
  ASSUME Layout
  PROVE  Spec => CommitIsWhole
<1>1. Init => Whole
  BY DEF Init, Whole, OutsideForeign, Foreign, Staged, Paths
<1>2. Inv /\ Whole /\ [Next]_vars => Whole'
  BY NextWhole
<1>3. Whole /\ [Next]_vars =>
        [Commit /\ ~conf.allow => Lacking \subseteq conf.quoted]_vars
  BY DEF Whole, Staged, Ours, Commit, Lacking
<1> QED
  BY InvAlways, <1>1, <1>2, <1>3, PTL DEF Spec, CommitIsWhole

-------------------------------------------------------------------------------
(* Types.                                                                  *)

Bounded ==
  /\ writer \in Seq(0..Commands) /\ n \in 0..Commands
  /\ at \in {"idle", "working", "check", "add", "commit"}
  /\ related \subseteq Data /\ before \subseteq Paths /\ paths \subseteq Paths
  /\ turns \in 0..Turns
  /\ handed \subseteq Numbers

LEMMA WritersAreKnown ==
  ASSUME Layout, Bounded, NEW who \in 0..Commands, writer' = Append(writer, who)
  PROVE  writer' \in Seq(0..Commands) /\ Numbers \subseteq Numbers'
<1>1. Len(writer') = Len(writer) + 1 /\ Len(writer) \in Nat
  BY DEF Bounded
<1> QED
  BY <1>1 DEF Bounded, Numbers

LEMMA EndsBounded ==
  ASSUME Bounded, End, turns' = turns, handed' = handed, n' = n,
         writer' \in Seq(0..Commands), Numbers \subseteq Numbers'
  PROVE  Bounded'
BY DEF Bounded, End

LEMMA SkipIsBounded ==
  ASSUME Layout, Bounded, Skip PROVE Bounded'
<1>1. writer' = Append(writer, n) /\ n \in 0..Commands /\ End
      /\ UNCHANGED <<n, turns, handed>>
  BY DEF Skip, Write, Bounded, user
<1> QED
  BY <1>1, WritersAreKnown, EndsBounded

LEMMA NextBounded ==
  ASSUME Layout, Inv, Bounded, [Next]_vars PROVE Bounded'
<1>1. CASE User
  <2>1. UNCHANGED <<at, n, related, before, paths>> /\ turns' \in 0..Turns
    <3>1. Turn /\ UNCHANGED command
      BY <1>1 DEF User, Stage, Edit, CommitByHand, Stash
    <3> QED
      BY <3>1 DEF command, Turn, Bounded, Layout
  <2>2. ASSUME NEW p \in Paths, Edit(p) PROVE Bounded'
    <3>1. writer' = Append(writer, 0) /\ 0 \in 0..Commands /\ handed' = handed
      BY <2>2 DEF Edit, Write, Layout
    <3> QED
      BY <2>1, <3>1, WritersAreKnown DEF Bounded
  <2>3. ASSUME NEW p \in Paths, Stage(p) PROVE Bounded'
    <3>1. writer' = writer /\ handed' = handed \cup tree[p] /\ tree[p] \subseteq Numbers
      BY <2>3 DEF Stage, Inv, Types
    <3> QED
      BY <2>1, <3>1 DEF Bounded, Numbers
  <2>4. CASE CommitByHand \/ Stash
    <3>1. UNCHANGED <<writer, handed>>
      BY <2>4 DEF CommitByHand, Stash
    <3> QED
      BY <2>1, <3>1 DEF Bounded, Numbers
  <2> QED
    BY <1>1, <2>2, <2>3, <2>4 DEF User
<1>2. CASE Begin
  <2>1. /\ n' \in 0..Commands /\ related' \subseteq Data /\ before' \subseteq Paths
        /\ at' = "working" /\ UNCHANGED <<writer, paths, turns, handed>>
    BY <1>2 DEF Begin, Bounded, Layout, Changed, user
  <2> QED
    BY <2>1 DEF Bounded, Numbers
<1>3. CASE Work
  <2>1. writer' = Append(writer, n) /\ n \in 0..Commands /\ at' = "check"
        /\ UNCHANGED <<n, related, before, paths, turns, handed>>
    BY <1>3 DEF Work, Bounded, user
  <2> QED
    BY <2>1, WritersAreKnown DEF Bounded
<1>4. CASE Fail \/ Commit
  BY <1>4, EndsBounded DEF Fail, Commit, user, Bounded, Numbers
<1>5. CASE Refuse \/ NothingNew \/ GitFails
  BY <1>5, SkipIsBounded DEF Refuse, NothingNew, GitFails
<1>6. CASE Compare
  <2>1. writer' = Append(writer, n) /\ n \in 0..Commands /\ at' = "add"
        /\ UNCHANGED <<n, related, before, turns, handed>>
        /\ paths' \subseteq Paths
    BY <1>6 DEF Compare, Write, Bounded, user, OperationPaths, Changed, Paths, Layout
  <2> QED
    BY <2>1, WritersAreKnown DEF Bounded
<1>7. CASE Add
  BY <1>7 DEF Add, user, Bounded, Numbers
<1>8. CASE UNCHANGED vars
  BY <1>8 DEF vars, Bounded, Numbers
<1> QED
  BY <1>1, <1>2, <1>3, <1>4, <1>5, <1>6, <1>7, <1>8 DEF Next

(* A write in a file, in the index or in a commit has its writer, and a    *)
(* command that has ended leaves nothing for the next to go by.            *)
THEOREM TypesHold ==
  ASSUME Layout PROVE Spec => []TypeOK
<1>1. Init => Bounded
  BY DEF Init, Bounded, Layout, Numbers
<1>2. Inv /\ Bounded /\ [Next]_vars => Bounded'
  BY NextBounded
<1>3. Inv /\ Bounded => TypeOK
  <2> SUFFICES ASSUME Inv, Bounded PROVE TypeOK
    OBVIOUS
  <2>1. DOMAIN writer = Numbers /\ Len(writer) \in Nat
    BY DEF Bounded, Numbers
  <2> QED
    BY <2>1 DEF Inv, Types, Bounded, TypeOK, Writes
<1> QED
  BY InvAlways, <1>1, <1>2, <1>3, PTL DEF Spec
===============================================================================
