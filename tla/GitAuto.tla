-------------------------------- MODULE GitAuto --------------------------------
(***************************************************************************)
(* The optional commit that ends a command of kb (git_auto.py and its      *)
(* callers in cli.py): what is changed in the worktree when the command    *)
(* begins is compared with what is changed when it ends, and the           *)
(* difference is added and committed, while the user works in the same     *)
(* repository.                                                             *)
(*                                                                         *)
(* The content of a file is the set of the writes it holds.  Writes are    *)
(* numbered; writer[w] is the command that made write w, or 0 for the      *)
(* user.                                                                   *)
(***************************************************************************)
EXTENDS Naturals, Sequences, FiniteSets

CONSTANTS
  Data,     \* paths in the data directory, the log among them
  Outside,  \* paths elsewhere in the worktree
  Raw,      \* those of Data that are under raw/
  Log,      \* .kb/errors.log
  Commands, \* how many commands are run
  Turns     \* a bound on what the user does

(* What is assumed of the paths and bounds.                                *)
Layout ==
  /\ Data \cap Outside = {}
  /\ Raw \subseteq Data
  /\ Log \in Data
  /\ Commands \in Nat /\ Turns \in Nat

VARIABLES
  conf,     \* whether the data directory is below the root, the git settings,
            \* and the paths that git status prints in quotes: a blank, no ASCII
  tree, index, head,  \* the content of each path
  writer,   \* who made each write
  at,       \* where the command is
  n,        \* the number of the command
  related,  \* paths it may find changed
  before,   \* the paths that were changed when it began
  paths,    \* what it is about to add
  mark,     \* the number of writes made when it began
  turns,    \* how often the user has acted
  handed,   \* writes that the user has staged
  loose     \* writes the user made while no command ran

repo == <<tree, index, head>>
command == <<at, n, related, before, paths, mark>>
user == <<turns, handed, loose>>
vars == <<conf, tree, index, head, writer, at, n, related, before, paths, mark,
          turns, handed, loose>>

Paths == Data \cup Outside
Conf == [nested : BOOLEAN, scope : BOOLEAN, allow : BOOLEAN, quoted : SUBSET Raw]
Changed == {p \in Paths : tree[p] # index[p] \/ index[p] # head[p]}

Init ==
  /\ conf \in Conf
  /\ tree = [p \in Paths |-> {}]
  /\ index = tree
  /\ head = tree
  /\ writer = <<>>
  /\ at = "idle"
  /\ n = 0
  /\ related = {} /\ before = {} /\ paths = {}
  /\ mark = 0
  /\ turns = 0
  /\ handed = {} /\ loose = {}

Write(who, where) ==
  /\ writer' = Append(writer, who)
  /\ tree' = [p \in Paths |-> IF p \in where THEN tree[p] \cup {Len(writer) + 1}
                                             ELSE tree[p]]

-------------------------------------------------------------------------------
(* The user: edit, git add, git commit, git stash.                         *)

Turn == turns < Turns /\ turns' = turns + 1

Edit(p) ==
  /\ Turn
  /\ Write(0, {p})
  /\ loose' = IF at = "idle" THEN loose \cup {Len(writer')} ELSE loose
  /\ UNCHANGED <<conf, index, head, command, handed>>

Stage(p) ==
  /\ Turn
  /\ tree[p] # index[p]
  /\ index' = [index EXCEPT ![p] = tree[p]]
  /\ handed' = handed \cup tree[p]
  /\ UNCHANGED <<conf, tree, head, writer, command, loose>>

CommitByHand ==
  /\ Turn
  /\ index # head
  /\ head' = index
  /\ UNCHANGED <<conf, tree, index, writer, command, handed, loose>>

Stash ==
  /\ Turn
  /\ Changed # {}
  /\ tree' = head
  /\ index' = head
  /\ UNCHANGED <<conf, head, writer, command, handed, loose>>

-------------------------------------------------------------------------------
(* The command, up to its call of maybe_auto_commit                        *)

(* Only ingest says which of the changes it finds are its own.             *)
Begin ==
  /\ at = "idle" /\ n < Commands
  /\ n' = n + 1
  /\ related' \in {{}, Raw}
  /\ before' = Changed
  /\ mark' = Len(writer)
  /\ at' = "working"
  /\ UNCHANGED <<conf, repo, writer, paths, user>>

(* It writes files, and moves raw files away that git does not know.  That *)
(* a command removes or moves a file git does know is left out.            *)
Work ==
  /\ at = "working"
  /\ \E written \in SUBSET Data, moved \in SUBSET related :
       /\ writer' = Append(writer, n)
       /\ tree' = [p \in Paths |->
                     IF p \in written THEN tree[p] \cup {Len(writer')}
                     ELSE IF p \in moved /\ head[p] = {} /\ index[p] = {} THEN {}
                     ELSE tree[p]]
  /\ at' = "check"
  /\ UNCHANGED <<conf, index, head, n, related, before, paths, mark, user>>

End ==
  /\ at' = "idle"
  /\ related' = {} /\ before' = {} /\ paths' = {} /\ mark' = 0

(* A command that fails, or an ingest with errors, commits nothing.        *)
Fail ==
  /\ at = "check"
  /\ End
  /\ UNCHANGED <<conf, repo, writer, n, user>>

-------------------------------------------------------------------------------
(* maybe_auto_commit                                                       *)

(* Every way out but success appends to the log.                           *)
Skip ==
  /\ Write(n, {Log})
  /\ End
  /\ UNCHANGED <<conf, index, head, n, user>>

(* Faulty: related paths are matched without a look at the others.         *)
Unrelated_IfNoneRelated == IF before \cap related # {} THEN {} ELSE before

Unrelated == before \ (related \ conf.quoted)

MayCommit == conf.scope /\ (conf.allow \/ Unrelated = {})

Refuse == at = "check" /\ ~MayCommit /\ Skip

(* Faulty: what was changed before is left out in any case.                *)
OperationPaths_AllExcluded == {p \in Changed :
  /\ conf.nested => p \in Data \ conf.quoted
  /\ p \notin before}

(* Faulty: what lies outside of the data directory is taken along.         *)
OperationPaths_Everywhere == {p \in Changed : conf.allow => p \notin before}

(* A quoted path does not begin with the name of the data directory.       *)
OperationPaths == {p \in Changed :
  /\ conf.nested => p \in Data \ conf.quoted
  /\ conf.allow => p \notin before}

Compare ==
  /\ at = "check" /\ MayCommit
  /\ OperationPaths # {}
  /\ paths' = OperationPaths \cup {Log}
  /\ Write(n, {Log})
  /\ at' = "add"
  /\ UNCHANGED <<conf, index, head, n, related, before, mark, user>>

NothingNew == at = "check" /\ MayCommit /\ OperationPaths = {} /\ Skip

Add ==
  /\ at = "add"
  /\ paths \cap conf.quoted = {}
  /\ index' = [p \in Paths |-> IF p \in paths THEN tree[p] ELSE index[p]]
  /\ at' = "commit"
  /\ UNCHANGED <<conf, tree, head, writer, n, related, before, paths, mark, user>>

(* git commit takes all of the index, whoever staged it.                   *)
Commit ==
  /\ at = "commit"
  /\ head' = index
  /\ End
  /\ UNCHANGED <<conf, tree, index, writer, n, user>>

(* git may fail at every call: a lock of its own, a hook, a missing git.   *)
GitFails == at \in {"check", "add", "commit"} /\ Skip

User == \/ \E p \in Paths : Stage(p) \/ (p # Log /\ Edit(p))
        \/ CommitByHand
        \/ Stash

Next ==
  \/ User
  \/ Begin \/ Work \/ Fail \/ Refuse \/ Compare \/ NothingNew \/ Add \/ Commit
  \/ GitFails

Spec == Init /\ [][Next]_vars

-------------------------------------------------------------------------------
Writes == SUBSET (DOMAIN writer)

TypeOK ==
  /\ conf \in Conf
  /\ {tree, index, head} \subseteq [Paths -> Writes]
  /\ writer \in Seq(0..Commands)
  /\ at \in {"idle", "working", "check", "add", "commit"}
  /\ n \in 0..Commands
  /\ related \subseteq Data /\ before \subseteq Paths /\ paths \subseteq Paths
  /\ mark \in 0..Len(writer)
  /\ turns \in 0..Turns
  /\ handed \in Writes /\ loose \in Writes

(* What a commit adds to a path, and where it leaves out a write of its    *)
(* command.                                                                *)
Held(p) == head'[p] \ head[p]
Lacking == {p \in Paths : \E w \in tree[p] \ head'[p] : writer[w] = n}

(* Unless unrelated changes are allowed, all that kb commits was written   *)
(* after the command began, or lies in a path it was given: what an        *)
(* earlier command left uncommitted (its log line, say) is never swept     *)
(* into the commit of a later one.  Where they are allowed, what the user  *)
(* changed between two commands is committed only if the user had staged   *)
(* it; errors.log apart, which is always added.                            *)
CommitIsOwn ==
  [][Commit =>
       IF conf.allow
       THEN \A p \in Paths \ {Log} : Held(p) \cap loose \subseteq handed
       ELSE \A p \in Paths \ related : \A w \in Held(p) : w > mark]_vars

(* When the data directory is part of a larger repository, a change in the *)
(* rest of it is committed by kb only if the user had staged it.           *)
OutsideStays ==
  [][Commit /\ conf.nested => \A p \in Outside : Held(p) \subseteq handed]_vars

(* Unless unrelated changes are allowed, a commit holds all that its       *)
(* command has written, the paths apart that git prints in quotes.         *)
CommitIsWhole ==
  [][Commit /\ ~conf.allow => Lacking \subseteq conf.quoted]_vars
===============================================================================
