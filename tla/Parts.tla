--------------------------------- MODULE Parts ---------------------------------
(***************************************************************************)
(* The parts of kb that share nothing with each other in the model:        *)
(* provider policy, provider setup, auto-commit, reindex, hygiene and      *)
(* search misses.  A behaviour is one of a single part; the variables of   *)
(* all others keep their initial values.  Three parts are instantiated     *)
(* with the theorems about them.                                           *)
(***************************************************************************)
EXTENDS ProviderPolicy

CONSTANTS
  Names,                                                     \* ProviderSetup
  Data, Outside, Raw, Log, Commands, Turns,                  \* GitAuto
  Procs, Indexed, IndexedNote, FirstIndexed,                 \* Reindex
  PageSize, OtherSize, Changes, Searches,
  Scanned, ScannedNote, FirstScanned,                        \* Hygiene
  Reasons, Disputing, Correcting, StaleAfter, OrphanAfter,
  Jumps, LastDay, Bursts, Events,
  Queries, Misses, Tears                                     \* SearchMisses

VARIABLES
  which,   \* the part
  sName, sSetting, sEnv, sValidated, sFindings, sBuilt,
  gConf, gTree, gIndex, gHead, gWriter, gAt, gN, gRelated, gBefore, gPaths, gMark,
  gTurns, gHanded, gLoose,
  xNotes, xDirs, xPages, xBacklinks, xStats, xFts, xManifest, xLog, xCmd, xChanges,
  xAlone,
  hNotes, hDay, hUse, hTorn, hItems, hCmd, hEvents, hQuiet,
  mMisses, mTorn, mItems, mAt, mTears

section == <<sName, sSetting, sEnv, sValidated, sFindings, sBuilt>>
git     == <<gConf, gTree, gIndex, gHead, gWriter, gAt, gN, gRelated, gBefore, gPaths,
             gMark, gTurns, gHanded, gLoose>>
indexed == <<xNotes, xDirs, xPages, xBacklinks, xStats, xFts, xManifest, xLog, xCmd,
             xChanges, xAlone>>
hygiene == <<hNotes, hDay, hUse, hTorn, hItems, hCmd, hEvents, hQuiet>>
missed  == <<mMisses, mTorn, mItems, mAt, mTears>>
parts   == <<which, vars, section, git, indexed, hygiene, missed>>

-------------------------------------------------------------------------------
Section == INSTANCE ProviderSetup WITH
  name <- sName, setting <- sSetting, env <- sEnv, validated <- sValidated,
  findings <- sFindings, built <- sBuilt

Git == INSTANCE GitAutoProofs WITH
  conf <- gConf, tree <- gTree, index <- gIndex, head <- gHead, writer <- gWriter,
  at <- gAt, n <- gN, related <- gRelated, before <- gBefore, paths <- gPaths,
  mark <- gMark, turns <- gTurns, handed <- gHanded, loose <- gLoose

Index == INSTANCE ReindexProofs WITH
  Notes <- Indexed, Note <- IndexedNote, First <- FirstIndexed,
  notes <- xNotes, dirs <- xDirs, pages <- xPages, backlinks <- xBacklinks,
  stats <- xStats, fts <- xFts, manifest <- xManifest, log <- xLog, cmd <- xCmd,
  changes <- xChanges, alone <- xAlone

Hyg == INSTANCE HygieneProofs WITH
  Notes <- Scanned, Note <- ScannedNote, First <- FirstScanned,
  notes <- hNotes, day <- hDay, use <- hUse, torn <- hTorn, items <- hItems,
  cmd <- hCmd, events <- hEvents, quiet <- hQuiet

Missed == INSTANCE SearchMisses WITH
  misses <- mMisses, torn <- mTorn, items <- mItems, at <- mAt, tears <- mTears

ASSUME SectionNone  == Section!NoneDiffers
ASSUME GitLayout    == Git!Layout
ASSUME IndexSizes   == Index!Sizes
ASSUME HygBounds    == Hyg!Bounds
ASSUME MissedSizes  == Missed!Sizes

-------------------------------------------------------------------------------
PartsInit ==
  /\ which \in {"policy", "setup", "git", "index", "hygiene", "misses"}
  /\ Init /\ Section!Init /\ Git!Init /\ Index!Init /\ Hyg!Init /\ Missed!Init

PartsNext ==
  /\ UNCHANGED which
  /\ IF which = "policy"  THEN Next         ELSE UNCHANGED vars
  /\ IF which = "setup"   THEN Section!Next ELSE UNCHANGED section
  /\ IF which = "git"     THEN Git!Next     ELSE UNCHANGED git
  /\ IF which = "index"   THEN Index!Next   ELSE UNCHANGED indexed
  /\ IF which = "hygiene" THEN Hyg!Next     ELSE UNCHANGED hygiene
  /\ IF which = "misses"  THEN Missed!Next  ELSE UNCHANGED missed

PartsSpec == PartsInit /\ [][PartsNext]_parts

-------------------------------------------------------------------------------
(* The modules of the parts say of each property what it is about.         *)

TypesOK ==
  /\ TypeOK /\ Section!TypeOK /\ Git!TypeOK
  /\ Index!TypeOK /\ Hyg!TypeOK /\ Missed!TypeOK

(* What kb doctor says of a provider is what an operation meets, but for   *)
(* the exception that ProviderSetup names.                                 *)
DoctorPredicts == Section!DoctorPredicts

(* A commit of kb holds what the command wrote, or was given.              *)
CommitIsOwn == Git!CommitIsOwn

(* A commit of kb holds nothing of the rest of the repository.             *)
OutsideStays == Git!OutsideStays

(* A commit of kb leaves out nothing that its command wrote.               *)
CommitIsWhole == Git!CommitIsWhole

(* A reindex that nobody disturbs repairs all artifacts.                   *)
Repairs == Index!Repairs

(* A kb reindex that nobody disturbs leaves nothing for kb doctor to find. *)
ReindexQuietsDoctor == Index!ReindexQuietsDoctor

(* A whole scan after which only reviewers acted is a fixed point.         *)
ScanSettles == Hyg!ScanSettles

(* A flag reaches its review item.                                         *)
FlagIsHeard == Hyg!FlagIsHeard

(* A query that has missed often enough gets its review item.              *)
MissesPromoted == Missed!MissesPromoted
===============================================================================
