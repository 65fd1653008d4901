---------------------------- MODULE SessionProofs ----------------------------
(***************************************************************************)
(* What a session of any length promises for any set of packages, any      *)
(* terminal sizes and any keys: its types, one load and one mutation at a  *)
(* time and never both, and that brew runs what the screen says.           *)
(*                                                                         *)
(* Types alone are not inductive: what a finished reload claims and what a *)
(* Start puts on brew's command line are entries only because an operation *)
(* is running at that moment.  Lifecycle, the life of a job, strengthens   *)
(* them.  A Start needs an idle keyboard and no operation, or a job that   *)
(* has just reported success; a load needs no operation, or a job that has *)
(* just reported the last success.  So the model holds at most one of a    *)
(* Start, a job and a load.                                                *)
(***************************************************************************)
EXTENDS SessionProperties, SequenceTheorems, FiniteSetTheorems, TLAPS

(* The phases of a job and the handles the model keeps of it: a Start is   *)
(* pending until its message is handled, a job from then to its result.    *)
HandlesFollowJob ==
  /\ startPending <=> (jobPhase = "starting" \/ startMsg # "none")
  /\ jobPending <=> (jobPhase \in {"live", "finished"} /\ startMsg = "none")
  /\ jobHeld <=> jobPending
  /\ jobPhase = "starting" => startMsg = "none"
  /\ startMsg = "failed" => jobPhase = "idle"
  /\ startMsg = "started" => jobPhase \in {"live", "finished"}

(* A job belongs to the operation on screen.                               *)
JobHasOperation == startPending \/ jobPending => JobRunning

(* The one load is the one loading and loadPurpose speak of; no job has a  *)
(* handle meanwhile, and the reload that ends an operation still has it.   *)
LoadIsAlone ==
  /\ loading <=> lists # {}
  /\ \A c \in lists : lists = {c} /\ c.purpose = loadPurpose
  /\ loading => ~startPending /\ ~jobPending
  /\ loading /\ loadPurpose = "afterOperation" => JobRunning

(* A batch is confirmed only while nothing runs: y on its dialog starts a   *)
(* job without asking again.                                               *)
BatchAwaitsNoJob == batchConfirmation # <<>> => ~JobRunning

Lifecycle ==
  HandlesFollowJob /\ JobHasOperation /\ LoadIsAlone /\ BatchAwaitsNoJob /\ JobIsTheOperation

IInv == TypeOK /\ Lifecycle

USE PkgsAssumption, KindAssumption, SelfAssumption, WorldAssumption, SnapshotsAssumption,
    TermsAssumption, BoundsAssumption

----------------------------------------------------------------------------
(* The variables a handler leaves alone keep their types.                  *)
LEMMA OperationFrame ==
  TypeOK /\ OperationUntouched => RunType' /\ HoldType' /\ JobType'
BY DEF TypeOK, OperationUntouched, RunType, HoldType, JobType,
       runVars, batchVars, holdVars, passwordVars, jobVars

LEMMA RestFrame ==
  TypeOK /\ RestUntouched =>
    /\ DialogType' /\ TrustType' /\ WorldType'
    /\ term' \in Terms /\ closing' \in BOOLEAN
BY DEF TypeOK, RestUntouched, ScreenType, DialogType, TrustType, WorldType, QuitType,
       dialogVars, trustVars, worldVars

LEMMA LoadFrame ==
  TypeOK /\ LoadUntouched =>
    LoadType' /\ SizeType' /\ sizesKnown' \in BOOLEAN /\ disk' \in Snapshot
BY DEF TypeOK, LoadUntouched, LoadType, SizeType, ViewType, loadVars, sizeVars

LEMMA InventoryFrame ==
  TypeOK /\ InventoryUntouched =>
    kind' \in Kinds /\ ViewType' /\ LoadType' /\ SizeType' /\ InfoType'
BY DEF TypeOK, InventoryUntouched, ScreenType, ViewType, LoadType, SizeType, InfoType,
       viewVars, loadVars, sizeVars

LEMMA OthersFrame ==
  TypeOK /\ OthersUntouched => TrustType' /\ term' \in Terms /\ closing' \in BOOLEAN
BY DEF TypeOK, OthersUntouched, ScreenType, TrustType, QuitType, trustVars

(* What the helpers of SessionSteps assign.                                *)
LEMMA NoClaimType == NoClaim \in Claim
BY DEF NoClaim, Claim

LEMMA OtherKindType == \A k \in Kinds : OtherKind(k) \in Kinds
<1> SUFFICES ASSUME NEW k \in Kinds PROVE \E other \in Kinds : other # k
  BY DEF OtherKind
<1> QED BY DEF Kinds

LEMMA SelectInfoType == TypeOK /\ SelectInfo => InfoType'
BY DEF TypeOK, InfoType, SelectInfo

LEMMA StartLoadType ==
  ASSUME TypeOK, NEW k \in Kinds, NEW purpose \in LoadPurposes, NEW fleet \in BOOLEAN,
         StartLoad(k, purpose, fleet)
  PROVE  LoadType'
BY DEF TypeOK, LoadType, StartLoad, Load

LEMMA StartSizesType == TypeOK /\ StartSizes => SizeType'
BY DEF TypeOK, SizeType, StartSizes

LEMMA SnapshotType ==
  ASSUME disk \in Snapshot, cached' \subseteq Kinds, listCache' \in [Kinds -> SUBSET Row],
         sizesKnown' \in BOOLEAN, PersistSnapshot
  PROVE  disk' \in Snapshot
BY DEF PersistSnapshot, Snapshot

LEMMA FinishQuitType ==
  ASSUME NEW code \in ExitCodes, FinishQuit(code)
  PROVE  exited' \in BOOLEAN /\ quitExitCode' \in ExitCodes
BY DEF FinishQuit, ExitCodes, Settled

LEMMA ClearBatchType ==
  ASSUME ClearBatch
  PROVE  batchConfirmation' \in Seq(Pkgs) /\ batchTotal' \in Nat /\ batchCompleted' \in Nat
BY EmptySeq DEF ClearBatch

LEMMA BatchFrame ==
  ASSUME TypeOK, UNCHANGED <<batchConfirmation, batchVars>>
  PROVE  batchConfirmation' \in Seq(Pkgs) /\ batchTotal' \in Nat /\ batchCompleted' \in Nat
BY DEF TypeOK, DialogType, RunType, batchVars

LEMMA FinishOperationType ==
  ASSUME TypeOK, FinishOperation, UNCHANGED <<verb, operationID, confirmation, confirmVerb>>
  PROVE  /\ RunType' /\ DialogType'
         /\ mode' \in Modes /\ claim' \in Claim
BY NoClaimType, EmptySeq
   DEF TypeOK, FinishOperation, DropQueue, ClearBatch, RunType, DialogType, OptPkg, Modes,
       CancelReasons

LEMMA ListingType ==
  ASSUME TypeOK, NEW k, NEW offers, NEW marks
  PROVE  Listing(k, offers, marks) \in SUBSET Row
<1>1. ASSUME NEW p \in Pkgs
      PROVE  [name |-> p, offered |-> p \in offers, untrusted |-> p \in marks] \in Row
  <2> DEFINE o == p \in offers
             m == p \in marks
  <2>1. o \in BOOLEAN /\ m \in BOOLEAN
    OBVIOUS
  <2> HIDE DEF o, m
  <2>2. [name |-> p, offered |-> o, untrusted |-> m] \in Row
    BY <2>1 DEF Row
  <2> QED BY <2>2 DEF o, m
<1>2. installed \subseteq Pkgs
  BY DEF TypeOK, WorldType
<1> QED BY <1>1, <1>2, Zenon DEF Listing

LEMMA CancelJobType == TypeOK /\ CancelJob => jobCancelled' \in BOOLEAN
BY DEF TypeOK, JobType, CancelJob

----------------------------------------------------------------------------
(* The keys of the inventory.                                              *)
LEMMA InventoryKeyTypes == ASSUME TypeOK, InventoryKey PROVE TypeOK'
<1> USE SelectInfoType, OperationFrame, RestFrame, NoClaimType
<1>1. CASE Browse
  BY <1>1, LoadFrame
     DEF Browse, TypeOK, ScreenType, ViewType, QuitType
<1>2. CASE StatusKey
  BY <1>2, LoadFrame
     DEF StatusKey, TypeOK, ScreenType, ViewType, InfoType, QuitType
<1>3. CASE Reorder
  BY <1>3, LoadFrame
     DEF Reorder, TypeOK, ScreenType, ViewType, QuitType
<1>4. CASE EnterSearch
  BY <1>4, LoadFrame
     DEF EnterSearch, TypeOK, ScreenType, ViewType, InfoType, QuitType, Modes
<1>5. CASE SearchKey
  <2>1. ScreenType' /\ QuitType'
    BY <1>5 DEF SearchKey, TypeOK, ScreenType, QuitType, Modes
  <2>2. rows' \subseteq Row /\ InfoType'
    BY <1>5 DEF SearchKey, ApplyQuery, TypeOK, ScreenType, ViewType, InfoType
  <2>3. ViewType'
    BY <1>5, <2>2, LoadFrame DEF SearchKey, TypeOK, ViewType
  <2> QED BY <1>5, <2>1, <2>2, <2>3, LoadFrame DEF SearchKey, TypeOK
<1>6. CASE SwitchKind
  <2>1. ScreenType' /\ QuitType'
    BY <1>6, OtherKindType DEF SwitchKind, TypeOK, ScreenType, QuitType, Modes
  <2>2. ViewType'
    BY <1>6, <2>1 DEF SwitchKind, TypeOK, ScreenType, ViewType
  <2>3. LoadType'
    <3>1. kind' \in Kinds /\ "switch" \in LoadPurposes
      BY <2>1 DEF ScreenType, LoadPurposes
    <3> QED BY <1>6, <3>1, StartLoadType DEF SwitchKind, TypeOK, LoadType, loadVars
  <2>4. SizeType' /\ InfoType'
    BY <1>6 DEF SwitchKind, TypeOK, SizeType, InfoType, sizeVars
  <2> QED BY <1>6, <2>1, <2>2, <2>3, <2>4 DEF SwitchKind, TypeOK
<1>7. CASE Refresh
  <2>1. ScreenType' /\ QuitType' /\ InfoType'
    BY <1>7 DEF Refresh, TypeOK, ScreenType, QuitType, InfoType
  <2>2. ViewType' /\ SizeType'
    BY <1>7, StartSizesType DEF Refresh, InvalidateCaches, NoLists, TypeOK, ViewType
  <2>3. LoadType'
    <3>1. kind \in Kinds /\ "refresh" \in LoadPurposes
      BY DEF TypeOK, ScreenType, LoadPurposes
    <3> QED BY <1>7, <3>1, StartLoadType DEF Refresh
  <2> QED BY <1>7, <2>1, <2>2, <2>3 DEF Refresh, TypeOK
<1> QED BY <1>1, <1>2, <1>3, <1>4, <1>5, <1>6, <1>7 DEF InventoryKey

LEMMA TakeLoadType == ASSUME TypeOK, NEW c, TakeLoad(c) PROVE LoadType' /\ c \in Load
BY DEF TypeOK, TakeLoad, LoadType

LEMMA JobFrame ==
  ASSUME TypeOK, JobUntouched
  PROVE  HoldType' /\ JobType' /\ verb' \in Verbs /\ operationID' \in Nat
BY DEF TypeOK, JobUntouched, RunType, HoldType, JobType, holdVars, passwordVars, jobVars

LEMMA ViewFrame == TypeOK /\ ViewUntouched => kind' \in Kinds /\ ViewType' /\ SizeType'
BY DEF TypeOK, ViewUntouched, ScreenType, ViewType, SizeType, sizeVars

(* What a load that ends an operation reports is a confirmed entry.        *)
LEMMA LoadClaimType ==
  ASSUME IInv, NEW c \in lists
  PROVE  LoadClaim(c) \in Claim
<1>1. c.purpose = "afterOperation" => JobRunning
  BY DEF IInv, Lifecycle, LoadIsAlone
<1>2. c.purpose = "afterOperation" => [verb |-> verb, pkg |-> operation] \in Entry
  BY <1>1 DEF IInv, TypeOK, RunType, JobRunning, OptPkg, Entry
<1>3. batchTotal \in Nat
  BY DEF IInv, TypeOK, RunType
<1> QED BY <1>2, <1>3, NoClaimType DEF LoadClaim, Claim

(* The results of a load.                                                  *)
LEMMA LoadStepTypes == ASSUME IInv, LoadStep PROVE TypeOK'
<1> PICK c \in lists :
      LoadWhileQuitting(c) \/ LoadCancelled(c) \/ LoadFailed(c) \/ LoadSucceeded(c)
  BY DEF LoadStep
<1> USE DEF IInv
<1>1. CASE LoadWhileQuitting(c)
  <2>1. quitExitCode \in ExitCodes
    BY DEF TypeOK, QuitType
  <2>2. ScreenType' /\ InfoType' /\ RunType' /\ QuitType'
    BY <1>1, <2>1, ViewFrame, JobFrame, RestFrame, FinishQuitType
       DEF LoadWhileQuitting, TypeOK, ScreenType, InfoType, RunType, QuitType, batchVars
  <2> QED BY <1>1, <2>2, TakeLoadType, ViewFrame, JobFrame, RestFrame
          DEF LoadWhileQuitting, TypeOK
<1>2. CASE LoadCancelled(c)
  <2>1. RunType' /\ DialogType' /\ mode' \in Modes /\ claim' \in Claim
    BY <1>2, FinishOperationType DEF LoadCancelled, JobUntouched
  <2>2. ScreenType' /\ QuitType'
    BY <1>2, <2>1, ViewFrame DEF LoadCancelled, TypeOK, ScreenType, QuitType
  <2>3. TrustType' /\ WorldType'
    BY <1>2 DEF LoadCancelled, TypeOK, TrustType, WorldType, trustVars, worldVars
  <2> QED BY <1>2, <2>1, <2>2, <2>3, TakeLoadType, ViewFrame, JobFrame, SelectInfoType
          DEF LoadCancelled, TypeOK
<1>3. CASE LoadFailed(c)
  <2>1. RunType' /\ DialogType' /\ mode' \in Modes /\ claim' \in Claim
    <3>1. CASE c.purpose = "afterOperation"
      BY <1>3, <3>1, FinishOperationType DEF LoadFailed, JobUntouched
    <3>2. CASE c.purpose # "afterOperation"
      BY <1>3, <3>2, NoClaimType, JobFrame
         DEF LoadFailed, TypeOK, RunType, DialogType, ScreenType, batchVars
    <3> QED BY <3>1, <3>2
  <2>2. ScreenType' /\ QuitType' /\ InfoType'
    BY <1>3, <2>1 DEF LoadFailed, TypeOK, ScreenType, QuitType, InfoType
  <2>3. TrustType' /\ WorldType' /\ SizeType'
    BY <1>3 DEF LoadFailed, TypeOK, TrustType, WorldType, SizeType, trustVars, worldVars, sizeVars
  <2>4. ViewType'
    BY <1>3 DEF LoadFailed, TypeOK, ViewType
  <2> QED BY <1>3, <2>1, <2>2, <2>3, <2>4, TakeLoadType, JobFrame DEF LoadFailed, TypeOK
<1>4. CASE LoadSucceeded(c)
  <2>1. ScreenType' /\ QuitType'
    BY <1>4, LoadClaimType DEF LoadSucceeded, TypeOK, ScreenType, QuitType, Modes
  <2>2. cached' \subseteq Kinds /\ listCache' \in [Kinds -> SUBSET Row]
    <3>1. PICK offers \in Reads(outdated), marks \in Reads(untrusted) : Retain(c, offers, marks)
      BY <1>4 DEF LoadSucceeded
    <3>2. c \in Load
      BY <1>4, TakeLoadType DEF LoadSucceeded
    <3> QED BY <3>1, <3>2, ListingType DEF Retain, TypeOK, ViewType, Load
  <2>3. ViewType'
    <3>1. disk' \in Snapshot
      BY <1>4, <2>2, SnapshotType DEF LoadSucceeded, TypeOK, ViewType
    <3>2. c \in Load
      BY <1>4, TakeLoadType DEF LoadSucceeded
    <3> QED BY <1>4, <2>2, <3>1, <3>2 DEF LoadSucceeded, TypeOK, ViewType, Load
  <2>4. DialogType' /\ RunType'
    <3>1. /\ batchConfirmation' \in Seq(Pkgs)
          /\ batchTotal' \in Nat /\ batchCompleted' \in Nat
      BY <1>4, ClearBatchType, BatchFrame DEF LoadSucceeded
    <3>2. operation' \in OptPkg /\ cancelReason' \in CancelReasons
      BY <1>4 DEF LoadSucceeded, TypeOK, RunType, OptPkg, CancelReasons
    <3> QED BY <1>4, <3>1, <3>2, JobFrame DEF LoadSucceeded, TypeOK, DialogType, RunType
  <2>5. SizeType' /\ TrustType' /\ WorldType'
    BY <1>4 DEF LoadSucceeded, TypeOK, SizeType, TrustType, WorldType, sizeVars, trustVars, worldVars
  <2> QED BY <1>4, <2>1, <2>3, <2>4, <2>5, TakeLoadType, JobFrame, SelectInfoType
          DEF LoadSucceeded, TypeOK
<1> QED BY <1>1, <1>2, <1>3, <1>4

(* The results of the size passes and of package info.                     *)
LEMMA TakeSizesType == TypeOK /\ TakeSizes => SizeType'
BY DEF TypeOK, TakeSizes, SizeType

LEMMA SizesStepTypes == ASSUME TypeOK, SizesStep PROVE TypeOK'
<1> USE OperationFrame, RestFrame, TakeSizesType
<1>1. CASE SizesSuperseded
  BY <1>1 DEF SizesSuperseded, TypeOK, ScreenType, ViewType, LoadType, SizeType, InfoType,
              QuitType, loadVars
<1>2. CASE SizesWhileQuitting
  <2>1. quitExitCode \in ExitCodes
    BY DEF TypeOK, QuitType
  <2>2. QuitType'
    BY <1>2, <2>1, FinishQuitType DEF SizesWhileQuitting, QuitType
  <2> QED BY <1>2, <2>2 DEF SizesWhileQuitting, TypeOK, ScreenType, ViewType, LoadType,
                            InfoType, loadVars
<1>3. CASE SizesFailed
  BY <1>3 DEF SizesFailed, TypeOK, ScreenType, ViewType, LoadType, InfoType, QuitType, loadVars
<1>4. CASE SizesMeasured
  <2>1. rows' \subseteq Row /\ InfoType'
    BY <1>4, SelectInfoType DEF SizesMeasured, TypeOK, ScreenType, ViewType, InfoType
  <2>2. disk' \in Snapshot
    BY <1>4, SnapshotType DEF SizesMeasured, TypeOK, ViewType
  <2> QED BY <1>4, <2>1, <2>2 DEF SizesMeasured, TypeOK, ScreenType, ViewType, LoadType,
                                  QuitType, loadVars
<1> QED BY <1>1, <1>2, <1>3, <1>4 DEF SizesStep

LEMMA InfoTypes == ASSUME TypeOK, InfoCompleted PROVE TypeOK'
<1>1. quitExitCode \in ExitCodes
  BY DEF TypeOK, QuitType
<1>2. QuitType'
  BY <1>1, FinishQuitType, RestFrame DEF InfoCompleted, TypeOK, QuitType
<1>3. InfoType'
  BY DEF InfoCompleted, InfoType
<1> QED BY <1>2, <1>3, LoadFrame, OperationFrame, RestFrame
        DEF InfoCompleted, TypeOK, ScreenType, ViewType

----------------------------------------------------------------------------
(* The dialogs that start operations.                                      *)
LEMMA BatchType ==
  ASSUME NEW S \in SUBSET Pkgs, NEW batch \in Enumerations(S)
  PROVE  batch \in Seq(Pkgs)
<1>1. Cardinality(S) \in Nat
  BY FS_Subset, FS_CardinalityType
<1>2. batch \in [1..Cardinality(S) -> S]
  BY DEF Enumerations
<1>3. batch \in [1..Cardinality(S) -> Pkgs]
  BY <1>2
<1> QED BY <1>1, <1>3, SeqDef

LEMMA RowNames == ASSUME TypeOK, NEW r \in rows PROVE r.name \in Pkgs
BY DEF TypeOK, ViewType, Row

(* startUninstall keeps types for a confirmed entry.                       *)
LEMMA StartUninstallType ==
  ASSUME TypeOK, NEW entry \in Entry, StartUninstall(entry)
  PROVE  /\ mode' \in Modes /\ claim' \in Claim
         /\ operation' \in Pkgs /\ verb' \in Verbs /\ operationID' \in Nat
         /\ cancelReason' \in CancelReasons /\ startPending' \in BOOLEAN
         /\ JobType'
<1>1. entry.pkg \in Pkgs /\ entry.verb \in Verbs
  BY DEF Entry
<1>2. JobType'
  <2>1. /\ jobPhase' = "starting" /\ startMsg' = "none" /\ jobCancelled' = closing
        /\ jobAuth' = "none" /\ jobRequest' = 0 /\ jobResult' = "none" /\ eventWaiter' = FALSE
        /\ UNCHANGED <<requests, jobEvents, jobEntry, cleanupErr>>
    BY DEF StartUninstall
  <2>2. 0 \in 0..MaxRequests
    BY DEF BoundsAssumption
  <2> QED BY <2>1, <2>2 DEF TypeOK, JobType, QuitType
<1> QED BY <1>1, <1>2, NoClaimType DEF TypeOK, RunType, StartUninstall, Modes, CancelReasons

LEMMA OperationKeyTypes == ASSUME TypeOK, OperationKey PROVE TypeOK'
<1> USE InventoryFrame, OthersFrame, NoClaimType
<1>1. ASSUME NEW op \in Verbs, ConfirmOperation(op) PROVE TypeOK'
  <2>1. mode' \in Modes /\ DialogType'
    <3>1. PICK r \in rows :
            IF \/ op = "upgrade" /\ UpgradeRefused(r)
               \/ PendingOperation(op, r.name)
               \/ ~ConfirmationFits(r.name)
            THEN UNCHANGED <<mode, dialogVars>>
            ELSE /\ mode' = "confirm"
                 /\ confirmation' = r.name /\ confirmVerb' = op
                 /\ batchConfirmation' = <<>>
      BY <1>1 DEF ConfirmOperation
    <3> QED BY <3>1, RowNames, EmptySeq
            DEF TypeOK, ScreenType, DialogType, Modes, OptPkg, dialogVars
  <2>2. RunType' /\ HoldType' /\ JobType' /\ WorldType' /\ QuitType'
    BY <1>1 DEF ConfirmOperation, TypeOK, RunType, HoldType, JobType, WorldType, QuitType,
                runVars, batchVars, holdVars, passwordVars, jobVars, worldVars
  <2> QED BY <1>1, <2>1, <2>2 DEF ConfirmOperation, TypeOK, ScreenType
<1>2. CASE ConfirmUpgradeAll
  <2> DEFINE candidates == IF kind \in cached THEN {r \in listCache[kind] : Eligible(r)} ELSE {}
             names == {r.name : r \in candidates}
  <2>1. names \subseteq Pkgs
    <3>1. candidates \subseteq Row
      BY DEF TypeOK, ScreenType, ViewType
    <3> QED BY <3>1 DEF Row
  <2>2. /\ mode' \in Modes /\ DialogType'
        /\ batchTotal' \in Nat /\ batchCompleted' \in Nat
    <3>1. CASE UNCHANGED <<mode, dialogVars, batchVars>>
      BY <3>1 DEF TypeOK, ScreenType, DialogType, RunType, dialogVars, batchVars
    <3>2. ASSUME NEW batch \in Enumerations(names),
                 confirmation' = NoPkg /\ confirmVerb' = "upgrade",
                 IF UpgradeAllFits(term, batch)
                 THEN /\ batchConfirmation' = batch /\ mode' = "confirm"
                      /\ UNCHANGED batchVars
                 ELSE ClearBatch /\ UNCHANGED mode
          PROVE  /\ mode' \in Modes /\ DialogType'
                 /\ batchTotal' \in Nat /\ batchCompleted' \in Nat
      <4>1. batch \in Seq(Pkgs)
        BY <2>1, BatchType
      <4>2. CASE UpgradeAllFits(term, batch)
        BY <3>2, <4>1, <4>2
           DEF TypeOK, DialogType, RunType, Modes, OptPkg, Verbs, batchVars
      <4>3. CASE ~UpgradeAllFits(term, batch)
        BY <3>2, <4>3, ClearBatchType DEF TypeOK, ScreenType, DialogType, OptPkg, Verbs
      <4> QED BY <4>2, <4>3
    <3> QED BY <1>2, <3>1, <3>2 DEF ConfirmUpgradeAll
  <2>3. RunType'
    BY <1>2, <2>2 DEF ConfirmUpgradeAll, TypeOK, RunType, runVars
  <2>4. HoldType' /\ JobType' /\ WorldType' /\ QuitType'
    <3>1. /\ UNCHANGED <<holdVars, passwordVars, jobVars, worldVars, quitExitCode, exited>>
          /\ OthersUntouched
      BY <1>2 DEF ConfirmUpgradeAll
    <3> QED BY <3>1 DEF TypeOK, HoldType, JobType, WorldType, QuitType,
                        holdVars, passwordVars, jobVars, worldVars
  <2> QED BY <1>2, <2>2, <2>3, <2>4 DEF ConfirmUpgradeAll, TypeOK, ScreenType
<1>3. CASE DismissConfirmation
  <2>1. ScreenType' /\ QuitType'
    BY <1>3 DEF DismissConfirmation, Resume, TypeOK, ScreenType, QuitType, Modes
  <2>2. DialogType' /\ RunType'
    <3>1. /\ batchConfirmation' \in Seq(Pkgs)
          /\ batchTotal' \in Nat /\ batchCompleted' \in Nat
      BY <1>3, ClearBatchType, BatchFrame DEF DismissConfirmation
    <3> QED BY <1>3, <3>1 DEF DismissConfirmation, TypeOK, DialogType, RunType, OptPkg, runVars
  <2>3. HoldType' /\ JobType' /\ WorldType'
    BY <1>3 DEF DismissConfirmation, TypeOK, HoldType, JobType, WorldType,
                holdVars, passwordVars, jobVars, worldVars
  <2> QED BY <1>3, <2>1, <2>2, <2>3 DEF DismissConfirmation, TypeOK
<1>4. CASE EnqueueConfirmed
  <2>1. Confirmed \in Entry
    BY <1>4 DEF EnqueueConfirmed, Confirmed, Entry, TypeOK, DialogType, OptPkg
  <2>2. queue' \in Seq(Entry) /\ verb' = verb
    BY <1>4, <2>1, AppendProperties DEF EnqueueConfirmed, Enqueue, TypeOK, RunType
  <2>3. ScreenType' /\ DialogType' /\ RunType' /\ QuitType'
    BY <1>4, <2>2
       DEF EnqueueConfirmed, TypeOK, ScreenType, DialogType, RunType, QuitType, Modes, OptPkg,
           batchVars
  <2>4. HoldType' /\ JobType' /\ WorldType'
    BY <1>4 DEF EnqueueConfirmed, TypeOK, HoldType, JobType, WorldType,
                holdVars, passwordVars, jobVars, worldVars
  <2> QED BY <1>4, <2>3, <2>4 DEF EnqueueConfirmed, TypeOK
<1>5. CASE StartConfirmed
  <2>1. Confirmed \in Entry
    BY <1>5 DEF StartConfirmed, Confirmed, Entry, TypeOK, DialogType, OptPkg
  <2>2. /\ mode' \in Modes /\ claim' \in Claim
        /\ operation' \in Pkgs /\ verb' \in Verbs /\ operationID' \in Nat
        /\ cancelReason' \in CancelReasons /\ startPending' \in BOOLEAN
        /\ JobType'
    BY <1>5, <2>1, StartUninstallType DEF StartConfirmed
  <2>3. ScreenType' /\ DialogType' /\ QuitType'
    BY <1>5, <2>2 DEF StartConfirmed, TypeOK, ScreenType, DialogType, QuitType, OptPkg
  <2>4. RunType' /\ HoldType' /\ WorldType'
    BY <1>5, <2>2, EmptySeq
       DEF StartConfirmed, TypeOK, RunType, HoldType, WorldType, OptPkg, batchVars, passwordVars
  <2> QED BY <1>5, <2>2, <2>3, <2>4 DEF StartConfirmed, TypeOK
<1>6. CASE StartBatch
  <2> DEFINE n == Len(batchConfirmation)
  <2>1. /\ batchConfirmation \in Seq(Pkgs) /\ batchConfirmation # <<>>
        /\ n \in Nat /\ n # 0
        /\ \A i \in 1..n : batchConfirmation[i] \in Pkgs
    BY <1>6, LenProperties, ElementOfSeq DEF StartBatch, UpgradeAllFits, TypeOK, DialogType
  <2>2. [verb |-> "upgrade", pkg |-> batchConfirmation[1]] \in Entry
    BY <2>1 DEF Entry, Verbs
  <2>3. queue' \in Seq(Entry)
    <3>1. queue' \in [1..(n - 1) -> Entry]
      BY <1>6, <2>1 DEF StartBatch, Entry, Verbs
    <3> QED BY <2>1, <3>1, SeqDef
  <2>4. /\ mode' \in Modes /\ claim' \in Claim
        /\ operation' \in Pkgs /\ verb' \in Verbs /\ operationID' \in Nat
        /\ cancelReason' \in CancelReasons /\ startPending' \in BOOLEAN
        /\ JobType'
    BY <1>6, <2>2, StartUninstallType DEF StartBatch
  <2>5. ScreenType' /\ DialogType' /\ QuitType'
    BY <1>6, <2>4, EmptySeq DEF StartBatch, TypeOK, ScreenType, DialogType, QuitType, OptPkg
  <2>6. RunType' /\ HoldType' /\ WorldType'
    BY <1>6, <2>1, <2>3, <2>4, EmptySeq
       DEF StartBatch, TypeOK, RunType, HoldType, WorldType, OptPkg, passwordVars
  <2> QED BY <1>6, <2>4, <2>5, <2>6 DEF StartBatch, TypeOK
<1>7. CASE EditPassword
  BY <1>7 DEF EditPassword, TypeOK, ScreenType, DialogType, RunType, HoldType, JobType,
              WorldType, QuitType, dialogVars, runVars, batchVars, holdVars, jobVars, worldVars
<1>8. CASE SubmitPassword
  <2>1. ScreenType' /\ QuitType' /\ DialogType' /\ WorldType'
    BY <1>8 DEF SubmitPassword, TypeOK, ScreenType, QuitType, DialogType, WorldType, Modes,
                dialogVars, worldVars
  <2>2. RunType' /\ HoldType'
    BY <1>8 DEF SubmitPassword, WipePassword, TypeOK, RunType, HoldType, CancelReasons,
                batchVars, holdVars
  <2>3. JobType'
    <3>1. jobRequest' \in {0, jobRequest} /\ jobAuth' \in {jobAuth, "failed"}
      BY <1>8 DEF SubmitPassword
    <3>2. jobCancelled' \in BOOLEAN
      BY <1>8, CancelJobType DEF SubmitPassword, TypeOK, JobType
    <3>3. UNCHANGED <<jobPhase, startMsg, requests, eventWaiter, jobEvents, jobResult, jobEntry,
                      cleanupErr>>
      BY <1>8 DEF SubmitPassword
    <3>4. 0 \in 0..MaxRequests
      BY DEF BoundsAssumption
    <3> QED BY <3>1, <3>2, <3>3, <3>4 DEF TypeOK, JobType
  <2> QED BY <1>8, <2>1, <2>2, <2>3 DEF SubmitPassword, TypeOK
<1>9. CASE EscapePassword
  <2>1. ScreenType' /\ QuitType' /\ DialogType' /\ WorldType'
    BY <1>9 DEF EscapePassword, TypeOK, ScreenType, QuitType, DialogType, WorldType, Modes,
                dialogVars, worldVars
  <2>2. RunType' /\ HoldType' /\ JobType'
    BY <1>9, CancelJobType
       DEF EscapePassword, WipePassword, JobButLatch, TypeOK, RunType, HoldType, JobType,
           CancelReasons, batchVars, holdVars
  <2> QED BY <1>9, <2>1, <2>2 DEF EscapePassword, TypeOK
<1> QED BY <1>1, <1>2, <1>3, <1>4, <1>5, <1>6, <1>7, <1>8, <1>9 DEF OperationKey, Verbs

----------------------------------------------------------------------------
(* beginQuit outside modeQuitting.                                         *)
LEMMA EnterQuitType ==
  ASSUME TypeOK, NEW code \in ExitCodes, EnterQuit(code)
  PROVE  mode' \in Modes /\ claim' \in Claim /\ QuitType' /\ jobCancelled' \in BOOLEAN
BY FinishQuitType, CancelJobType, NoClaimType DEF EnterQuit, QuitType, Modes

(* A result is taken: the handles of the job and the password are gone.    *)
LEMMA TakeResultType ==
  ASSUME TypeOK, TakeResult, startPending' \in BOOLEAN
  PROVE  term' \in Terms /\ HoldType' /\ TrustType' /\ WorldType'
<1>1. 0 \in 0..MaxRequests
  BY DEF BoundsAssumption
<1>2. HoldType'
  BY <1>1 DEF TakeResult, WipePassword, HoldType
<1>3. term' \in Terms /\ TrustType' /\ WorldType'
  BY DEF TypeOK, TakeResult, ScreenType, TrustType, WorldType, trustVars, worldVars
<1> QED BY <1>2, <1>3

LEMMA JobGoneType ==
  ASSUME TypeOK, JobGone, jobCancelled' \in BOOLEAN
  PROVE  JobType'
<1>1. /\ jobPhase' = "idle" /\ jobResult' = "none" /\ eventWaiter' = FALSE
      /\ jobAuth' = "none" /\ jobRequest' = 0 /\ jobEntry' = NoEntry
      /\ UNCHANGED <<startMsg, requests, jobEvents, cleanupErr>>
  BY DEF JobGone
<1>2. 0 \in 0..MaxRequests
  BY DEF BoundsAssumption
<1> QED BY <1>1, <1>2 DEF TypeOK, JobType

LEMMA CountSuccessType ==
  TypeOK /\ CountSuccess => batchTotal' \in Nat /\ batchCompleted' \in Nat
BY DEF TypeOK, RunType, CountSuccess

(* The seven ways a result is handled.                                     *)
LEMMA ResultTypes == ASSUME TypeOK, ResultStep PROVE TypeOK'
<1> USE InventoryFrame, TakeResultType, JobGoneType
<1>1. CASE ResultWhileQuitting
  <2>1. quitExitCode \in ExitCodes
    BY DEF TypeOK, QuitType
  <2>2. QuitType'
    BY <1>1, <2>1, FinishQuitType DEF ResultWhileQuitting, TypeOK, QuitType
  <2>3. DialogType' /\ RunType'
    BY <1>1 DEF ResultWhileQuitting, TypeOK, DialogType, RunType, dialogVars, runVars, batchVars
  <2>4. startPending' \in BOOLEAN /\ jobCancelled' \in BOOLEAN
    BY <1>1 DEF ResultWhileQuitting, TypeOK, HoldType, JobType
  <2> QED BY <1>1, <2>2, <2>3, <2>4 DEF ResultWhileQuitting, TypeOK, ScreenType
<1>2. CASE ResultCleanupFailed
  <2>1. mode' \in Modes /\ claim' \in Claim /\ QuitType' /\ jobCancelled' \in BOOLEAN
    BY <1>2, EnterQuitType DEF ResultCleanupFailed, ExitCodes
  <2>2. DialogType' /\ RunType'
    BY <1>2, ClearBatchType, EmptySeq
       DEF ResultCleanupFailed, DropQueue, TypeOK, DialogType, RunType
  <2>3. startPending' \in BOOLEAN
    BY <1>2 DEF ResultCleanupFailed, TypeOK, HoldType
  <2> QED BY <1>2, <2>1, <2>2, <2>3 DEF ResultCleanupFailed, TypeOK, ScreenType
<1>3. CASE ResultFailed
  <2>1. RunType' /\ DialogType' /\ mode' \in Modes /\ claim' \in Claim
    BY <1>3, FinishOperationType DEF ResultFailed
  <2>2. startPending' \in BOOLEAN /\ jobCancelled' \in BOOLEAN /\ QuitType'
    BY <1>3 DEF ResultFailed, TypeOK, HoldType, JobType, QuitType
  <2> QED BY <1>3, <2>1, <2>2 DEF ResultFailed, TypeOK, ScreenType
<1>4. CASE ResultSelfUninstalled
  <2>1. mode' \in Modes /\ claim' \in Claim /\ QuitType' /\ jobCancelled' \in BOOLEAN
    BY <1>4, EnterQuitType DEF ResultSelfUninstalled, ExitCodes
  <2>2. DialogType' /\ RunType'
    BY <1>4, CountSuccessType
       DEF ResultSelfUninstalled, TypeOK, DialogType, RunType, dialogVars, runVars
  <2>3. startPending' \in BOOLEAN
    BY <1>4 DEF ResultSelfUninstalled, TypeOK, HoldType
  <2> QED BY <1>4, <2>1, <2>2, <2>3 DEF ResultSelfUninstalled, TakeSuccess, TypeOK, ScreenType
<1>5. CASE ResultQueueUnsafe
  <2>1. RunType' /\ DialogType' /\ mode' \in Modes /\ claim' \in Claim
    BY <1>5, FinishOperationType DEF ResultQueueUnsafe
  <2>2. startPending' \in BOOLEAN /\ jobCancelled' \in BOOLEAN /\ QuitType'
    BY <1>5 DEF ResultQueueUnsafe, TypeOK, HoldType, JobType, QuitType
  <2> QED BY <1>5, <2>1, <2>2 DEF ResultQueueUnsafe, TakeSuccess, TypeOK, ScreenType
<1>6. CASE ResultStartsNext
  <2>1. Head(queue) \in Entry /\ Tail(queue) \in Seq(Entry)
    BY <1>6, HeadTailProperties DEF ResultStartsNext, TypeOK, RunType
  <2>2. /\ mode' \in Modes /\ claim' \in Claim
        /\ operation' \in Pkgs /\ verb' \in Verbs /\ operationID' \in Nat
        /\ cancelReason' \in CancelReasons /\ startPending' \in BOOLEAN
        /\ JobType'
    BY <1>6, <2>1, StartUninstallType DEF ResultStartsNext
  <2>3. RunType'
    BY <1>6, <2>1, <2>2, CountSuccessType DEF ResultStartsNext, TypeOK, RunType, OptPkg
  <2>4. DialogType' /\ QuitType'
    BY <1>6 DEF ResultStartsNext, TypeOK, DialogType, QuitType, dialogVars
  <2> QED BY <1>6, <2>2, <2>3, <2>4 DEF ResultStartsNext, TakeSuccess, TypeOK, ScreenType
<1>7. CASE ResultReloads
  <2>1. ScreenType' /\ QuitType' /\ DialogType' /\ InfoType'
    BY <1>7 DEF ResultReloads, TakeSuccess, TakeResult, TypeOK, ScreenType, QuitType, DialogType,
                InfoType, Modes, dialogVars
  <2>2. ViewType' /\ SizeType'
    BY <1>7, StartSizesType DEF ResultReloads, InvalidateCaches, NoLists, TypeOK, ViewType
  <2>3. LoadType'
    <3>1. /\ kind \in Kinds /\ "afterOperation" \in LoadPurposes
          /\ (batchTotal > 0) \in BOOLEAN
      BY DEF TypeOK, ScreenType, LoadPurposes
    <3> QED BY <1>7, <3>1, StartLoadType DEF ResultReloads
  <2>4. RunType'
    BY <1>7, CountSuccessType DEF ResultReloads, TypeOK, RunType, runVars
  <2>5. startPending' \in BOOLEAN /\ jobCancelled' \in BOOLEAN
    BY <1>7 DEF ResultReloads, TypeOK, HoldType, JobType
  <2> QED BY <1>7, <2>1, <2>2, <2>3, <2>4, <2>5 DEF ResultReloads, TakeSuccess, TypeOK
<1> QED BY <1>1, <1>2, <1>3, <1>4, <1>5, <1>6, <1>7 DEF ResultStep

(* The other messages of a job.                                            *)
LEMMA JobMessageTypes == ASSUME TypeOK, JobMessage PROVE TypeOK'
<1> USE InventoryFrame, OthersFrame
<1>1. CASE JobStarted
  <2>1. HoldType' /\ jobCancelled' \in BOOLEAN
    BY <1>1, CancelJobType DEF JobStarted, TypeOK, HoldType, JobType, passwordVars
  <2>2. JobType'
    BY <1>1, <2>1 DEF JobStarted, TypeOK, JobType
  <2>3. DialogType' /\ RunType' /\ WorldType' /\ QuitType'
    BY <1>1 DEF JobStarted, TypeOK, DialogType, RunType, WorldType, QuitType,
                dialogVars, runVars, batchVars, worldVars
  <2> QED BY <1>1, <2>1, <2>2, <2>3 DEF JobStarted, TypeOK, ScreenType
<1>2. CASE JobStartFailed
  <2>1. quitExitCode \in ExitCodes
    BY DEF TypeOK, QuitType
  <2>2. HoldType' /\ JobType' /\ WorldType'
    <3>1. /\ startMsg' = "none" /\ startPending' = FALSE
          /\ UNCHANGED <<jobHeld, jobPending, passwordVars, jobPhase, jobCancelled, jobAuth,
                         jobRequest, requests, eventWaiter, jobEvents, jobResult, jobEntry,
                         cleanupErr, worldVars>>
      BY <1>2 DEF JobStartFailed
    <3> QED BY <3>1 DEF TypeOK, HoldType, JobType, WorldType, passwordVars, worldVars
  <2>3. CASE mode = "quitting"
    BY <1>2, <2>1, <2>2, <2>3, FinishQuitType
       DEF JobStartFailed, TypeOK, ScreenType, DialogType, RunType, QuitType, batchVars
  <2>4. CASE mode # "quitting"
    <3>1. /\ operation' = NoPkg /\ mode' = "normal" /\ claim' = NoClaim
          /\ queue' = <<>> /\ ClearBatch /\ UNCHANGED <<quitExitCode, exited>>
          /\ UNCHANGED <<confirmation, confirmVerb, verb, operationID, cancelReason>>
          /\ InventoryUntouched /\ OthersUntouched
      BY <1>2, <2>4 DEF JobStartFailed, DropQueue
    <3>2. DialogType' /\ RunType'
      BY <3>1, ClearBatchType, EmptySeq DEF TypeOK, DialogType, RunType, OptPkg
    <3>3. ScreenType' /\ QuitType'
      BY <3>1, NoClaimType DEF TypeOK, ScreenType, QuitType, Modes
    <3> QED BY <2>2, <3>1, <3>2, <3>3 DEF TypeOK
  <2> QED BY <2>3, <2>4
<1>3. CASE IgnoreEvent
  <2>1. jobEvents' \subseteq JobEvent
    BY <1>3 DEF IgnoreEvent, TypeOK, JobType
  <2>2. JobType'
    BY <1>3, <2>1 DEF IgnoreEvent, TypeOK, JobType
  <2>3. DialogType' /\ RunType' /\ HoldType' /\ WorldType' /\ QuitType'
    BY <1>3 DEF IgnoreEvent, TypeOK, DialogType, RunType, HoldType, WorldType, QuitType,
                dialogVars, runVars, batchVars, holdVars, passwordVars, worldVars
  <2> QED BY <1>3, <2>2, <2>3 DEF IgnoreEvent, TypeOK, ScreenType
<1>4. CASE RejectRequest
  <2>1. jobEvents' \subseteq JobEvent /\ jobCancelled' \in BOOLEAN
    BY <1>4, CancelJobType DEF RejectRequest, TypeOK, JobType
  <2>2. JobType'
    BY <1>4, <2>1 DEF RejectRequest, TypeOK, JobType
  <2>3. /\ mode' \in Modes /\ claim' \in Claim /\ cancelReason' \in CancelReasons
        /\ passwordRequest' \in 0..MaxRequests /\ input' \in {"blank", "typed"}
    BY <1>4, NoClaimType
       DEF RejectRequest, WipePassword, TypeOK, ScreenType, RunType, HoldType, Modes,
           CancelReasons, BoundsAssumption, passwordVars
  <2>4. DialogType' /\ RunType' /\ HoldType' /\ WorldType' /\ QuitType'
    BY <1>4, <2>3 DEF RejectRequest, TypeOK, DialogType, RunType, HoldType, WorldType, QuitType,
                      dialogVars, batchVars, holdVars, worldVars
  <2> QED BY <1>4, <2>2, <2>3, <2>4 DEF RejectRequest, TypeOK, ScreenType
<1>5. CASE OpenPassword
  <2>1. jobEvents' \subseteq JobEvent /\ passwordRequest' \in 0..MaxRequests
    BY <1>5 DEF OpenPassword, TypeOK, JobType, JobEvent, BoundsAssumption
  <2>2. JobType'
    BY <1>5, <2>1 DEF OpenPassword, TypeOK, JobType
  <2>3. mode' \in Modes /\ claim' \in Claim /\ confirmation' \in OptPkg
    BY <1>5, NoClaimType DEF OpenPassword, TypeOK, ScreenType, DialogType, Modes, OptPkg
  <2>4. DialogType' /\ RunType' /\ HoldType' /\ WorldType' /\ QuitType'
    BY <1>5, <2>1, <2>3
       DEF OpenPassword, TypeOK, DialogType, RunType, HoldType, WorldType, QuitType,
           runVars, batchVars, holdVars, worldVars
  <2> QED BY <1>5, <2>2, <2>3, <2>4 DEF OpenPassword, TypeOK, ScreenType
<1> QED BY <1>1, <1>2, <1>3, <1>4, <1>5, ResultTypes DEF JobMessage

(* The job's own steps.                                                    *)
LEMMA UIFrame ==
  ASSUME TypeOK, UIUntouched
  PROVE  /\ ScreenType' /\ ViewType' /\ LoadType' /\ SizeType' /\ InfoType'
         /\ DialogType' /\ RunType' /\ HoldType' /\ TrustType' /\ QuitType'
<1>1. ScreenType' /\ QuitType'
  BY InventoryFrame, OthersFrame DEF UIUntouched, TypeOK, ScreenType, QuitType
<1>2. DialogType' /\ RunType' /\ HoldType'
  BY DEF UIUntouched, TypeOK, DialogType, RunType, HoldType,
         dialogVars, runVars, batchVars, holdVars, passwordVars
<1> QED BY <1>1, <1>2, InventoryFrame, OthersFrame DEF UIUntouched

LEMMA WorldFrame == TypeOK /\ UNCHANGED worldVars => WorldType'
BY DEF TypeOK, WorldType, worldVars

LEMMA JobStepTypes == ASSUME IInv, JobStep PROVE TypeOK'
<1> USE UIFrame, WorldFrame DEF IInv
<1>1. CASE StartFails
  <2>1. JobType'
    BY <1>1 DEF StartFails, TypeOK, JobType
  <2> QED BY <1>1, <2>1 DEF StartFails, TypeOK
<1>2. CASE StartSucceeds
  <2>1. JobRunning
    BY <1>2 DEF StartSucceeds, Lifecycle, HandlesFollowJob, JobHasOperation
  <2>2. [verb |-> verb, pkg |-> operation] \in Entry
    BY <2>1 DEF TypeOK, RunType, JobRunning, OptPkg, Entry
  <2>3. JobType'
    BY <1>2, <2>2 DEF StartSucceeds, TypeOK, JobType
  <2> QED BY <1>2, <2>3 DEF StartSucceeds, TypeOK
<1>3. CASE RequestPassword
  <2>1. requests + 1 \in 1..MaxRequests /\ operationID \in Nat
    BY <1>3 DEF RequestPassword, TypeOK, JobType, RunType, BoundsAssumption
  <2>2. jobEvents' \subseteq JobEvent /\ requests' \in 0..MaxRequests /\ jobRequest' \in 0..MaxRequests
    BY <1>3, <2>1 DEF RequestPassword, TypeOK, JobType, JobEvent, BoundsAssumption
  <2>3. JobType'
    BY <1>3, <2>2 DEF RequestPassword, TypeOK, JobType
  <2> QED BY <1>3, <2>3 DEF RequestPassword, TypeOK
<1>4. CASE FailAuthentication
  <2>1. JobType'
    BY <1>4 DEF FailAuthentication, TypeOK, JobType, BoundsAssumption
  <2> QED BY <1>4, <2>1 DEF FailAuthentication, TypeOK
<1>5. CASE RequestTimesOut
  <2>1. JobType'
    BY <1>5 DEF RequestTimesOut, TypeOK, JobType, BoundsAssumption
  <2> QED BY <1>5, <2>1 DEF RequestTimesOut, TypeOK
<1>6. ASSUME NEW result \in Results, JobFinishes(result) PROVE TypeOK'
  <2>1. jobEntry \in Entry
    <3>1. JobRunning /\ jobEntry = [verb |-> verb, pkg |-> operation]
      BY <1>6 DEF JobFinishes, Lifecycle, HandlesFollowJob, JobHasOperation, JobIsTheOperation
    <3> QED BY <3>1 DEF TypeOK, RunType, JobRunning, OptPkg, Entry
  <2>2. JobType'
    <3>1. cleanupErr' \in BOOLEAN
      BY <1>6 DEF JobFinishes
    <3> QED BY <1>6, <3>1 DEF JobFinishes, TypeOK, JobType
  <2>3. succeeded' \in Seq(Entry)
    BY <1>6, <2>1, AppendProperties DEF JobFinishes, TypeOK, WorldType
  <2>4. WorldType'
    BY <1>6, <2>3 DEF JobFinishes, Apply, TypeOK, WorldType
  <2> QED BY <1>6, <2>2, <2>4 DEF JobFinishes, TypeOK
<1> QED BY <1>1, <1>2, <1>3, <1>4, <1>5, <1>6 DEF JobStep, JobEnd

----------------------------------------------------------------------------
(* The trust review.                                                       *)
LEMMA OutsideFrame ==
  ASSUME TypeOK, OutsideUntouched
  PROVE  /\ term' \in Terms /\ kind' \in Kinds /\ LoadType' /\ SizeType'
         /\ DialogType' /\ RunType' /\ HoldType' /\ JobType' /\ closing' \in BOOLEAN
         /\ installed' \subseteq Pkgs /\ outdated' \subseteq Pkgs /\ succeeded' \in Seq(Entry)
BY DEF TypeOK, OutsideUntouched, ScreenType, LoadType, SizeType, DialogType, RunType, HoldType,
       JobType, QuitType, WorldType, loadVars, sizeVars, dialogVars, runVars, batchVars,
       holdVars, passwordVars, jobVars

LEMMA RowsFrame == TypeOK /\ RowsUntouched => ViewType' /\ InfoType'
BY DEF TypeOK, RowsUntouched, ViewType, InfoType, viewVars

LEMMA SupersededType ==
  ASSUME NEW commands \in SUBSET TrustCommand
  PROVE  Superseded(commands) \in SUBSET TrustCommand
BY DEF Superseded, TrustCommand

LEMMA LaunchType ==
  ASSUME NEW p \in Pkgs, NEW commands \in SUBSET TrustCommand, NEW what \in {"details", "trust"},
         Launch(what, p, commands)
  PROVE  trusts' \subseteq TrustCommand
<1>1. [what |-> what, pkg |-> p, current |-> TRUE] \in TrustCommand
  BY DEF TrustCommand
<1> QED BY <1>1, SupersededType DEF Launch

LEMMA CancelTrustType ==
  ASSUME NEW commands \in SUBSET TrustCommand, CancelTrust(commands)
  PROVE  TrustType' /\ mode' \in Modes /\ claim' \in Claim
BY SupersededType, NoClaimType DEF CancelTrust, TrustType, Modes, OptPkg

LEMMA TrustOutcomeType ==
  ASSUME TypeOK, NEW c, NEW ok, TrustOutcome(c, ok)
  PROVE  untrusted' \subseteq Pkgs
BY DEF TypeOK, WorldType, TrustOutcome

LEMMA UnmarkType ==
  ASSUME NEW list \in SUBSET Row, NEW p
  PROVE  Unmark(list, p) \in SUBSET Row
BY DEF Unmark, Row

LEMMA TrustKeyTypes == ASSUME TypeOK, TrustKey PROVE TypeOK'
<1> USE OutsideFrame, RowsFrame
<1>1. trusts \in SUBSET TrustCommand
  BY DEF TypeOK, TrustType
<1>2. CASE ReviewTrust
  <2>1. mode' \in Modes /\ claim' \in Claim /\ TrustType'
    <3>1. PICK r \in rows :
            IF TrustReviewFits(term, FALSE)
            THEN /\ mode' = "trust" /\ claim' = NoClaim
                 /\ trustPackage' = r.name
                 /\ trustLoaded' = FALSE /\ trustErr' = FALSE /\ trusting' = FALSE
                 /\ trustPending' = TRUE
                 /\ Launch("details", r.name, trusts)
            ELSE CancelTrust(trusts)
      BY <1>2 DEF ReviewTrust
    <3>2. r.name \in Pkgs
      BY RowNames
    <3>3. CASE TrustReviewFits(term, FALSE)
      BY <1>1, <3>1, <3>2, <3>3, LaunchType, NoClaimType DEF TrustType, Modes, OptPkg
    <3>4. CASE ~TrustReviewFits(term, FALSE)
      BY <1>1, <3>1, <3>4, CancelTrustType
    <3> QED BY <3>3, <3>4
  <2> QED BY <1>2, <2>1 DEF ReviewTrust, TypeOK, ScreenType, QuitType, WorldType
<1>3. CASE AbandonTrust
  BY <1>1, <1>3, CancelTrustType DEF AbandonTrust, TypeOK, ScreenType, QuitType, WorldType
<1>4. CASE StartTrust
  <2>1. TrustType'
    <3>1. trustPackage \in Pkgs
      BY <1>4 DEF StartTrust, TypeOK, TrustType, OptPkg
    <3>2. trusts' \subseteq TrustCommand
      BY <1>1, <1>4, <3>1, LaunchType DEF StartTrust
    <3> QED BY <1>4, <3>2 DEF StartTrust, TypeOK, TrustType
  <2> QED BY <1>4, <2>1, NoClaimType DEF StartTrust, TypeOK, ScreenType, QuitType, WorldType
<1> QED BY <1>2, <1>3, <1>4 DEF TrustKey

LEMMA TrustStepTypes == ASSUME TypeOK, TrustStep PROVE TypeOK'
<1> USE OutsideFrame, RowsFrame, NoClaimType
<1>1. CASE DropStaleTrust
  <2>1. trusts' \subseteq TrustCommand /\ untrusted' \subseteq Pkgs
    BY <1>1, TrustOutcomeType DEF DropStaleTrust, TypeOK, TrustType
  <2> QED BY <1>1, <2>1
          DEF DropStaleTrust, TypeOK, ScreenType, TrustType, QuitType, WorldType
<1>2. ASSUME NEW c \in trusts, NEW ok \in BOOLEAN, TakeTrust(c, ok)
      PROVE  untrusted' \subseteq Pkgs /\ trusts \ {c} \in SUBSET TrustCommand
  BY <1>2, TrustOutcomeType DEF TakeTrust, TypeOK, TrustType
<1>3. ASSUME NEW c \in trusts, NEW ok \in BOOLEAN, TrustWhileQuitting(c, ok) PROVE TypeOK'
  <2>1. quitExitCode \in ExitCodes
    BY DEF TypeOK, QuitType
  <2>2. QuitType'
    BY <1>3, <2>1, FinishQuitType DEF TrustWhileQuitting, QuitType
  <2>3. untrusted' \subseteq Pkgs /\ trusts \ {c} \in SUBSET TrustCommand
    BY <1>2, <1>3 DEF TrustWhileQuitting
  <2> QED BY <1>3, <2>2, <2>3 DEF TrustWhileQuitting, TypeOK, ScreenType, TrustType, WorldType
<1>4. ASSUME NEW c \in trusts, NEW ok \in BOOLEAN, DetailsArrive(c, ok) PROVE TypeOK'
  <2>1. untrusted' \subseteq Pkgs /\ trusts \ {c} \in SUBSET TrustCommand
    BY <1>2, <1>4 DEF DetailsArrive
  <2>2. TrustType' /\ mode' \in Modes /\ claim' \in Claim
    <3>1. CASE TrustReviewFits(term, ok)
      BY <1>4, <2>1, <3>1 DEF DetailsArrive, TypeOK, ScreenType, TrustType
    <3>2. CASE ~TrustReviewFits(term, ok)
      BY <1>4, <2>1, <3>2, CancelTrustType DEF DetailsArrive
    <3> QED BY <3>1, <3>2
  <2> QED BY <1>4, <2>1, <2>2 DEF DetailsArrive, TypeOK, ScreenType, QuitType, WorldType
<1>5. ASSUME NEW c \in trusts, TrustFails(c) PROVE TypeOK'
  <2>1. untrusted' \subseteq Pkgs /\ trusts \ {c} \in SUBSET TrustCommand
    BY <1>2, <1>5 DEF TrustFails
  <2> QED BY <1>5, <2>1 DEF TrustFails, TypeOK, ScreenType, TrustType, QuitType, WorldType
<1>6. ASSUME NEW c \in trusts, TrustSucceeds(c) PROVE TypeOK'
  <2>1. untrusted' \subseteq Pkgs /\ trusts \ {c} \in SUBSET TrustCommand
    BY <1>2, <1>6 DEF TrustSucceeds
  <2>2. KindOf[trustPackage] \in Kinds
    BY <1>6 DEF TrustSucceeds, TypeOK, TrustType, OptPkg, KindAssumption
  <2>3. cached' \subseteq Kinds /\ listCache' \in [Kinds -> SUBSET Row]
    BY <1>6, <2>2, UnmarkType DEF TrustSucceeds, TypeOK, ViewType
  <2>4. ViewType'
    <3>1. disk' \in Snapshot
      BY <1>6, <2>3, SnapshotType DEF TrustSucceeds, TypeOK, ViewType
    <3>2. rows' \subseteq Row
      BY <1>6, <2>2, <2>3 DEF TrustSucceeds, TypeOK, ViewType
    <3> QED BY <1>6, <2>3, <3>1, <3>2 DEF TrustSucceeds, TypeOK, ViewType
  <2>5. TrustType' /\ ScreenType' /\ QuitType' /\ WorldType'
    BY <1>6, <2>1 DEF TrustSucceeds, TypeOK, ScreenType, TrustType, QuitType, WorldType, Modes,
                      OptPkg
  <2> QED BY <1>6, <2>4, <2>5, SelectInfoType DEF TrustSucceeds, TypeOK
<1> QED BY <1>1, <1>3, <1>4, <1>5, <1>6 DEF TrustStep

----------------------------------------------------------------------------
(* What cuts across: resizes and quits.                                    *)
LEMMA ResizeTypes == ASSUME TypeOK, NEW t \in Terms, Resize(t) PROVE TypeOK'
<1>1. /\ UNCHANGED <<kind, viewVars, loadVars, sizeVars, infoPending, confirmVerb, operation,
                     verb, queue, operationID, holdVars, quitVars, worldVars>>
      /\ JobButLatch
  BY DEF Resize
<1>2. ResizedMode(t) \in Modes
  BY DEF ResizedMode, Resume, TypeOK, ScreenType, Modes
<1>3. trusts \in SUBSET TrustCommand
  BY DEF TypeOK, TrustType
<1>4. TrustType' /\ mode' \in Modes /\ claim' \in Claim
  <2>1. CASE TrustGone(t)
    BY <1>3, <2>1, CancelTrustType DEF Resize
  <2>2. CASE ~TrustGone(t)
    BY <1>2, <2>2, NoClaimType DEF Resize, TypeOK, ScreenType, TrustType, trustVars
  <2> QED BY <2>1, <2>2
<1>5. /\ batchConfirmation' \in Seq(Pkgs) /\ batchTotal' \in Nat /\ batchCompleted' \in Nat
  BY ClearBatchType, BatchFrame DEF Resize
<1>6. /\ confirmation' \in OptPkg /\ term' \in Terms
  BY DEF Resize, TypeOK, DialogType, OptPkg
<1>7. /\ cancelReason' \in CancelReasons /\ jobCancelled' \in BOOLEAN
      /\ passwordRequest' \in 0..MaxRequests /\ input' \in {"blank", "typed"}
  <2>1. CASE OperationGone(t)
    <3>1. cancelReason' = "terminal" /\ WipePassword /\ CancelOperation
      BY <2>1 DEF Resize
    <3>2. jobCancelled' \in BOOLEAN
      BY <3>1, CancelJobType DEF CancelOperation, TypeOK, JobType
    <3> QED BY <3>1, <3>2 DEF WipePassword, CancelReasons, BoundsAssumption
  <2>2. CASE ~OperationGone(t)
    BY <2>2 DEF Resize, TypeOK, RunType, HoldType, JobType, passwordVars
  <2> QED BY <2>1, <2>2
<1>8. ScreenType' /\ DialogType' /\ RunType' /\ HoldType'
  BY <1>1, <1>4, <1>5, <1>6, <1>7
     DEF TypeOK, ScreenType, DialogType, RunType, HoldType, holdVars
<1>9. JobType'
  BY <1>1, <1>7 DEF JobButLatch, TypeOK, JobType
<1>10. ViewType' /\ LoadType' /\ SizeType' /\ InfoType' /\ QuitType' /\ WorldType'
  BY <1>1 DEF TypeOK, ViewType, LoadType, SizeType, InfoType, QuitType, WorldType,
              viewVars, loadVars, sizeVars, quitVars, worldVars
<1> QED BY <1>4, <1>8, <1>9, <1>10 DEF TypeOK

LEMMA QuitTypes == ASSUME TypeOK, NEW code \in ExitCodes, BeginQuit(code) PROVE TypeOK'
<1>1. /\ UNCHANGED <<term, kind, viewVars, loadVars, sizeVars, infoPending, dialogVars, runVars,
                     batchVars, holdVars, trustVars, worldVars>>
      /\ JobButLatch
  BY DEF BeginQuit
<1>2. /\ mode' \in Modes /\ claim' \in Claim /\ QuitType' /\ jobCancelled' \in BOOLEAN
      /\ passwordRequest' \in 0..MaxRequests /\ input' \in {"blank", "typed"}
  <2>1. CASE mode = "quitting"
    <3>1. /\ UNCHANGED <<mode, claim, closing, jobCancelled, passwordVars>>
          /\ FinishQuit(IF code # 0 THEN code ELSE quitExitCode)
      BY <2>1 DEF BeginQuit
    <3>2. (IF code # 0 THEN code ELSE quitExitCode) \in ExitCodes
      BY DEF TypeOK, QuitType
    <3> QED BY <3>1, <3>2, FinishQuitType
            DEF TypeOK, ScreenType, QuitType, JobType, HoldType, passwordVars
  <2>2. CASE mode # "quitting"
    <3>1. /\ IF mode = "password" THEN WipePassword ELSE UNCHANGED passwordVars
          /\ EnterQuit(code)
      BY <2>2 DEF BeginQuit
    <3>2. passwordRequest' \in 0..MaxRequests /\ input' \in {"blank", "typed"}
      BY <3>1 DEF WipePassword, TypeOK, HoldType, passwordVars, BoundsAssumption
    <3> QED BY <3>1, <3>2, EnterQuitType
  <2> QED BY <2>1, <2>2
<1>3. ScreenType' /\ HoldType' /\ JobType'
  BY <1>1, <1>2 DEF JobButLatch, TypeOK, ScreenType, HoldType, JobType, holdVars
<1>4. ViewType' /\ LoadType' /\ SizeType' /\ InfoType'
  BY <1>1 DEF TypeOK, ViewType, LoadType, SizeType, InfoType, viewVars, loadVars, sizeVars
<1>5. DialogType' /\ RunType' /\ TrustType' /\ WorldType'
  BY <1>1 DEF TypeOK, DialogType, RunType, TrustType, WorldType,
              dialogVars, runVars, batchVars, trustVars, worldVars
<1> QED BY <1>2, <1>3, <1>4, <1>5 DEF TypeOK

LEMMA StutterTypes == TypeOK /\ UNCHANGED vars => TypeOK'
<1> SUFFICES ASSUME TypeOK, UNCHANGED vars PROVE TypeOK'
  OBVIOUS
<1>1. /\ UNCHANGED <<screenVars, viewVars, loadVars, sizeVars, infoPending, dialogVars>>
      /\ UNCHANGED <<runVars, batchVars, holdVars, passwordVars, trustVars, quitVars>>
      /\ UNCHANGED <<jobVars, worldVars>>
  BY DEF vars
<1>2. ScreenType' /\ ViewType' /\ LoadType' /\ SizeType' /\ InfoType' /\ DialogType'
  BY <1>1 DEF TypeOK, ScreenType, ViewType, LoadType, SizeType, InfoType, DialogType,
              screenVars, viewVars, loadVars, sizeVars, dialogVars
<1>3. RunType' /\ HoldType' /\ TrustType' /\ QuitType'
  BY <1>1 DEF TypeOK, RunType, HoldType, TrustType, QuitType,
              runVars, batchVars, holdVars, passwordVars, trustVars, quitVars
<1>4. JobType' /\ WorldType'
  BY <1>1 DEF TypeOK, JobType, WorldType, jobVars, worldVars
<1> QED BY <1>2, <1>3, <1>4 DEF TypeOK

----------------------------------------------------------------------------
(* Every step of a session keeps the types.                                *)
LEMMA NextTypes == ASSUME IInv, [Next]_vars PROVE TypeOK'
<1>1. TypeOK
  BY DEF IInv
<1>2. CASE \E t \in Terms : Resize(t)
  BY <1>1, <1>2, ResizeTypes
<1>3. CASE Interrupt \/ Terminate \/ QuitKey
  <2>1. \E code \in ExitCodes : BeginQuit(code)
    BY <1>3 DEF Interrupt, Terminate, QuitKey, ExitCodes
  <2> QED BY <1>1, <2>1, QuitTypes
<1>4. CASE Terminated \/ UNCHANGED vars
  BY <1>1, <1>4, StutterTypes DEF Terminated
<1> QED BY <1>1, <1>2, <1>3, <1>4, InventoryKeyTypes, OperationKeyTypes, TrustKeyTypes,
           LoadStepTypes, SizesStepTypes, InfoTypes, JobMessageTypes, TrustStepTypes,
           JobStepTypes
        DEF Next

(* So does the state a session starts in.                                  *)
LEMMA InitTypes == Init => TypeOK
<1> SUFFICES ASSUME NEW s \in Snapshots, disk = s, InitFrom(Seed(s)) PROVE TypeOK
  BY DEF Init
<1>1. disk \in Snapshot /\ Seed(s) \in Snapshot
  BY DEF Seed, SnapshotsAssumption, Snapshot, NoSnapshot, NoLists
<1>2. FirstPurpose(Seed(s)) \in LoadPurposes
  BY DEF FirstPurpose, LoadPurposes
<1>3. ScreenType
  BY NoClaimType DEF InitFrom, ScreenType, Modes, Kinds, TermsAssumption
<1>4. ViewType
  BY <1>1 DEF InitFrom, ViewType, Snapshot, Kinds
<1>5. LoadType /\ SizeType
  BY <1>2 DEF InitFrom, LoadType, SizeType, Load, Kinds
<1>6. InfoType
  BY DEF InitFrom, InfoType
<1>7. DialogType /\ RunType /\ TrustType /\ QuitType
  BY EmptySeq DEF InitFrom, DialogType, RunType, TrustType, QuitType, OptPkg, Verbs,
                  CancelReasons, ExitCodes
<1>8. HoldType /\ JobType /\ WorldType
  <2>1. 0 \in 0..MaxRequests
    BY DEF BoundsAssumption
  <2>2. HoldType /\ WorldType
    BY <2>1, EmptySeq DEF InitFrom, HoldType, WorldType, WorldAssumption
  <2>3. JobType
    BY <2>1 DEF InitFrom, JobType
  <2> QED BY <2>2, <2>3
<1> QED BY <1>3, <1>4, <1>5, <1>6, <1>7, <1>8 DEF TypeOK

-----------------------------------------------------------------------------
(* A step that touches neither a load nor a job nor the operation.         *)
LEMMA QuietStep ==
  ASSUME Lifecycle, batchConfirmation' \in {batchConfirmation, <<>>},
         UNCHANGED <<operation, verb, startPending, jobHeld, jobPending, jobPhase, startMsg,
                     jobEntry, loading, loadPurpose, lists>>
  PROVE  Lifecycle'
<1>1. HandlesFollowJob'
  BY DEF Lifecycle, HandlesFollowJob
<1>2. JobHasOperation' /\ BatchAwaitsNoJob'
  BY DEF Lifecycle, JobHasOperation, BatchAwaitsNoJob, JobRunning
<1>3. LoadIsAlone'
  BY DEF Lifecycle, LoadIsAlone, JobRunning
<1>4. JobIsTheOperation'
  BY DEF Lifecycle, JobIsTheOperation
<1> QED BY <1>1, <1>2, <1>3, <1>4 DEF Lifecycle

(* A load starts where no job has a handle and no other load runs; one     *)
(* that ends an operation still has it.                                    *)
LEMMA LoadStarts ==
  ASSUME Lifecycle, ~loading, ~startPending', ~jobPending', ~jobHeld',
         startMsg' = "none", jobPhase' = "idle", batchConfirmation' = batchConfirmation,
         UNCHANGED operation, loading' = TRUE, NEW c, lists' = lists \cup {c},
         loadPurpose' = c.purpose, c.purpose = "afterOperation" => JobRunning
  PROVE  Lifecycle'
<1>1. lists' = {c}
  BY DEF Lifecycle, LoadIsAlone
<1>2. HandlesFollowJob' /\ JobHasOperation'
  BY DEF HandlesFollowJob, JobHasOperation
<1>3. LoadIsAlone'
  BY <1>1 DEF LoadIsAlone, JobRunning
<1>4. BatchAwaitsNoJob' /\ JobIsTheOperation'
  BY DEF Lifecycle, BatchAwaitsNoJob, JobIsTheOperation, JobRunning
<1> QED BY <1>2, <1>3, <1>4 DEF Lifecycle

(* An operation starts where nothing loads and no job has a handle.        *)
LEMMA OperationStarts ==
  ASSUME Lifecycle, ~loading, UNCHANGED loadVars, NEW entry \in Entry, StartUninstall(entry),
         ~jobHeld', ~jobPending', batchConfirmation' = <<>>
  PROVE  Lifecycle'
<1>1. /\ startPending' = TRUE /\ jobPhase' = "starting" /\ startMsg' = "none"
      /\ operation' = entry.pkg /\ entry.pkg \in Pkgs
  BY DEF StartUninstall, Entry
<1>2. lists' = {} /\ loading' = loading
  BY DEF loadVars, Lifecycle, LoadIsAlone
<1>3. JobRunning'
  BY <1>1, PkgsAssumption DEF JobRunning, PkgsAssumption
<1>4. HandlesFollowJob' /\ JobHasOperation' /\ JobIsTheOperation' /\ BatchAwaitsNoJob'
  BY <1>1, <1>3 DEF HandlesFollowJob, JobHasOperation, JobIsTheOperation, BatchAwaitsNoJob
<1>5. LoadIsAlone'
  BY <1>2, <1>3 DEF LoadIsAlone
<1> QED BY <1>4, <1>5 DEF Lifecycle

(* A job's result is taken and no other job takes its place; the operation *)
(* stays or ends.                                                          *)
LEMMA JobEnds ==
  ASSUME Lifecycle, TakeResult, JobGone, UNCHANGED startPending, UNCHANGED loadVars,
         operation' \in {operation, NoPkg}, batchConfirmation' \in {batchConfirmation, <<>>}
  PROVE  Lifecycle'
<1>1. /\ jobPending /\ ~startPending /\ startMsg = "none" /\ ~loading /\ lists = {}
  BY DEF TakeResult, Lifecycle, HandlesFollowJob, LoadIsAlone
<1>2. /\ jobPhase' = "idle" /\ startMsg' = "none" /\ ~startPending' /\ ~jobPending' /\ ~jobHeld'
      /\ ~loading' /\ lists' = {}
  BY <1>1 DEF TakeResult, JobGone, loadVars
<1>3. HandlesFollowJob' /\ JobHasOperation' /\ JobIsTheOperation'
  BY <1>2 DEF HandlesFollowJob, JobHasOperation, JobIsTheOperation
<1>4. LoadIsAlone'
  BY <1>2 DEF LoadIsAlone
<1>5. BatchAwaitsNoJob'
  BY DEF Lifecycle, BatchAwaitsNoJob, JobRunning
<1> QED BY <1>3, <1>4, <1>5 DEF Lifecycle

(* A load's message is handled, wherever it leaves the operation.          *)
LEMMA LoadEnds ==
  ASSUME Lifecycle, NEW c \in lists, TakeLoad(c), UNCHANGED holdVars, UNCHANGED jobVars,
         operation' \in {operation, NoPkg}, batchConfirmation' \in {batchConfirmation, <<>>}
  PROVE  Lifecycle'
<1>1. /\ ~startPending /\ ~jobPending /\ ~jobHeld
      /\ jobPhase \notin {"starting", "live", "finished"} /\ startMsg = "none"
  BY DEF Lifecycle, HandlesFollowJob, LoadIsAlone
<1>2. lists' = {} /\ ~loading'
  BY DEF TakeLoad, Lifecycle, LoadIsAlone
<1>3. HandlesFollowJob' /\ JobHasOperation' /\ JobIsTheOperation'
  BY <1>1 DEF Lifecycle, HandlesFollowJob, JobHasOperation, JobIsTheOperation, holdVars, jobVars
<1>4. LoadIsAlone'
  BY <1>2 DEF LoadIsAlone
<1>5. BatchAwaitsNoJob'
  BY DEF Lifecycle, BatchAwaitsNoJob, JobRunning
<1> QED BY <1>3, <1>4, <1>5 DEF Lifecycle

----------------------------------------------------------------------------
(* The inventory.                                                          *)
LEMMA OperationUntouchedRun ==
  OperationUntouched =>
    UNCHANGED <<operation, verb, startPending, jobHeld, jobPending, jobPhase, startMsg, jobEntry>>
BY DEF OperationUntouched, runVars, holdVars, jobVars

LEMMA RestUntouchedBatch == RestUntouched => batchConfirmation' = batchConfirmation
BY DEF RestUntouched, dialogVars

LEMMA InventoryKeyLives == ASSUME IInv, InventoryKey PROVE Lifecycle'
<1> USE OperationUntouchedRun, RestUntouchedBatch DEF IInv
<1>1. CASE Browse \/ StatusKey \/ Reorder \/ EnterSearch \/ SearchKey
  <2>1. OperationUntouched /\ RestUntouched /\ UNCHANGED loadVars
    BY <1>1 DEF Browse, StatusKey, Reorder, EnterSearch, SearchKey, LoadUntouched, loadVars
  <2> QED BY <2>1, QuietStep DEF loadVars
<1>2. ASSUME ~JobRunning, ~loading, OperationUntouched, RestUntouched,
             loading' = TRUE, NEW c, lists' = lists \cup {c}, loadPurpose' = c.purpose,
             c.purpose # "afterOperation"
      PROVE  Lifecycle'
  <2>1. ~startPending /\ ~jobPending /\ ~jobHeld /\ startMsg = "none" /\ jobPhase = "idle"
    BY <1>2 DEF TypeOK, JobType, Lifecycle, HandlesFollowJob, JobHasOperation
  <2> QED BY <1>2, <2>1, LoadStarts
<1>3. CASE SwitchKind
  <2>1. /\ ~JobRunning /\ ~loading /\ OperationUntouched /\ RestUntouched
        /\ UNCHANGED loadVars \/ StartLoad(kind', "switch", FALSE)
    BY <1>3 DEF SwitchKind, KeyboardOpen
  <2>2. CASE UNCHANGED loadVars
    BY <2>1, <2>2, QuietStep DEF loadVars
  <2>3. CASE StartLoad(kind', "switch", FALSE)
    <3> DEFINE c == [kind |-> kind', purpose |-> "switch", fleet |-> FALSE]
    <3>1. loading' = TRUE /\ lists' = lists \cup {c} /\ loadPurpose' = c.purpose
      BY <2>3 DEF StartLoad
    <3>2. c.purpose = "switch"
      OBVIOUS
    <3> HIDE DEF c
    <3> QED BY <1>2, <2>1, <3>1, <3>2
  <2> QED BY <2>1, <2>2, <2>3
<1>4. CASE Refresh
  <2>1. /\ ~JobRunning /\ ~loading /\ OperationUntouched /\ RestUntouched
        /\ StartLoad(kind, "refresh", FALSE)
    BY <1>4 DEF Refresh, NormalKey, KeyboardOpen
  <2> QED
    <3> DEFINE c == [kind |-> kind, purpose |-> "refresh", fleet |-> FALSE]
    <3>1. loading' = TRUE /\ lists' = lists \cup {c} /\ loadPurpose' = c.purpose
      BY <2>1 DEF StartLoad
    <3>2. c.purpose = "refresh"
      OBVIOUS
    <3> HIDE DEF c
    <3> QED BY <1>2, <2>1, <3>1, <3>2
<1> QED BY <1>1, <1>3, <1>4 DEF InventoryKey

LEMMA LoadStepLives == ASSUME IInv, LoadStep PROVE Lifecycle'
<1> PICK c \in lists :
      LoadWhileQuitting(c) \/ LoadCancelled(c) \/ LoadFailed(c) \/ LoadSucceeded(c)
  BY DEF LoadStep
<1>1. TakeLoad(c) /\ UNCHANGED holdVars /\ UNCHANGED jobVars
  BY DEF LoadWhileQuitting, LoadCancelled, LoadFailed, LoadSucceeded, JobUntouched
<1>2. operation' \in {operation, NoPkg}
  BY DEF LoadWhileQuitting, LoadCancelled, LoadFailed, LoadSucceeded, FinishOperation
<1>3. batchConfirmation' \in {batchConfirmation, <<>>}
  BY RestUntouchedBatch
     DEF LoadWhileQuitting, LoadCancelled, LoadFailed, LoadSucceeded, FinishOperation, ClearBatch
<1> QED BY <1>1, <1>2, <1>3, LoadEnds DEF IInv

LEMMA SizesAndInfoLive == ASSUME IInv, SizesStep \/ InfoCompleted PROVE Lifecycle'
<1>1. OperationUntouched /\ RestUntouched /\ UNCHANGED loadVars
  BY DEF SizesStep, SizesSuperseded, SizesWhileQuitting, SizesFailed, SizesMeasured,
         InfoCompleted, LoadUntouched
<1> QED BY <1>1, OperationUntouchedRun, RestUntouchedBatch, QuietStep DEF IInv, loadVars

----------------------------------------------------------------------------
(* Dialogs and keys of the operations.                                     *)
LEMMA OperationKeyLives == ASSUME IInv, OperationKey PROVE Lifecycle'
<1> USE DEF IInv
<1>1. ASSUME InventoryUntouched, UNCHANGED <<operation, verb, holdVars>>,
             UNCHANGED <<jobPhase, startMsg, jobEntry>>,
             batchConfirmation' \in {batchConfirmation, <<>>}
      PROVE  Lifecycle'
  BY <1>1, QuietStep DEF InventoryUntouched, loadVars, holdVars
<1>2. ASSUME NEW op, ConfirmOperation(op) PROVE Lifecycle'
  BY <1>1, <1>2 DEF ConfirmOperation, dialogVars, runVars, jobVars
<1>3. CASE ConfirmUpgradeAll
  <2>1. ~JobRunning /\ InventoryUntouched /\ UNCHANGED <<runVars, holdVars, jobVars>>
    BY <1>3 DEF ConfirmUpgradeAll
  <2>2. UNCHANGED <<operation, verb, startPending, jobHeld, jobPending, jobPhase, startMsg,
                    jobEntry, loading, loadPurpose, lists>>
    BY <2>1 DEF InventoryUntouched, loadVars, runVars, holdVars, jobVars
  <2>3. HandlesFollowJob' /\ JobHasOperation' /\ BatchAwaitsNoJob'
    BY <2>1, <2>2 DEF Lifecycle, HandlesFollowJob, JobHasOperation, BatchAwaitsNoJob, JobRunning
  <2>4. LoadIsAlone' /\ JobIsTheOperation'
    BY <2>2 DEF Lifecycle, LoadIsAlone, JobIsTheOperation, JobRunning
  <2> QED BY <2>3, <2>4 DEF Lifecycle
<1>4. CASE DismissConfirmation
  BY <1>1, <1>4 DEF DismissConfirmation, ClearBatch, runVars, jobVars
<1>5. CASE EnqueueConfirmed
  BY <1>1, <1>5 DEF EnqueueConfirmed, Enqueue, jobVars
<1>6. CASE StartConfirmed
  <2>1. Confirmed \in Entry
    BY <1>6 DEF StartConfirmed, Confirmed, Entry, TypeOK, DialogType, OptPkg
  <2>2. ~jobHeld /\ ~jobPending
    BY <1>6 DEF StartConfirmed, Lifecycle, JobHasOperation, HandlesFollowJob
  <2> QED BY <1>6, <2>1, <2>2, OperationStarts DEF StartConfirmed, KeyboardOpen, InventoryUntouched
<1>7. CASE StartBatch
  <2>1. /\ batchConfirmation # <<>> /\ ~loading
        /\ StartUninstall([verb |-> "upgrade", pkg |-> batchConfirmation[1]])
        /\ batchConfirmation' = <<>> /\ UNCHANGED <<jobHeld, jobPending, loadVars>>
    BY <1>7 DEF StartBatch, UpgradeAllFits, KeyboardOpen, InventoryUntouched
  <2>2. [verb |-> "upgrade", pkg |-> batchConfirmation[1]] \in Entry
    BY <2>1, LenProperties, ElementOfSeq DEF TypeOK, DialogType, Entry, Verbs
  <2>3. ~jobHeld /\ ~jobPending
    BY <2>1 DEF Lifecycle, JobHasOperation, HandlesFollowJob, BatchAwaitsNoJob
  <2> QED BY <2>1, <2>2, <2>3, OperationStarts
<1>8. CASE EditPassword
  BY <1>1, <1>8 DEF EditPassword, dialogVars, runVars, jobVars
<1>9. CASE SubmitPassword
  BY <1>1, <1>9 DEF SubmitPassword, dialogVars
<1>10. CASE EscapePassword
  BY <1>1, <1>10 DEF EscapePassword, JobButLatch, dialogVars
<1> QED BY <1>2, <1>3, <1>4, <1>5, <1>6, <1>7, <1>8, <1>9, <1>10 DEF OperationKey

----------------------------------------------------------------------------
(* The messages of the job.                                                *)
LEMMA ResultLives == ASSUME IInv, ResultStep PROVE Lifecycle'
<1> USE DEF IInv
<1>1. CASE ResultWhileQuitting
  BY <1>1, JobEnds DEF ResultWhileQuitting, InventoryUntouched, dialogVars, runVars
<1>2. CASE ResultCleanupFailed
  BY <1>2, JobEnds DEF ResultCleanupFailed, InventoryUntouched, ClearBatch
<1>3. CASE ResultFailed
  BY <1>3, JobEnds DEF ResultFailed, FinishOperation, InventoryUntouched, ClearBatch
<1>4. CASE ResultSelfUninstalled
  BY <1>4, JobEnds
     DEF ResultSelfUninstalled, TakeSuccess, InventoryUntouched, dialogVars, runVars
<1>5. CASE ResultQueueUnsafe
  BY <1>5, JobEnds
     DEF ResultQueueUnsafe, TakeSuccess, FinishOperation, InventoryUntouched, ClearBatch
<1>6. CASE ResultStartsNext
  <2>1. jobPending /\ ~jobHeld' /\ ~jobPending' /\ queue # <<>>
        /\ StartUninstall(Head(queue)) /\ UNCHANGED <<batchConfirmation, loadVars>>
    BY <1>6 DEF ResultStartsNext, TakeSuccess, TakeResult, InventoryUntouched, dialogVars
  <2>2. ~loading /\ batchConfirmation = <<>>
    BY <2>1 DEF Lifecycle, LoadIsAlone, JobHasOperation, BatchAwaitsNoJob
  <2>3. Head(queue) \in Entry
    BY <2>1, HeadTailProperties DEF TypeOK, RunType
  <2> QED BY <2>1, <2>2, <2>3, OperationStarts
<1>7. CASE ResultReloads
  <2>1. /\ jobPending /\ ~jobHeld' /\ ~jobPending' /\ jobPhase' = "idle"
        /\ UNCHANGED <<startPending, startMsg, operation, batchConfirmation>>
        /\ StartLoad(kind, "afterOperation", batchTotal > 0)
    BY <1>7 DEF ResultReloads, TakeSuccess, TakeResult, JobGone, dialogVars, runVars
  <2>2. ~loading /\ ~startPending /\ startMsg = "none" /\ JobRunning
    <3>1. jobPhase = "finished"
      BY <1>7 DEF ResultReloads, TakeSuccess, TakeResult
    <3> QED BY <2>1, <3>1 DEF Lifecycle, HandlesFollowJob, LoadIsAlone, JobHasOperation
  <2> QED
    <3> DEFINE c == [kind |-> kind, purpose |-> "afterOperation", fleet |-> batchTotal > 0]
    <3>1. loading' = TRUE /\ lists' = lists \cup {c} /\ loadPurpose' = c.purpose
      BY <2>1 DEF StartLoad
    <3>2. c.purpose = "afterOperation"
      OBVIOUS
    <3> HIDE DEF c
    <3> QED BY <2>1, <2>2, LoadStarts, <3>1, <3>2
<1> QED BY <1>1, <1>2, <1>3, <1>4, <1>5, <1>6, <1>7 DEF ResultStep

LEMMA JobMessageLives == ASSUME IInv, JobMessage PROVE Lifecycle'
<1> USE DEF IInv
<1>1. CASE JobStarted
  <2>1. /\ startMsg = "started" /\ startMsg' = "none"
        /\ ~startPending' /\ jobHeld' /\ jobPending'
        /\ UNCHANGED <<dialogVars, runVars, jobPhase, jobEntry, loadVars>>
    BY <1>1 DEF JobStarted, InventoryUntouched
  <2>2. jobPhase \in {"live", "finished"} /\ startPending
    BY <2>1 DEF TypeOK, JobType, Lifecycle, HandlesFollowJob
  <2>3. HandlesFollowJob' /\ JobHasOperation' /\ BatchAwaitsNoJob'
    BY <2>1, <2>2 DEF Lifecycle, HandlesFollowJob, JobHasOperation, BatchAwaitsNoJob, JobRunning,
                      dialogVars, runVars
  <2>4. LoadIsAlone' /\ JobIsTheOperation'
    BY <2>1, <2>2 DEF Lifecycle, LoadIsAlone, JobIsTheOperation, JobRunning, loadVars, runVars
  <2> QED BY <2>3, <2>4 DEF Lifecycle
<1>2. CASE JobStartFailed
  <2>1. /\ startMsg = "failed" /\ startMsg' = "none" /\ ~startPending'
        /\ UNCHANGED <<verb, jobHeld, jobPending, jobPhase, jobEntry, loadVars>>
        /\ operation' \in {operation, NoPkg}
        /\ batchConfirmation' \in {batchConfirmation, <<>>}
    BY <1>2 DEF JobStartFailed, InventoryUntouched, ClearBatch
  <2>2. jobPhase = "idle" /\ ~jobPending /\ ~jobHeld /\ ~loading /\ lists = {}
    BY <2>1 DEF Lifecycle, HandlesFollowJob, LoadIsAlone
  <2>3. HandlesFollowJob' /\ JobHasOperation' /\ JobIsTheOperation' /\ BatchAwaitsNoJob'
    BY <2>1, <2>2 DEF Lifecycle, HandlesFollowJob, JobHasOperation, JobIsTheOperation,
                      BatchAwaitsNoJob, JobRunning
  <2>4. LoadIsAlone'
    BY <2>1, <2>2 DEF LoadIsAlone, loadVars
  <2> QED BY <2>3, <2>4 DEF Lifecycle
<1>3. CASE IgnoreEvent \/ RejectRequest \/ OpenPassword
  <2>1. /\ InventoryUntouched
        /\ UNCHANGED <<operation, verb, batchConfirmation, holdVars, jobPhase, startMsg, jobEntry>>
    BY <1>3 DEF IgnoreEvent, RejectRequest, OpenPassword, dialogVars, runVars
  <2> QED BY <2>1, QuietStep DEF InventoryUntouched, loadVars, holdVars
<1> QED BY <1>1, <1>2, <1>3, ResultLives DEF JobMessage

(* The job's own steps.                                                    *)
LEMMA JobStepLives == ASSUME IInv, JobStep PROVE Lifecycle'
<1> USE DEF IInv
<1>1. /\ UNCHANGED <<operation, verb, batchConfirmation, startPending, jobHeld, jobPending>>
      /\ UNCHANGED <<loading, loadPurpose, lists>>
  <2>1. UIUntouched
    BY DEF JobStep, JobEnd, StartFails, StartSucceeds, RequestPassword, FailAuthentication,
           RequestTimesOut, JobFinishes
  <2> QED BY <2>1 DEF UIUntouched, InventoryUntouched, dialogVars, runVars, holdVars, loadVars
<1>2. LoadIsAlone' /\ JobHasOperation' /\ BatchAwaitsNoJob'
  BY <1>1 DEF Lifecycle, LoadIsAlone, JobHasOperation, BatchAwaitsNoJob, JobRunning
<1>3. HandlesFollowJob' /\ JobIsTheOperation'
  <2>1. CASE StartFails
    BY <1>1, <2>1 DEF StartFails, Lifecycle, HandlesFollowJob, JobIsTheOperation
  <2>2. CASE StartSucceeds
    BY <1>1, <2>2 DEF StartSucceeds, Lifecycle, HandlesFollowJob, JobIsTheOperation
  <2>3. CASE RequestPassword \/ FailAuthentication \/ RequestTimesOut
    <3>1. UNCHANGED <<jobPhase, startMsg, jobEntry>>
      BY <2>3 DEF RequestPassword, FailAuthentication, RequestTimesOut
    <3> QED BY <1>1, <3>1 DEF Lifecycle, HandlesFollowJob, JobIsTheOperation
  <2>4. CASE JobEnd
    <3>1. /\ jobPhase = "live" /\ jobPhase' = "finished" /\ UNCHANGED <<startMsg, jobEntry>>
      BY <2>4 DEF JobEnd, JobFinishes
    <3> QED BY <1>1, <3>1 DEF Lifecycle, HandlesFollowJob, JobIsTheOperation
  <2> QED BY <2>1, <2>2, <2>3, <2>4 DEF JobStep
<1> QED BY <1>2, <1>3 DEF Lifecycle

----------------------------------------------------------------------------
(* The trust review, resizes and quits.                                    *)
LEMMA OthersLive ==
  ASSUME IInv,
         \/ TrustKey \/ TrustStep
         \/ \E t \in Terms : Resize(t)
         \/ Interrupt \/ Terminate \/ QuitKey
         \/ UNCHANGED vars
  PROVE  Lifecycle'
<1> USE DEF IInv
<1>1. CASE TrustKey \/ TrustStep
  <2>1. OutsideUntouched
    BY <1>1 DEF TrustKey, ReviewTrust, AbandonTrust, StartTrust, TrustStep, DropStaleTrust,
                TrustWhileQuitting, DetailsArrive, TrustFails, TrustSucceeds
  <2> QED BY <2>1, QuietStep DEF OutsideUntouched, loadVars, dialogVars, runVars, holdVars, jobVars
<1>2. ASSUME NEW t \in Terms, Resize(t) PROVE Lifecycle'
  <2>1. batchConfirmation' \in {batchConfirmation, <<>>}
    BY <1>2 DEF Resize, ClearBatch
  <2>2. UNCHANGED <<operation, verb, holdVars, jobPhase, startMsg, jobEntry, loadVars>>
    BY <1>2 DEF Resize, JobButLatch
  <2> QED BY <2>1, <2>2, QuietStep DEF loadVars, holdVars
<1>3. ASSUME NEW code, BeginQuit(code) PROVE Lifecycle'
  <2>1. /\ UNCHANGED <<loadVars, dialogVars, runVars, holdVars>>
        /\ UNCHANGED <<jobPhase, startMsg, jobEntry>>
    BY <1>3 DEF BeginQuit, JobButLatch
  <2> QED BY <2>1, QuietStep DEF loadVars, dialogVars, runVars, holdVars
<1>4. CASE UNCHANGED vars
  <2>1. UNCHANGED <<loadVars, dialogVars, runVars, holdVars, jobVars>>
    BY <1>4 DEF vars
  <2> QED BY <2>1, QuietStep DEF loadVars, dialogVars, runVars, holdVars, jobVars
<1> QED BY <1>1, <1>2, <1>3, <1>4 DEF Interrupt, Terminate, QuitKey

LEMMA NextLives == ASSUME IInv, [Next]_vars PROVE Lifecycle'
BY InventoryKeyLives, LoadStepLives, SizesAndInfoLive, OperationKeyLives, JobMessageLives,
   JobStepLives, OthersLive
   DEF Next, Terminated

LEMMA InitLives == Init => Lifecycle
<1> SUFFICES ASSUME NEW s \in Snapshots, InitFrom(Seed(s)) PROVE Lifecycle
  BY DEF Init
<1>1. HandlesFollowJob /\ JobHasOperation /\ BatchAwaitsNoJob /\ JobIsTheOperation
  BY DEF InitFrom, HandlesFollowJob, JobHasOperation, BatchAwaitsNoJob, JobIsTheOperation
<1>2. LoadIsAlone
  BY DEF InitFrom, LoadIsAlone, FirstPurpose
<1> QED BY <1>1, <1>2 DEF Lifecycle

----------------------------------------------------------------------------
(* The inductive invariant holds in every reachable state of a session.    *)
THEOREM SessionInvariant == Spec => []IInv
<1>1. Init => IInv
  BY InitTypes, InitLives DEF IInv
<1>2. IInv /\ [Next]_vars => IInv'
  BY NextTypes, NextLives DEF IInv
<1> QED BY <1>1, <1>2, PTL DEF Spec

(* Every field of the model holds what its declaration allows, a claim and *)
(* brew's command line included, which are only entries because an         *)
(* operation runs when they are made (model.go, the model struct).         *)
THEOREM SessionTypeCorrect == Spec => []TypeOK
<1>1. IInv => TypeOK
  BY DEF IInv
<1> QED BY <1>1, SessionInvariant, PTL

(* No list is read while a job can change what it reads: startList and     *)
(* startFleetReload are reached only without a job.                        *)
THEOREM ReadsNeverOverlapMutation == Spec => []NoReadDuringMutation
<1>1. IInv => NoReadDuringMutation
  BY DEF IInv, Lifecycle, HandlesFollowJob, LoadIsAlone, NoReadDuringMutation
<1> QED BY <1>1, SessionInvariant, PTL

(* One load at a time, and m.loading, m.loadPurpose describe it.           *)
THEOREM LoadsNeverOverlap == Spec => []SingleLoad
<1>1. ASSUME IInv PROVE SingleLoad
  <2>1. /\ loading <=> lists # {}
        /\ \A c \in lists : lists = {c} /\ c.purpose = loadPurpose
    BY <1>1 DEF IInv, Lifecycle, LoadIsAlone
  <2>2. Cardinality(lists) <= 1
    <3>1. CASE lists = {}
      BY <3>1, FS_EmptySet
    <3>2. CASE lists # {}
      <4>1. PICK c : lists = {c}
        BY <2>1, <3>2
      <4>2. Cardinality({c}) = 1
        BY FS_Singleton
      <4> QED BY <4>1, <4>2
    <3> QED BY <3>1, <3>2
  <2> QED BY <2>1, <2>2 DEF SingleLoad
<1> QED BY <1>1, SessionInvariant, PTL

(* brew was started with the operation on screen and keeps being it until  *)
(* its result is handled, although Start reads m.verb in a goroutine.      *)
THEOREM JobStaysTheOperation == Spec => []JobIsTheOperation
<1>1. IInv => JobIsTheOperation
  BY DEF IInv, Lifecycle
<1> QED BY <1>1, SessionInvariant, PTL

(* Only a confirmed dialog and a success with entries waiting commit an    *)
(* operation.                                                              *)
LEMMA WhoStarts ==
  [Next]_vars /\ operationID' # operationID => StartConfirmed \/ StartBatch \/ ResultStartsNext
<1> SUFFICES ASSUME [Next]_vars, ~StartConfirmed, ~StartBatch, ~ResultStartsNext
             PROVE  operationID' = operationID
  OBVIOUS
<1>1. CASE InventoryKey \/ SizesStep \/ InfoCompleted
  <2>1. OperationUntouched
    BY <1>1 DEF InventoryKey, Browse, StatusKey, Reorder, EnterSearch, SearchKey, SwitchKind,
                Refresh, SizesStep, SizesSuperseded, SizesWhileQuitting, SizesFailed,
                SizesMeasured, InfoCompleted
  <2> QED BY <2>1 DEF OperationUntouched, runVars
<1>2. CASE OperationKey
  BY <1>2 DEF OperationKey, ConfirmOperation, ConfirmUpgradeAll, DismissConfirmation,
              EnqueueConfirmed, EditPassword, SubmitPassword, EscapePassword, runVars
<1>3. CASE LoadStep
  <2>1. JobUntouched
    BY <1>3 DEF LoadStep, LoadWhileQuitting, LoadCancelled, LoadFailed, LoadSucceeded
  <2> QED BY <2>1 DEF JobUntouched
<1>4. CASE TrustKey \/ TrustStep
  <2>1. OutsideUntouched
    BY <1>4 DEF TrustKey, ReviewTrust, AbandonTrust, StartTrust, TrustStep, DropStaleTrust,
                TrustWhileQuitting, DetailsArrive, TrustFails, TrustSucceeds
  <2> QED BY <2>1 DEF OutsideUntouched, runVars
<1>5. CASE ResultStep
  BY <1>5 DEF ResultStep, ResultWhileQuitting, ResultCleanupFailed, ResultFailed,
              ResultSelfUninstalled, ResultQueueUnsafe, ResultReloads, runVars
<1>6. CASE JobMessage /\ ~ResultStep
  BY <1>6 DEF JobMessage, JobStarted, JobStartFailed, IgnoreEvent, RejectRequest, OpenPassword,
              runVars
<1>7. CASE JobStep
  <2>1. UIUntouched
    BY <1>7 DEF JobStep, JobEnd, StartFails, StartSucceeds, RequestPassword, FailAuthentication,
                RequestTimesOut, JobFinishes
  <2> QED BY <2>1 DEF UIUntouched, runVars
<1>8. CASE \E t \in Terms : Resize(t)
  BY <1>8 DEF Resize
<1>9. CASE Interrupt \/ Terminate \/ QuitKey
  BY <1>9 DEF Interrupt, Terminate, QuitKey, BeginQuit, runVars
<1>10. CASE UNCHANGED vars
  BY <1>10 DEF vars, runVars
<1> QED BY <1>1, <1>2, <1>3, <1>4, <1>5, <1>6, <1>7, <1>8, <1>9, <1>10 DEF Next, Terminated

(* No operation is committed while the job of another starts or runs.      *)
THEOREM MutationsNeverOverlap == Spec => SerialMutation
<1>1. ASSUME IInv, [Next]_vars, operationID' # operationID
      PROVE  jobPhase \in {"idle", "finished"} /\ ~startPending
  <2>1. CASE ~JobRunning
    BY <1>1, <2>1 DEF IInv, TypeOK, JobType, Lifecycle, HandlesFollowJob, JobHasOperation
  <2>2. CASE StartConfirmed
    BY <2>1, <2>2 DEF StartConfirmed
  <2>3. CASE StartBatch
    <3>1. batchConfirmation # <<>>
      BY <2>3 DEF StartBatch, UpgradeAllFits
    <3> QED BY <1>1, <2>1, <3>1 DEF IInv, Lifecycle, BatchAwaitsNoJob
  <2>4. CASE ResultStartsNext
    <3>1. jobPhase = "finished" /\ jobPending
      BY <2>4 DEF ResultStartsNext, TakeSuccess, TakeResult
    <3> QED BY <1>1, <3>1 DEF IInv, Lifecycle, HandlesFollowJob
  <2> QED BY <1>1, <2>2, <2>3, <2>4, WhoStarts
<1>2. IInv /\ [Next]_vars =>
        [operationID' # operationID => jobPhase \in {"idle", "finished"} /\ ~startPending]_vars
  BY <1>1
<1> QED BY <1>2, SessionInvariant, PTL DEF Spec, SerialMutation
=============================================================================
