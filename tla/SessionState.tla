---------------------------- MODULE SessionState ----------------------------
(***************************************************************************)
(* The state of one lazybrew session: the Bubble Tea model of              *)
(* internal/ui/model.go, the supervisor handles it shares with main, and   *)
(* what lives outside the Update loop: the commands in flight, the         *)
(* privileged job, the snapshot file and Homebrew's own world.             *)
(*                                                                         *)
(* Update is serial: every action of the modules built on this one is the  *)
(* handling of one message.  A tea.Cmd is a goroutine whose single message *)
(* may be handled any time later, in any order with the others.            *)
(***************************************************************************)
EXTENDS Integers, Sequences, FiniteSets

CONSTANTS
  Pkgs,          \* the packages Homebrew knows of
  KindOf,        \* [Pkgs -> Kinds]
  NoPkg,         \* the nil *brew.Package
  SelfPkg,       \* the lazybrew cask, or NoPkg when it is not installed
  Pinned,        \* packages pinned in Homebrew
  Suppressed,    \* packages whose update is below the outdated threshold
  Installed0,    \* what is installed, outdated and untrusted at start
  Outdated0,
  Untrusted0,
  Snapshots,     \* the snapshot files an earlier session can have left
  Persist,       \* settingsDir is not empty: the snapshot file is written
  Terms,         \* terminal sizes, by what fits them
  Unsized,       \* the 0x0 size before the first WindowSizeMsg
  TooSmall,      \* sizes below 32x9
  FitsIn,        \* [Terms -> SUBSET Pkgs]: confirmationFits
  BatchModalIn,  \* sizes the upgrade-all modal fits
  TrustModalIn,  \* sizes the trust modal fits while loading
  TrustFullIn,   \* sizes the trust modal fits with its details
  Keys,          \* the keys and signals the user sends in this instance
  LossyReads,    \* the outdated and untrusted reads of a load may fail
  InfoLookups,   \* `brew info` lookups are part of this instance
  MaxOps,        \* bound: operations the user confirms in one session
  MaxRequests    \* bound: password requests sudo makes in one session

Kinds == {"cask", "formula"}
Verbs == {"uninstall", "upgrade"}
Modes == {"normal", "search", "confirm", "operation", "password", "trust", "quitting"}
LoadPurposes == {"startup", "switch", "refresh", "afterOperation"}
CancelReasons == {"none", "user", "terminal", "authentication"}
ExitCodes == {0, 1, 130, 143}

(* privileged.Result: exactly one of its fields decides what the UI does.  *)
Results == {"ok", "err", "cancelled", "authFailed", "authTimedOut", "cleanupErr"}

(* One inventory row.  LatestVersion is Homebrew's offer, the untrusted    *)
(* mark carries the full name and tap.  Outdated, Pinned and Dependency    *)
(* are functions of the package here.                                      *)
Row == [name: Pkgs, offered: BOOLEAN, untrusted: BOOLEAN]
Entry == [verb: Verbs, pkg: Pkgs]
Load == [kind: Kinds, purpose: LoadPurposes, fleet: BOOLEAN]
TrustCommand == [what: {"details", "trust"}, pkg: Pkgs, current: BOOLEAN]
JobEvent == [id: Nat, request: 1..MaxRequests]
Snapshot == [kinds: SUBSET Kinds, lists: [Kinds -> SUBSET Row], sized: BOOLEAN]
OptPkg == Pkgs \cup {NoPkg}

NoLists == [k \in Kinds |-> {}]
NoSnapshot == [kinds |-> {}, lists |-> NoLists, sized |-> FALSE]

ASSUME PkgsAssumption == NoPkg \notin Pkgs /\ IsFiniteSet(Pkgs)
ASSUME KindAssumption == KindOf \in [Pkgs -> Kinds]
ASSUME SelfAssumption == SelfPkg \in OptPkg
ASSUME WorldAssumption ==
  Installed0 \subseteq Pkgs /\ Outdated0 \subseteq Pkgs /\ Untrusted0 \subseteq Pkgs
ASSUME SnapshotsAssumption == Snapshots \subseteq Snapshot /\ Persist \in BOOLEAN
ASSUME TermsAssumption ==
  /\ Unsized \in TooSmall /\ TooSmall \subseteq Terms
  /\ FitsIn \in [Terms -> SUBSET Pkgs]
ASSUME BoundsAssumption == MaxOps \in Nat /\ MaxRequests \in Nat

VARIABLES
  (* the screen *)
  mode, term, kind,
  claim,              \* what the status line reports as completed
  (* the inventory pane and what it is retained in *)
  rows,               \* the packages setPackages was last given
  cached, listCache,  \* the kinds retained, and their lists
  sizesKnown,         \* m.sizes # nil
  (* commands in flight *)
  loading, loadPurpose, lists,
  sizesPending,
  sizes,              \* du passes running: "current" and "superseded"
  infoPending,
  (* dialogs *)
  confirmation, confirmVerb, batchConfirmation,
  (* the running operation, its queue and its batch *)
  operation, verb, queue, operationID, cancelReason,
  batchTotal, batchCompleted,
  startPending, jobHeld, jobPending,
  passwordRequest, input,
  (* the trust review *)
  trustPackage, trustLoaded, trustErr, trustPending, trusting, trusts,
  (* the supervisor and the end of the program *)
  closing, cleanupErr, quitExitCode, exited,
  (* the privileged job *)
  jobPhase, startMsg, jobCancelled, jobAuth, jobRequest, requests,
  eventWaiter, jobEvents, jobResult,
  jobEntry,           \* the operation and package on brew's command line
  (* outside the process *)
  installed, outdated, untrusted, disk,
  (* history: the entries whose job succeeded since the last idle state *)
  succeeded

screenVars == <<mode, term, kind, claim>>
viewVars == <<rows, cached, listCache, sizesKnown, disk>>
loadVars == <<loading, loadPurpose, lists>>
sizeVars == <<sizesPending, sizes>>
dialogVars == <<confirmation, confirmVerb, batchConfirmation>>
runVars == <<operation, verb, queue, operationID, cancelReason>>
batchVars == <<batchTotal, batchCompleted>>
holdVars == <<startPending, jobHeld, jobPending>>
passwordVars == <<passwordRequest, input>>
trustVars == <<trustPackage, trustLoaded, trustErr, trustPending, trusting, trusts>>
quitVars == <<closing, quitExitCode, exited>>
jobVars == <<jobPhase, startMsg, jobCancelled, jobAuth, jobRequest, requests,
             eventWaiter, jobEvents, jobResult, jobEntry, cleanupErr>>
worldVars == <<installed, outdated, untrusted, succeeded>>

vars == <<screenVars, viewVars, loadVars, sizeVars, infoPending, dialogVars,
          runVars, batchVars, holdVars, passwordVars, trustVars, quitVars,
          jobVars, worldVars>>

NoEntry == [verb |-> "none", pkg |-> NoPkg]
NoClaim == [entry |-> NoEntry, total |-> 0]
Claim == [entry: Entry \cup {NoEntry}, total: Nat]

(* The types, in the groups the variables are declared in.                 *)
ScreenType == mode \in Modes /\ term \in Terms /\ kind \in Kinds /\ claim \in Claim
ViewType ==
  /\ rows \subseteq Row
  /\ cached \subseteq Kinds /\ listCache \in [Kinds -> SUBSET Row]
  /\ sizesKnown \in BOOLEAN /\ disk \in Snapshot
LoadType ==
  loading \in BOOLEAN /\ loadPurpose \in LoadPurposes /\ lists \subseteq Load
SizeType == sizesPending \in BOOLEAN /\ sizes \subseteq {"current", "superseded"}
InfoType == infoPending \in BOOLEAN
DialogType ==
  confirmation \in OptPkg /\ confirmVerb \in Verbs /\ batchConfirmation \in Seq(Pkgs)
RunType ==
  /\ operation \in OptPkg /\ verb \in Verbs /\ queue \in Seq(Entry)
  /\ operationID \in Nat /\ cancelReason \in CancelReasons
  /\ batchTotal \in Nat /\ batchCompleted \in Nat
HoldType ==
  /\ startPending \in BOOLEAN /\ jobHeld \in BOOLEAN /\ jobPending \in BOOLEAN
  /\ passwordRequest \in 0..MaxRequests /\ input \in {"blank", "typed"}
TrustType ==
  /\ trustPackage \in OptPkg /\ trustLoaded \in BOOLEAN /\ trustErr \in BOOLEAN
  /\ trustPending \in BOOLEAN /\ trusting \in BOOLEAN /\ trusts \subseteq TrustCommand
QuitType ==
  closing \in BOOLEAN /\ quitExitCode \in ExitCodes /\ exited \in BOOLEAN
JobType ==
  /\ jobPhase \in {"idle", "starting", "live", "finished"}
  /\ startMsg \in {"none", "started", "failed"}
  /\ jobCancelled \in BOOLEAN /\ jobAuth \in {"none", "failed", "timedOut"}
  /\ jobRequest \in 0..MaxRequests /\ requests \in 0..MaxRequests
  /\ eventWaiter \in BOOLEAN /\ jobEvents \subseteq JobEvent
  /\ jobResult \in Results \cup {"none"} /\ jobEntry \in Entry \cup {NoEntry}
  /\ cleanupErr \in BOOLEAN
WorldType ==
  /\ installed \subseteq Pkgs /\ outdated \subseteq Pkgs /\ untrusted \subseteq Pkgs
  /\ succeeded \in Seq(Entry)

(* Every variable holds what its declaration in model.go can hold.         *)
TypeOK ==
  /\ ScreenType /\ ViewType /\ LoadType /\ SizeType /\ InfoType
  /\ DialogType /\ RunType /\ HoldType /\ TrustType /\ QuitType /\ JobType /\ WorldType
=============================================================================
