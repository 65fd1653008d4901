------------------------- MODULE SessionViewProofs --------------------------
(***************************************************************************)
(* What a session shows and how it ends: the pane and the snapshot file    *)
(* against what is retained, the trust review against Homebrew, the mode   *)
(* against the run, what is left when the program exits, and the contracts *)
(* of the loader and the job, which the session uses.                      *)
(*                                                                         *)
(* A terminal that shrinks breaks some of these promises, and so do the    *)
(* lists of an earlier session and a read that fails.  Those theorems name *)
(* the condition they need (Undisturbed, Steady, Calm, FirstSession,       *)
(* ReadsAnswer, SnapshotsAreCautious), and the README the step that breaks *)
(* them.                                                                   *)
(***************************************************************************)
EXTENDS SessionQueueProofs

(* The size pass under way is the one finishQuit waits for.                *)
SizesFollow == sizesPending <=> "current" \in sizes

(* The command the model waits for is the only current one, and `brew      *)
(* trust` is one for the package under review, whose provenance is shown.  *)
TrustMatches ==
  /\ \A c \in trusts : c.current /\ c.what = "trust" => c.pkg = trustPackage /\ trustLoaded
  /\ trustPending <=> \E c \in trusts : c.current
  /\ \A c, d \in trusts : c.current /\ d.current => c = d

ExitedIsSettled == exited => Settled
ExitInv == SizesFollow /\ TrustMatches /\ ExitedIsSettled /\ CleanupFailureReported

----------------------------------------------------------------------------
(* A size pass is started, superseded or taken, or left alone.             *)
LEMMA SizesSteps ==
  ASSUME [Next]_vars
  PROVE  UNCHANGED sizeVars \/ StartSizes \/ TakeSizes \/ SizesSuperseded
<1>1. CASE InventoryKey
  BY <1>1 DEF InventoryKey, Browse, StatusKey, Reorder, EnterSearch, SearchKey, SwitchKind, Refresh,
              LoadUntouched, InvalidateCaches, sizeVars
<1>2. CASE SizesStep \/ InfoCompleted
  BY <1>2 DEF SizesStep, SizesWhileQuitting, SizesFailed, SizesMeasured, InfoCompleted,
              LoadUntouched
<1>3. CASE LoadStep
  BY <1>3 DEF LoadStep, LoadWhileQuitting, LoadCancelled, LoadFailed, LoadSucceeded, ViewUntouched
<1>4. CASE OperationKey
  <2>1. InventoryUntouched
    BY <1>4 DEF OperationKey, ConfirmOperation, ConfirmUpgradeAll, DismissConfirmation,
                EnqueueConfirmed, StartConfirmed, StartBatch, EditPassword, SubmitPassword,
                EscapePassword
  <2> QED BY <2>1 DEF InventoryUntouched
<1>5. CASE JobMessage \/ JobStep
  <2>1. InventoryUntouched \/ ResultReloads
    BY <1>5 DEF JobMessage, JobStarted, JobStartFailed, IgnoreEvent, RejectRequest, OpenPassword,
                ResultStep, ResultWhileQuitting, ResultCleanupFailed, ResultFailed,
                ResultSelfUninstalled, ResultQueueUnsafe, ResultStartsNext, JobStep, JobEnd,
                StartFails, StartSucceeds, RequestPassword, FailAuthentication, RequestTimesOut,
                JobFinishes, UIUntouched
  <2> QED BY <2>1 DEF InventoryUntouched, ResultReloads, InvalidateCaches
<1>6. CASE TrustKey \/ TrustStep
  <2>1. OutsideUntouched
    BY <1>6 DEF TrustKey, ReviewTrust, AbandonTrust, StartTrust, TrustStep, DropStaleTrust,
                TrustWhileQuitting, DetailsArrive, TrustFails, TrustSucceeds
  <2> QED BY <2>1 DEF OutsideUntouched
<1>7. CASE \E t \in Terms : Resize(t)
  BY <1>7 DEF Resize
<1>8. CASE Interrupt \/ Terminate \/ QuitKey
  BY <1>8 DEF Interrupt, Terminate, QuitKey, BeginQuit
<1>9. CASE UNCHANGED vars
  BY <1>9 DEF vars, sizeVars
<1> QED BY <1>1, <1>2, <1>3, <1>4, <1>5, <1>6, <1>7, <1>8, <1>9 DEF Next, Terminated

LEMMA NextKeepsSizes == ASSUME SizesFollow, [Next]_vars PROVE SizesFollow'
<1>1. CASE UNCHANGED sizeVars
  BY <1>1 DEF sizeVars, SizesFollow
<1>2. CASE StartSizes
  BY <1>2 DEF StartSizes, SizesFollow
<1>3. CASE TakeSizes
  BY <1>3 DEF TakeSizes, SizesFollow
<1>4. CASE SizesSuperseded
  BY <1>4 DEF SizesSuperseded, SizesFollow
<1> QED BY <1>1, <1>2, <1>3, <1>4, SizesSteps

----------------------------------------------------------------------------
(* Nothing happens after the end of the program.                           *)
LEMMA ExitedIsFinal == ASSUME exited, [Next]_vars PROVE UNCHANGED vars
<1> SUFFICES ASSUME Next, ~UNCHANGED vars PROVE FALSE
  OBVIOUS
<1>1. CASE InventoryKey
  BY <1>1 DEF InventoryKey, Browse, StatusKey, Reorder, EnterSearch, SearchKey, SwitchKind, Refresh,
              NormalKey, KeyboardOpen
<1>2. CASE SizesStep \/ InfoCompleted \/ LoadStep
  BY <1>2 DEF SizesStep, SizesSuperseded, SizesWhileQuitting, SizesFailed, SizesMeasured, TakeSizes,
              InfoCompleted, LoadStep, LoadWhileQuitting, LoadCancelled, LoadFailed, LoadSucceeded,
              TakeLoad
<1>3. CASE OperationKey
  BY <1>3 DEF OperationKey, ConfirmOperation, ConfirmUpgradeAll, DismissConfirmation,
              EnqueueConfirmed, StartConfirmed, StartBatch, EditPassword, SubmitPassword,
              EscapePassword, NormalKey, KeyboardOpen
<1>4. CASE JobMessage
  BY <1>4 DEF JobMessage, JobStarted, JobStartFailed, IgnoreEvent, RejectRequest, OpenPassword,
              ResultStep, ResultWhileQuitting, ResultCleanupFailed, ResultFailed,
              ResultSelfUninstalled, ResultQueueUnsafe, ResultStartsNext, ResultReloads,
              TakeSuccess, TakeResult
<1>5. CASE JobStep
  BY <1>5 DEF JobStep, JobEnd, StartFails, StartSucceeds, RequestPassword, FailAuthentication,
              RequestTimesOut, JobFinishes
<1>6. CASE TrustKey \/ TrustStep
  BY <1>6 DEF TrustKey, ReviewTrust, AbandonTrust, StartTrust, TrustStep, DropStaleTrust,
              TrustWhileQuitting, DetailsArrive, TrustFails, TrustSucceeds, TakeTrust, NormalKey,
              KeyboardOpen
<1>7. CASE \E t \in Terms : Resize(t)
  BY <1>7 DEF Resize
<1>8. CASE Interrupt \/ Terminate \/ QuitKey
  BY <1>8 DEF Interrupt, Terminate, QuitKey, BeginQuit
<1> QED BY <1>1, <1>2, <1>3, <1>4, <1>5, <1>6, <1>7, <1>8 DEF Next, Terminated

(* The program ends only through finishQuit.                               *)
LEMMA WhoExits == ASSUME [Next]_vars, exited' # exited PROVE \E code : FinishQuit(code)
<1> SUFFICES ASSUME \A code : ~FinishQuit(code) PROVE exited' = exited
  OBVIOUS
<1>1. CASE InventoryKey
  BY <1>1 DEF InventoryKey, Browse, StatusKey, Reorder, EnterSearch, SearchKey, SwitchKind, Refresh
<1>2. CASE SizesStep \/ InfoCompleted
  BY <1>2 DEF SizesStep, SizesSuperseded, SizesWhileQuitting, SizesFailed, SizesMeasured,
              InfoCompleted
<1>3. CASE LoadStep
  BY <1>3 DEF LoadStep, LoadWhileQuitting, LoadCancelled, LoadFailed, LoadSucceeded
<1>4. CASE OperationKey
  BY <1>4 DEF OperationKey, ConfirmOperation, ConfirmUpgradeAll, DismissConfirmation,
              EnqueueConfirmed, StartConfirmed, StartBatch, EditPassword, SubmitPassword,
              EscapePassword
<1>5. CASE JobMessage
  BY <1>5 DEF JobMessage, JobStarted, JobStartFailed, IgnoreEvent, RejectRequest, OpenPassword,
              ResultStep, ResultWhileQuitting, ResultCleanupFailed, ResultFailed,
              ResultSelfUninstalled, ResultQueueUnsafe, ResultStartsNext, ResultReloads, EnterQuit
<1>6. CASE JobStep
  <2>1. UIUntouched
    BY <1>6 DEF JobStep, JobEnd, StartFails, StartSucceeds, RequestPassword, FailAuthentication,
                RequestTimesOut, JobFinishes
  <2> QED BY <2>1 DEF UIUntouched
<1>7. CASE TrustKey \/ TrustStep
  BY <1>7 DEF TrustKey, ReviewTrust, AbandonTrust, StartTrust, TrustStep, DropStaleTrust,
              TrustWhileQuitting, DetailsArrive, TrustFails, TrustSucceeds
<1>8. CASE \E t \in Terms : Resize(t)
  BY <1>8 DEF Resize, quitVars
<1>9. CASE Interrupt \/ Terminate \/ QuitKey
  BY <1>9 DEF Interrupt, Terminate, QuitKey, BeginQuit, EnterQuit
<1>10. CASE UNCHANGED vars
  BY <1>10 DEF vars, quitVars
<1> QED BY <1>1, <1>2, <1>3, <1>4, <1>5, <1>6, <1>7, <1>8, <1>9, <1>10 DEF Next, Terminated

LEMMA NextKeepsExit ==
  ASSUME ExitedIsSettled, CleanupFailureReported, [Next]_vars
  PROVE  ExitedIsSettled' /\ CleanupFailureReported'
<1>1. CASE exited
  <2>1. /\ UNCHANGED <<mode, loading, infoPending, sizesPending, startPending, jobPending>>
        /\ UNCHANGED <<trustPending, exited, quitExitCode, cleanupErr>>
    BY <1>1, ExitedIsFinal DEF vars, screenVars, loadVars, sizeVars, holdVars, trustVars, quitVars,
                               jobVars
  <2> QED BY <2>1 DEF ExitedIsSettled, CleanupFailureReported, Settled
<1>2. CASE ~exited /\ exited'
  <2>1. PICK code : FinishQuit(code)
    BY <1>2, WhoExits
  <2> QED BY <1>2, <2>1 DEF FinishQuit, ExitedIsSettled, CleanupFailureReported
<1>3. CASE ~exited'
  BY <1>3 DEF ExitedIsSettled, CleanupFailureReported
<1> QED BY <1>1, <1>2, <1>3

----------------------------------------------------------------------------
(* What a step does to the review: nothing, one of its own steps, or the   *)
(* end of it.                                                              *)
ReviewEnds ==
  /\ trusts' = Superseded(trusts) /\ trustPending' = FALSE /\ trusting' = FALSE
  /\ trustPackage' = NoPkg /\ mode' = "normal"
TrustOnly == ReviewTrust \/ StartTrust \/ TrustStep

LEMMA TrustSteps == ASSUME [Next]_vars PROVE UNCHANGED trustVars \/ ReviewEnds \/ TrustOnly
<1>1. CASE InventoryKey \/ SizesStep \/ InfoCompleted
  <2>1. RestUntouched
    BY <1>1 DEF InventoryKey, Browse, StatusKey, Reorder, EnterSearch, SearchKey, SwitchKind,
                Refresh, SizesStep, SizesSuperseded, SizesWhileQuitting, SizesFailed,
                SizesMeasured, InfoCompleted
  <2> QED BY <2>1 DEF RestUntouched
<1>2. CASE LoadStep
  BY <1>2 DEF LoadStep, LoadWhileQuitting, LoadCancelled, LoadFailed, LoadSucceeded, RestUntouched
<1>3. CASE OperationKey
  <2>1. OthersUntouched
    BY <1>3 DEF OperationKey, ConfirmOperation, ConfirmUpgradeAll, DismissConfirmation,
                EnqueueConfirmed, StartConfirmed, StartBatch, EditPassword, SubmitPassword,
                EscapePassword
  <2> QED BY <2>1 DEF OthersUntouched
<1>4. CASE JobMessage
  <2>1. OthersUntouched \/ TakeResult
    BY <1>4 DEF JobMessage, JobStarted, JobStartFailed, IgnoreEvent, RejectRequest, OpenPassword,
                ResultStep, ResultWhileQuitting, ResultCleanupFailed, ResultFailed,
                ResultSelfUninstalled, ResultQueueUnsafe, ResultStartsNext, ResultReloads,
                TakeSuccess
  <2> QED BY <2>1 DEF OthersUntouched, TakeResult
<1>5. CASE JobStep
  <2>1. UIUntouched
    BY <1>5 DEF JobStep, JobEnd, StartFails, StartSucceeds, RequestPassword, FailAuthentication,
                RequestTimesOut, JobFinishes
  <2> QED BY <2>1 DEF UIUntouched, OthersUntouched
<1>6. CASE TrustKey \/ TrustStep
  BY <1>6 DEF TrustKey, AbandonTrust, CancelTrust, ReviewEnds, TrustOnly
<1>7. CASE \E t \in Terms : Resize(t)
  BY <1>7 DEF Resize, CancelTrust, ReviewEnds
<1>8. CASE Interrupt \/ Terminate \/ QuitKey
  BY <1>8 DEF Interrupt, Terminate, QuitKey, BeginQuit
<1>9. CASE UNCHANGED vars
  BY <1>9 DEF vars, trustVars
<1> QED BY <1>1, <1>2, <1>3, <1>4, <1>5, <1>6, <1>7, <1>8, <1>9 DEF Next, Terminated

(* A command that is superseded is no longer current.                      *)
LEMMA SupersededIsStale ==
  ASSUME NEW commands \in SUBSET TrustCommand
  PROVE  \A c \in Superseded(commands) : ~c.current
BY DEF Superseded, TrustCommand

LEMMA LaunchMatches ==
  ASSUME TypeOK, NEW what \in {"details", "trust"}, NEW p \in Pkgs, Launch(what, p, trusts),
         trustPackage' = p, what = "trust" => trustLoaded', trustPending' = TRUE
  PROVE  TrustMatches'
<1> DEFINE new == [what |-> what, pkg |-> p, current |-> TRUE]
<1>1. new.what = what /\ new.pkg = p /\ new.current
  OBVIOUS
<1>2. trusts' = Superseded(trusts) \cup {new}
  BY DEF Launch
<1>3. \A c \in Superseded(trusts) : ~c.current
  BY SupersededIsStale DEF TypeOK, TrustType
<1> HIDE DEF new
<1> QED BY <1>1, <1>2, <1>3 DEF TrustMatches

LEMMA NextKeepsTrust == ASSUME IInv, TrustMatches, [Next]_vars PROVE TrustMatches'
<1> USE DEF IInv
<1>1. CASE UNCHANGED trustVars
  BY <1>1 DEF trustVars, TrustMatches
<1>2. CASE ReviewEnds
  BY <1>2, SupersededIsStale DEF ReviewEnds, TypeOK, TrustType, TrustMatches
<1>3. CASE ReviewTrust
  <2> PICK r \in rows :
        IF TrustReviewFits(term, FALSE)
        THEN /\ mode' = "trust" /\ claim' = NoClaim
             /\ trustPackage' = r.name
             /\ trustLoaded' = FALSE /\ trustErr' = FALSE /\ trusting' = FALSE
             /\ trustPending' = TRUE
             /\ Launch("details", r.name, trusts)
        ELSE CancelTrust(trusts)
    BY <1>3 DEF ReviewTrust
  <2>1. r.name \in Pkgs
    BY RowNames
  <2>2. CASE TrustReviewFits(term, FALSE)
    BY <2>1, <2>2, LaunchMatches
  <2>3. CASE CancelTrust(trusts)
    BY <2>3, SupersededIsStale DEF CancelTrust, TypeOK, TrustType, TrustMatches
  <2> QED BY <2>2, <2>3
<1>4. CASE StartTrust
  <2>1. /\ trustPackage \in Pkgs /\ trustPackage' = trustPackage
        /\ trustLoaded /\ trustLoaded' = trustLoaded
        /\ trustPending' = TRUE /\ Launch("trust", trustPackage, trusts)
    BY <1>4 DEF StartTrust, TypeOK, TrustType, OptPkg
  <2> QED BY <2>1, LaunchMatches
<1>5. CASE DropStaleTrust
  <2>1. PICK c \in trusts : ~c.current /\ trusts' = trusts \ {c}
    BY <1>5 DEF DropStaleTrust
  <2>2. UNCHANGED <<trustPackage, trustLoaded, trustPending>>
    BY <1>5 DEF DropStaleTrust
  <2> QED BY <2>1, <2>2 DEF TrustMatches
<1>6. ASSUME NEW c \in trusts, c.current, trusts' = trusts \ {c}, trustPending' = FALSE
      PROVE  TrustMatches'
  BY <1>6 DEF TrustMatches
<1>7. ASSUME NEW c \in trusts, NEW ok, TrustWhileQuitting(c, ok) \/ DetailsArrive(c, ok)
      PROVE  TrustMatches'
  <2>1. c.current
    BY <1>7 DEF TrustWhileQuitting, DetailsArrive, TakeTrust
  <2>2. CASE trusts' = trusts \ {c} /\ trustPending' = FALSE
    BY <1>6, <2>1, <2>2
  <2>3. CASE CancelTrust(trusts \ {c})
    BY <2>3, SupersededIsStale DEF CancelTrust, TypeOK, TrustType, TrustMatches
  <2> QED BY <1>7, <2>2, <2>3 DEF TrustWhileQuitting, DetailsArrive
<1>8. ASSUME NEW c \in trusts, TrustFails(c) \/ TrustSucceeds(c) PROVE TrustMatches'
  BY <1>6, <1>8 DEF TrustFails, TrustSucceeds, TakeTrust
<1> QED BY <1>1, <1>2, <1>3, <1>4, <1>5, <1>7, <1>8, TrustSteps DEF TrustOnly, TrustStep

----------------------------------------------------------------------------
LEMMA InitExit == Init => ExitInv
<1> SUFFICES ASSUME NEW s \in Snapshots, InitFrom(Seed(s)) PROVE ExitInv
  BY DEF Init
<1> QED BY DEF InitFrom, ExitInv, SizesFollow, TrustMatches, ExitedIsSettled, CleanupFailureReported

(* The size pass and the trust command the model waits for are the ones in *)
(* flight, and what exited had settled: inductive in any session           *)
(* (startSizes, startTrust, finishQuit).                                   *)
THEOREM ExitInvariant == Spec => []ExitInv
<1>1. IInv /\ ExitInv /\ [Next]_vars => ExitInv'
  <2>1. ASSUME IInv, ExitInv, [Next]_vars PROVE ExitInv'
    BY <2>1, NextKeepsSizes, NextKeepsTrust, NextKeepsExit DEF ExitInv
  <2> QED BY <2>1
<1> QED BY <1>1, InitExit, SessionInvariant, PTL DEF Spec

(* When the program ends no job, list, size pass, info lookup or current   *)
(* trust command is left behind (finishQuit's condition, read as the       *)
(* processes it stands for).                                               *)
THEOREM QuitLeavesNothingBehind == Spec => []QuitLeavesNothing
<1>1. IInv /\ ExitInv => QuitLeavesNothing
  <2> SUFFICES ASSUME IInv, ExitInv, exited PROVE QuitLeavesNothing
    BY DEF QuitLeavesNothing
  <2>1. Settled
    BY DEF ExitInv, ExitedIsSettled
  <2>2. jobPhase = "idle" /\ startMsg = "none"
    BY <2>1 DEF Settled, IInv, TypeOK, JobType, Lifecycle, HandlesFollowJob
  <2>3. lists = {}
    BY <2>1, NoLoadNoLists DEF Settled
  <2>4. "current" \notin sizes /\ ~infoPending /\ \A c \in trusts : ~c.current
    BY <2>1 DEF Settled, ExitInv, SizesFollow, TrustMatches
  <2> QED BY <2>2, <2>3, <2>4 DEF QuitLeavesNothing
<1> QED BY <1>1, ExitInvariant, SessionInvariant, PTL

(* A failed cleanup ends in exit code 1, whatever signal, key or result    *)
(* asked for the quit and in whichever order (finishQuit).                 *)
THEOREM CleanupFailuresAreReported == Spec => []CleanupFailureReported
<1>1. ExitInv => CleanupFailureReported
  BY DEF ExitInv
<1> QED BY <1>1, ExitInvariant, PTL

----------------------------------------------------------------------------
(* What a step does to the pane, to retention and to the snapshot file.    *)
paneState == <<kind, rows, cached, listCache, sizesKnown, disk>>
ShowsRetained ==
  /\ kind \in cached /\ rows' = listCache[kind]
  /\ UNCHANGED <<kind, cached, listCache, sizesKnown, disk>>
Drops == InvalidateCaches /\ UNCHANGED <<kind, rows, disk>> /\ loading' = TRUE
Fails == \E c \in lists : LoadFailed(c)
Loads == \E c \in lists : LoadSucceeded(c)
Trusts == \E c \in trusts : TrustSucceeds(c)

LEMMA PaneSteps ==
  ASSUME [Next]_vars
  PROVE  \/ UNCHANGED paneState
         \/ ShowsRetained \/ SwitchKind \/ Drops \/ Fails \/ Loads \/ Trusts \/ SizesMeasured
<1>1. CASE InventoryKey
  <2>1. CASE Browse \/ StatusKey \/ EnterSearch
    BY <2>1 DEF Browse, StatusKey, EnterSearch, LoadUntouched, paneState
  <2>2. CASE Reorder
    BY <2>2 DEF Reorder, LoadUntouched, ShowsRetained
  <2>3. CASE SearchKey
    BY <2>3 DEF SearchKey, ApplyQuery, LoadUntouched, ShowsRetained, paneState
  <2>4. CASE Refresh
    BY <2>4 DEF Refresh, StartLoad, Drops
  <2> QED BY <1>1, <2>1, <2>2, <2>3, <2>4 DEF InventoryKey
<1>2. CASE SizesStep \/ InfoCompleted
  BY <1>2 DEF SizesStep, SizesSuperseded, SizesWhileQuitting, SizesFailed, InfoCompleted,
              LoadUntouched, paneState
<1>3. CASE LoadStep
  BY <1>3 DEF LoadStep, LoadWhileQuitting, LoadCancelled, ViewUntouched, Fails, Loads, paneState
<1>4. CASE OperationKey
  <2>1. InventoryUntouched
    BY <1>4 DEF OperationKey, ConfirmOperation, ConfirmUpgradeAll, DismissConfirmation,
                EnqueueConfirmed, StartConfirmed, StartBatch, EditPassword, SubmitPassword,
                EscapePassword
  <2> QED BY <2>1 DEF InventoryUntouched, viewVars, paneState
<1>5. CASE JobMessage \/ JobStep
  <2>1. InventoryUntouched \/ ResultReloads
    BY <1>5 DEF JobMessage, JobStarted, JobStartFailed, IgnoreEvent, RejectRequest, OpenPassword,
                ResultStep, ResultWhileQuitting, ResultCleanupFailed, ResultFailed,
                ResultSelfUninstalled, ResultQueueUnsafe, ResultStartsNext, JobStep, JobEnd,
                StartFails, StartSucceeds, RequestPassword, FailAuthentication, RequestTimesOut,
                JobFinishes, UIUntouched
  <2> QED BY <2>1 DEF InventoryUntouched, viewVars, paneState, ResultReloads, StartLoad, Drops
<1>6. CASE TrustKey \/ TrustStep
  <2>1. (RowsUntouched \/ Trusts) /\ OutsideUntouched
    BY <1>6 DEF TrustKey, ReviewTrust, AbandonTrust, StartTrust, TrustStep, DropStaleTrust,
                TrustWhileQuitting, DetailsArrive, TrustFails, TrustSucceeds, Trusts
  <2> QED BY <2>1 DEF RowsUntouched, OutsideUntouched, viewVars, paneState
<1>7. CASE \E t \in Terms : Resize(t)
  BY <1>7 DEF Resize, viewVars, paneState
<1>8. CASE Interrupt \/ Terminate \/ QuitKey
  BY <1>8 DEF Interrupt, Terminate, QuitKey, BeginQuit, viewVars, paneState
<1>9. CASE UNCHANGED vars
  BY <1>9 DEF vars, screenVars, viewVars, paneState
<1> QED BY <1>1, <1>2, <1>3, <1>4, <1>5, <1>6, <1>7, <1>8, <1>9 DEF Next, Terminated

LEMMA PersistKeepsSnapshot == PersistSnapshot => SnapshotFollows'
BY DEF PersistSnapshot, SnapshotFollows

(* The snapshot file always holds what is retained: every handler that     *)
(* retains or edits a list writes the file, and invalidateCaches retains   *)
(* nothing (persistSnapshot's callers).                                    *)
THEOREM SnapshotIsRetained == Spec => []SnapshotFollows
<1>1. Init => SnapshotFollows
  BY DEF Init, InitFrom, Seed, NoSnapshot, SnapshotFollows
<1>2. SnapshotFollows /\ [Next]_vars => SnapshotFollows'
  <2> SUFFICES ASSUME SnapshotFollows, [Next]_vars PROVE SnapshotFollows'
    OBVIOUS
  <2>1. CASE UNCHANGED paneState \/ ShowsRetained \/ SwitchKind
    BY <2>1 DEF paneState, ShowsRetained, SwitchKind, SnapshotFollows
  <2>2. CASE Drops
    BY <2>2 DEF Drops, InvalidateCaches, SnapshotFollows
  <2>3. CASE Fails
    BY <2>3 DEF Fails, LoadFailed, SnapshotFollows
  <2>4. CASE Loads \/ Trusts \/ SizesMeasured
    BY <2>4, PersistKeepsSnapshot DEF Loads, Trusts, LoadSucceeded, TrustSucceeds, SizesMeasured
  <2> QED BY <2>1, <2>2, <2>3, <2>4, PaneSteps
<1> QED BY <1>1, <1>2, PTL DEF Spec

----------------------------------------------------------------------------
(* The mode against the run.  What every terminal keeps of ModeMatchesRun, *)
(* and that a review is of a package, under no run and no load.            *)
RunIsShown == mode \in {"operation", "password"} => JobRunning
PasswordHasJob == mode = "password" => jobHeld
ReviewIsOfPane == mode = "trust" => trustPackage # NoPkg /\ ~JobRunning /\ ~loading
ModeInv == RunIsShown /\ PasswordHasJob /\ ReviewIsOfPane

(* What a step does to the mode: it keeps it and what it is about, leaves  *)
(* for one that claims nothing, or enters one of the three that do.        *)
KeepsMode ==
  /\ UNCHANGED <<mode, operation, trustPackage>>
  /\ jobHeld => jobHeld'
  /\ loading' => loading
LeavesMode == mode' \in {"normal", "search", "confirm", "quitting"}
ShowsRun == mode' = "operation" /\ JobRunning'

LEMMA ModeSteps ==
  ASSUME RunInv, ModeInv, [Next]_vars
  PROVE  KeepsMode \/ LeavesMode \/ ShowsRun \/ OpenPassword \/ ReviewTrust
<1>1. CASE InventoryKey \/ SizesStep \/ InfoCompleted
  <2>1. OperationUntouched /\ RestUntouched
    BY <1>1 DEF InventoryKey, Browse, StatusKey, Reorder, EnterSearch, SearchKey, SwitchKind,
                Refresh, SizesStep, SizesSuperseded, SizesWhileQuitting, SizesFailed,
                SizesMeasured, InfoCompleted
  <2>2. UNCHANGED <<operation, trustPackage, jobHeld>>
    BY <2>1 DEF OperationUntouched, RestUntouched, runVars, holdVars, trustVars
  <2>3. CASE EnterSearch \/ SearchKey \/ SwitchKind
    BY <2>3 DEF EnterSearch, SearchKey, SwitchKind, LeavesMode
  <2>4. CASE Refresh
    BY <2>4 DEF Refresh, NormalKey, LeavesMode, ModeInv, RunIsShown
  <2>5. CASE Browse \/ StatusKey \/ Reorder \/ SizesStep \/ InfoCompleted
    BY <2>2, <2>5 DEF Browse, StatusKey, Reorder, SizesStep, SizesSuperseded, SizesWhileQuitting,
                SizesFailed, SizesMeasured, InfoCompleted, LoadUntouched, loadVars, KeepsMode
  <2> QED BY <1>1, <2>3, <2>4, <2>5 DEF InventoryKey
<1>2. CASE LoadStep
  <2> PICK c \in lists :
        LoadWhileQuitting(c) \/ LoadCancelled(c) \/ LoadFailed(c) \/ LoadSucceeded(c)
    BY <1>2 DEF LoadStep
  <2>1. CASE LoadWhileQuitting(c) \/ LoadCancelled(c) \/ LoadSucceeded(c)
    BY <2>1 DEF LoadWhileQuitting, LoadCancelled, LoadSucceeded, FinishOperation, LeavesMode
  <2>2. CASE LoadFailed(c)
    BY <2>2 DEF LoadFailed, TakeLoad, FinishOperation, JobUntouched, holdVars, trustVars,
                KeepsMode, LeavesMode
  <2> QED BY <2>1, <2>2
<1>3. CASE OperationKey
  <2>1. CASE DismissConfirmation
    BY <2>1 DEF DismissConfirmation, Resume, ShowsRun, LeavesMode, JobRunning, runVars
  <2>2. CASE ConfirmOperation("uninstall") \/ ConfirmOperation("upgrade") \/ ConfirmUpgradeAll
             \/ EditPassword
    BY <2>2 DEF ConfirmOperation, ConfirmUpgradeAll, EditPassword, InventoryUntouched,
                OthersUntouched, loadVars, trustVars, runVars, holdVars, KeepsMode, LeavesMode
  <2>3. CASE EnqueueConfirmed \/ SubmitPassword \/ EscapePassword
    BY <2>3 DEF EnqueueConfirmed, SubmitPassword, EscapePassword, ModeInv, RunIsShown,
                JobRunning, ShowsRun
  <2>4. CASE StartConfirmed
    BY <2>4 DEF StartConfirmed, StartUninstall, Confirmed, ShowsRun, JobRunning
  <2>5. CASE StartBatch
    <3>1. operation' = batchConfirmation[1] /\ mode' = "operation" /\ batchConfirmation # <<>>
      BY <2>5 DEF StartBatch, StartUninstall, UpgradeAllFits
    <3>2. batchConfirmation[1] \in Pkgs
      BY <3>1, LenProperties, ElementOfSeq DEF RunInv, IInv, TypeOK, DialogType
    <3> QED BY <3>1, <3>2, PkgsAssumption DEF PkgsAssumption, ShowsRun, JobRunning
  <2> QED BY <1>3, <2>1, <2>2, <2>3, <2>4, <2>5 DEF OperationKey
<1>4. CASE JobMessage
  <2>1. CASE JobStarted \/ IgnoreEvent
    BY <2>1 DEF JobStarted, IgnoreEvent, InventoryUntouched, OthersUntouched, loadVars, trustVars,
                runVars, holdVars, KeepsMode
  <2>2. CASE JobStartFailed
    BY <2>2 DEF JobStartFailed, LeavesMode
  <2>3. CASE RejectRequest
    BY <2>3 DEF RejectRequest, InventoryUntouched, OthersUntouched, loadVars, trustVars, runVars,
                holdVars, KeepsMode, ShowsRun, ModeInv, RunIsShown, JobRunning
  <2>4. CASE ResultWhileQuitting \/ ResultCleanupFailed \/ ResultFailed \/ ResultSelfUninstalled
             \/ ResultQueueUnsafe
    BY <2>4 DEF ResultWhileQuitting, ResultCleanupFailed, ResultFailed, ResultSelfUninstalled,
                ResultQueueUnsafe, EnterQuit, FinishOperation, LeavesMode
  <2>5. CASE ResultStartsNext
    <3>1. operation' = Head(queue).pkg /\ mode' = "operation" /\ queue # <<>>
      BY <2>5 DEF ResultStartsNext, StartUninstall
    <3>2. Head(queue) \in Entry
      BY <3>1, HeadTailProperties DEF RunInv, IInv, TypeOK, RunType
    <3> QED BY <3>1, <3>2, PkgsAssumption DEF PkgsAssumption, Entry, ShowsRun, JobRunning
  <2>6. CASE ResultReloads
    BY <2>6 DEF ResultReloads, TakeSuccess, TakeResult, runVars, RunInv, IInv, Lifecycle,
                JobHasOperation, JobRunning, ShowsRun
  <2> QED BY <1>4, <2>1, <2>2, <2>3, <2>4, <2>5, <2>6 DEF JobMessage, ResultStep
<1>5. CASE JobStep
  <2>1. UIUntouched
    BY <1>5 DEF JobStep, JobEnd, StartFails, StartSucceeds, RequestPassword, FailAuthentication,
                RequestTimesOut, JobFinishes
  <2> QED BY <2>1 DEF UIUntouched, InventoryUntouched, OthersUntouched, loadVars, trustVars,
                      runVars, holdVars, KeepsMode
<1>6. CASE TrustKey \/ TrustStep
  <2>1. OutsideUntouched
    BY <1>6 DEF TrustKey, ReviewTrust, AbandonTrust, StartTrust, TrustStep, DropStaleTrust,
                TrustWhileQuitting, DetailsArrive, TrustFails, TrustSucceeds
  <2>2. ReviewTrust \/ mode' = "normal" \/ UNCHANGED <<mode, trustPackage>>
    BY <1>6 DEF TrustKey, AbandonTrust, StartTrust, TrustStep, DropStaleTrust,
                TrustWhileQuitting, DetailsArrive, TrustFails, TrustSucceeds, CancelTrust
  <2> QED BY <2>1, <2>2 DEF OutsideUntouched, loadVars, runVars, holdVars, KeepsMode, LeavesMode
<1>7. ASSUME NEW t \in Terms, Resize(t) PROVE KeepsMode \/ LeavesMode \/ ShowsRun
  <2>1. UNCHANGED <<operation, jobHeld, loading>>
    BY <1>7 DEF Resize, holdVars, loadVars
  <2>2. CASE mode' = mode
    BY <1>7, <2>1, <2>2 DEF Resize, TrustGone, CancelTrust, trustVars, KeepsMode, LeavesMode
  <2>3. CASE mode' = "operation"
    BY <1>7, <2>1, <2>2, <2>3
       DEF Resize, TrustGone, CancelTrust, ResizedMode, OperationGone, Resume, JobRunning, ShowsRun
  <2>4. CASE mode' # mode /\ mode' # "operation"
    BY <1>7, <2>4 DEF Resize, TrustGone, CancelTrust, ResizedMode, Resume, LeavesMode
  <2> QED BY <2>2, <2>3, <2>4
<1>8. ASSUME NEW code, BeginQuit(code) PROVE LeavesMode
  BY <1>8 DEF BeginQuit, EnterQuit, LeavesMode
<1>9. CASE UNCHANGED vars
  BY <1>9 DEF vars, screenVars, loadVars, trustVars, runVars, holdVars, KeepsMode
<1> QED BY <1>1, <1>2, <1>3, <1>4, <1>5, <1>6, <1>7, <1>8, <1>9
        DEF Next, Interrupt, Terminate, QuitKey, Terminated

LEMMA NextKeepsMode == ASSUME RunInv, ModeInv, [Next]_vars PROVE ModeInv'
<1> USE DEF ModeInv
<1>1. CASE KeepsMode
  BY <1>1 DEF KeepsMode, RunIsShown, PasswordHasJob, ReviewIsOfPane, JobRunning
<1>2. CASE LeavesMode
  BY <1>2 DEF LeavesMode, RunIsShown, PasswordHasJob, ReviewIsOfPane
<1>3. CASE ShowsRun
  BY <1>3 DEF ShowsRun, RunIsShown, PasswordHasJob, ReviewIsOfPane
<1>4. CASE OpenPassword
  <2>1. /\ mode' = "password" /\ jobHeld /\ UNCHANGED <<jobHeld, operation>>
    BY <1>4 DEF OpenPassword, EventIgnored, holdVars, runVars
  <2>2. JobRunning
    BY <2>1 DEF RunInv, IInv, Lifecycle, HandlesFollowJob, JobHasOperation
  <2> QED BY <2>1, <2>2 DEF RunIsShown, PasswordHasJob, ReviewIsOfPane, JobRunning
<1>5. CASE ReviewTrust
  <2>1. ~JobRunning /\ ~loading /\ UNCHANGED <<operation, loading>>
    BY <1>5 DEF ReviewTrust, NormalKey, KeyboardOpen, OutsideUntouched, runVars, loadVars
  <2>2. mode' = "normal" \/ (mode' = "trust" /\ \E r \in rows : trustPackage' = r.name)
    BY <1>5 DEF ReviewTrust, CancelTrust
  <2> QED BY <2>1, <2>2, RowNames, PkgsAssumption
          DEF PkgsAssumption, RunInv, IInv, RunIsShown, PasswordHasJob, ReviewIsOfPane, JobRunning
<1> QED BY <1>1, <1>2, <1>3, <1>4, <1>5, ModeSteps

(* A run on screen runs, a password dialog has a job that can take the     *)
(* answer, and a review is of a package, over a pane nothing changes       *)
(* (jobRunning's guards; handleJobEvent; reviewTrust).                     *)
THEOREM ModeInvariant == Spec => []ModeInv
<1>1. Init => ModeInv
  BY DEF Init, InitFrom, ModeInv, RunIsShown, PasswordHasJob, ReviewIsOfPane
<1>2. RunInv /\ ModeInv /\ [Next]_vars => ModeInv'
  BY NextKeepsMode
<1> QED BY <1>1, <1>2, RunInvariant, PTL DEF Spec

----------------------------------------------------------------------------
(* The pane against what is retained.                                      *)
(*                                                                         *)
(* No snapshot file is read: a first session, or one whose earlier         *)
(* sessions retained nothing.  With one, a startup load that fails empties *)
(* the pane over the list of the snapshot, which stays retained.           *)
FirstSession == \A s \in Snapshots : Persist => s.kinds = {}

(* What is not retained has no list, and what loads is not retained yet.   *)
UnretainedIsEmpty == \A k \in Kinds \ cached : listCache[k] = {}
LoadingIsUnretained == loading /\ kind \in cached => listCache[kind] = {}
PaneInv == PaneShowsRetained /\ UnretainedIsEmpty /\ LoadingIsUnretained

LEMMA SeedOfFirstSession == ASSUME FirstSession, NEW s \in Snapshots PROVE Seed(s) = NoSnapshot
BY DEF FirstSession, Seed

(* A pass, a key or a load that leaves the pane alone leaves loading alone,*)
(* or ends it; only the two that drop what is retained start one.          *)
LEMMA LoadingSteps ==
  ASSUME [Next]_vars PROVE (loading' => loading) \/ Drops \/ SwitchKind
<1>1. CASE InventoryKey \/ SizesStep \/ InfoCompleted
  BY <1>1 DEF InventoryKey, Browse, StatusKey, Reorder, EnterSearch, SearchKey, Refresh,
              StartLoad, Drops, SizesStep, SizesSuperseded, SizesWhileQuitting, SizesFailed,
              SizesMeasured, InfoCompleted, LoadUntouched, loadVars
<1>2. CASE LoadStep
  BY <1>2 DEF LoadStep, LoadWhileQuitting, LoadCancelled, LoadFailed, LoadSucceeded, TakeLoad
<1>3. CASE OperationKey
  <2>1. InventoryUntouched
    BY <1>3 DEF OperationKey, ConfirmOperation, ConfirmUpgradeAll, DismissConfirmation,
                EnqueueConfirmed, StartConfirmed, StartBatch, EditPassword, SubmitPassword,
                EscapePassword
  <2> QED BY <2>1 DEF InventoryUntouched, loadVars
<1>4. CASE JobMessage \/ JobStep
  <2>1. InventoryUntouched \/ ResultReloads
    BY <1>4 DEF JobMessage, JobStarted, JobStartFailed, IgnoreEvent, RejectRequest, OpenPassword,
                ResultStep, ResultWhileQuitting, ResultCleanupFailed, ResultFailed,
                ResultSelfUninstalled, ResultQueueUnsafe, ResultStartsNext, JobStep, JobEnd,
                StartFails, StartSucceeds, RequestPassword, FailAuthentication, RequestTimesOut,
                JobFinishes, UIUntouched
  <2> QED BY <2>1 DEF InventoryUntouched, loadVars, ResultReloads, StartLoad, Drops
<1>5. CASE TrustKey \/ TrustStep
  <2>1. OutsideUntouched
    BY <1>5 DEF TrustKey, ReviewTrust, AbandonTrust, StartTrust, TrustStep, DropStaleTrust,
                TrustWhileQuitting, DetailsArrive, TrustFails, TrustSucceeds
  <2> QED BY <2>1 DEF OutsideUntouched, loadVars
<1>6. CASE \E t \in Terms : Resize(t)
  BY <1>6 DEF Resize, loadVars
<1>7. CASE Interrupt \/ Terminate \/ QuitKey
  BY <1>7 DEF Interrupt, Terminate, QuitKey, BeginQuit, loadVars
<1>8. CASE UNCHANGED vars
  BY <1>8 DEF vars, loadVars
<1> QED BY <1>1, <1>2, <1>3, <1>4, <1>5, <1>6, <1>7, <1>8 DEF Next, Terminated

LEMMA UnmarkNothing == \A p : Unmark({}, p) = {}
BY DEF Unmark

LEMMA NextKeepsPane == ASSUME RunInv, PaneInv, [Next]_vars PROVE PaneInv'
<1> USE DEF PaneInv, PaneShowsRetained, UnretainedIsEmpty, LoadingIsUnretained
<1>0. kind \in Kinds /\ listCache \in [Kinds -> SUBSET Row] /\ cached \subseteq Kinds
  BY DEF RunInv, IInv, TypeOK, ScreenType, ViewType
<1>1. CASE Drops
  BY <1>1 DEF Drops, InvalidateCaches, NoLists
<1>2. CASE SwitchKind
  <2>1. UNCHANGED <<cached, listCache>> /\ ~loading
    BY <1>2 DEF SwitchKind, KeyboardOpen
  <2>2. \/ kind' \in cached /\ rows' = listCache[kind'] /\ UNCHANGED loadVars
        \/ kind' \notin cached
    BY <1>2 DEF SwitchKind
  <2> QED BY <2>1, <2>2 DEF loadVars
<1>3. CASE Fails
  <2> PICK c \in lists : LoadFailed(c)
    BY <1>3 DEF Fails
  <2>1. loading /\ ~loading' /\ rows' = {} /\ UNCHANGED <<kind, cached, listCache>>
    BY NoLoadNoLists DEF LoadFailed, TakeLoad, RunInv
  <2> QED BY <2>1
<1>4. CASE Loads
  <2> PICK c \in lists : LoadSucceeded(c)
    BY <1>4 DEF Loads
  <2>1. c.kind = kind /\ kind' = kind /\ ~loading' /\ rows' = listCache'[c.kind]
    BY DEF LoadSucceeded, TakeLoad, RunInv, BatchInv, LoadOfScreen
  <2>2. PICK offers, marks : Retain(c, offers, marks)
    BY DEF LoadSucceeded
  <2>3. \A k \in Kinds \ cached' : k \in Kinds \ cached /\ listCache'[k] = listCache[k]
    BY <2>2 DEF Retain
  <2> QED BY <2>1, <2>3
<1>5. CASE Trusts
  <2> PICK c \in trusts : TrustSucceeds(c)
    BY <1>5 DEF Trusts
  <2> DEFINE k == KindOf[trustPackage]
  <2>1. /\ cached' = cached \cup {k}
        /\ listCache' = [listCache EXCEPT ![k] = Unmark(@, trustPackage)]
        /\ rows' = IF kind = k THEN listCache'[k] ELSE rows
        /\ kind' = kind /\ loading' = loading
    BY DEF TrustSucceeds, OutsideUntouched, loadVars
  <2> HIDE DEF k
  <2>2. \A j \in Kinds \ {k} : listCache'[j] = listCache[j]
    BY <1>0, <2>1
  <2>3. loading /\ kind = k => listCache'[k] = {}
    <3> SUFFICES ASSUME loading, kind = k PROVE listCache'[k] = {}
      OBVIOUS
    <3>1. listCache[k] = {}
      BY <1>0
    <3>2. listCache'[k] = Unmark(listCache[k], trustPackage)
      BY <1>0, <2>1
    <3> QED BY <3>1, <3>2, UnmarkNothing
  <2>4. CASE kind = k
    BY <2>1, <2>2, <2>3, <2>4
  <2>5. CASE kind # k
    BY <1>0, <2>1, <2>2, <2>5
  <2> QED BY <2>4, <2>5
<1>6. CASE UNCHANGED paneState \/ ShowsRetained \/ SizesMeasured
  <2>1. /\ UNCHANGED <<kind, cached, listCache>>
        /\ rows' = rows \/ (kind \in cached /\ rows' = listCache[kind])
    BY <1>6 DEF paneState, ShowsRetained, SizesMeasured
  <2>2. CASE loading' => loading
    BY <2>1, <2>2
  <2> QED BY <1>1, <1>2, <2>2, LoadingSteps
<1> QED BY <1>1, <1>2, <1>3, <1>4, <1>5, <1>6, PaneSteps

(* In a session that starts without a snapshot the pane shows the retained *)
(* list of the kind it names, whatever loads failed, were cancelled or     *)
(* were overtaken by a trust or a size pass (setPackages' callers).        *)
THEOREM PaneIsRetainedList == ASSUME FirstSession PROVE Spec => []PaneShowsRetained
<1>1. Init => PaneInv
  <2> SUFFICES ASSUME NEW s \in Snapshots, InitFrom(Seed(s)) PROVE PaneInv
    BY DEF Init
  <2>1. cached = {} /\ listCache = NoLists
    BY SeedOfFirstSession DEF InitFrom, NoSnapshot
  <2> QED BY <2>1 DEF NoLists, PaneInv, PaneShowsRetained, UnretainedIsEmpty, LoadingIsUnretained
<1>2. RunInv /\ PaneInv /\ [Next]_vars => PaneInv'
  BY NextKeepsPane
<1>3. PaneInv => PaneShowsRetained
  BY DEF PaneInv
<1> QED BY <1>1, <1>2, <1>3, RunInvariant, PTL DEF Spec

----------------------------------------------------------------------------
(* The mark of an untrusted package.                                       *)
(*                                                                         *)
(* A read of the untrusted packages that fails leaves its rows unmarked,   *)
(* and a snapshot shows the marks of an earlier world; so both are assumed *)
(* away here: every read answers, and no snapshot shows as trusted what    *)
(* Homebrew does not trust.                                                *)
ReadsAnswer == ~LossyReads
SnapshotsAreCautious ==
  \A s \in Snapshots : \A k \in Kinds : \A r \in Seed(s).lists[k] :
    ~r.untrusted => r.name \notin Untrusted0
MarksAreKept ==
  \A k \in Kinds : \A r \in listCache[k] : ~r.untrusted => r.name \notin untrusted

(* Trust is only ever granted: by the command that succeeds, or by one     *)
(* that was abandoned while it ran.                                        *)
LEMMA TrustOnlyGrows == ASSUME [Next]_vars PROVE untrusted' \subseteq untrusted
<1>1. CASE InventoryKey \/ SizesStep \/ InfoCompleted
  <2>1. RestUntouched
    BY <1>1 DEF InventoryKey, Browse, StatusKey, Reorder, EnterSearch, SearchKey, SwitchKind,
                Refresh, SizesStep, SizesSuperseded, SizesWhileQuitting, SizesFailed,
                SizesMeasured, InfoCompleted
  <2> QED BY <2>1 DEF RestUntouched, worldVars
<1>2. CASE LoadStep
  BY <1>2 DEF LoadStep, LoadWhileQuitting, LoadCancelled, LoadFailed, LoadSucceeded,
              RestUntouched, worldVars
<1>3. CASE OperationKey
  BY <1>3 DEF OperationKey, ConfirmOperation, ConfirmUpgradeAll, DismissConfirmation,
              EnqueueConfirmed, StartConfirmed, StartBatch, EditPassword, SubmitPassword,
              EscapePassword, worldVars
<1>4. CASE JobMessage
  BY <1>4 DEF JobMessage, JobStarted, JobStartFailed, IgnoreEvent, RejectRequest, OpenPassword,
              ResultStep, ResultWhileQuitting, ResultCleanupFailed, ResultFailed,
              ResultSelfUninstalled, ResultQueueUnsafe, ResultStartsNext, ResultReloads,
              TakeSuccess, TakeResult, worldVars
<1>5. CASE JobStep
  BY <1>5 DEF JobStep, JobEnd, StartFails, StartSucceeds, RequestPassword, FailAuthentication,
              RequestTimesOut, JobFinishes, worldVars
<1>6. CASE TrustKey \/ TrustStep
  BY <1>6 DEF TrustKey, ReviewTrust, AbandonTrust, StartTrust, TrustStep, DropStaleTrust,
              TrustWhileQuitting, DetailsArrive, TrustFails, TrustSucceeds, TakeTrust, TrustOutcome
<1>7. CASE \E t \in Terms : Resize(t)
  BY <1>7 DEF Resize, worldVars
<1>8. CASE Interrupt \/ Terminate \/ QuitKey
  BY <1>8 DEF Interrupt, Terminate, QuitKey, BeginQuit, worldVars
<1>9. CASE UNCHANGED vars
  BY <1>9 DEF vars, worldVars
<1> QED BY <1>1, <1>2, <1>3, <1>4, <1>5, <1>6, <1>7, <1>8, <1>9 DEF Next, Terminated

(* An unmarked row of an edited list is one of the list before, or of the  *)
(* package whose mark was taken off.                                       *)
LEMMA UnmarkedRows ==
  ASSUME NEW list \in SUBSET Row, NEW p, NEW r \in Unmark(list, p)
  PROVE  /\ r \in list \/ r.name = p
         /\ \E q \in list : q.name = r.name
<1> PICK q \in list : r = IF q.name = p THEN [q EXCEPT !.untrusted = FALSE] ELSE q
  BY DEF Unmark
<1>1. r.name = q.name
  BY DEF Row
<1> QED BY <1>1

LEMMA NextKeepsMarks ==
  ASSUME ReadsAnswer, IInv, TrustMatches, MarksAreKept, [Next]_vars PROVE MarksAreKept'
<1>0. listCache \in [Kinds -> SUBSET Row]
  BY DEF IInv, TypeOK, ViewType
<1>1. CASE UNCHANGED listCache
  BY <1>1, TrustOnlyGrows DEF MarksAreKept
<1>2. CASE Drops
  BY <1>2 DEF Drops, InvalidateCaches, NoLists, MarksAreKept
<1>3. CASE Loads
  <2> PICK c \in lists : LoadSucceeded(c)
    BY <1>3 DEF Loads
  <2>1. PICK offers \in Reads(outdated), marks \in Reads(untrusted) : Retain(c, offers, marks)
    BY DEF LoadSucceeded
  <2>2. marks = untrusted
    BY <2>1 DEF Reads, ReadsAnswer
  <2> SUFFICES ASSUME NEW k \in Kinds, NEW r \in listCache'[k], ~r.untrusted
               PROVE  r.name \notin untrusted'
    BY DEF MarksAreKept
  <2>3. listCache'[k] = Listing(k, offers, untrusted) \/ listCache'[k] = listCache[k]
    BY <2>1, <2>2 DEF Retain
  <2>4. CASE r \in Listing(k, offers, untrusted)
    <3> PICK p \in installed :
          r = [name |-> p, offered |-> p \in offers, untrusted |-> p \in untrusted]
      BY <2>4 DEF Listing
    <3>1. r.name = p /\ (r.untrusted <=> p \in untrusted)
      OBVIOUS
    <3> QED BY <3>1, TrustOnlyGrows
  <2>5. CASE r \in listCache[k]
    BY <2>5, TrustOnlyGrows DEF MarksAreKept
  <2> QED BY <2>3, <2>4, <2>5
<1>4. CASE Trusts
  <2> PICK c \in trusts : TrustSucceeds(c)
    BY <1>4 DEF Trusts
  <2>1. untrusted' = untrusted \ {trustPackage}
    BY DEF TrustSucceeds, TakeTrust, TrustOutcome, TrustMatches
  <2> DEFINE j == KindOf[trustPackage]
  <2>2. listCache' = [listCache EXCEPT ![j] = Unmark(@, trustPackage)]
    BY DEF TrustSucceeds
  <2> HIDE DEF j
  <2> SUFFICES ASSUME NEW k \in Kinds, NEW r \in listCache'[k], ~r.untrusted
               PROVE  r.name \notin untrusted'
    BY DEF MarksAreKept
  <2>3. r \in listCache[k] \/ r \in Unmark(listCache[k], trustPackage)
    BY <1>0, <2>2
  <2>4. r \in listCache[k] \/ r.name = trustPackage
    BY <1>0, <2>3, UnmarkedRows
  <2> QED BY <2>1, <2>4 DEF MarksAreKept
<1> QED BY <1>1, <1>2, <1>3, <1>4, PaneSteps
        DEF paneState, ShowsRetained, SwitchKind, Fails, LoadFailed, SizesMeasured

(* No row that is shown is unmarked while Homebrew does not trust its      *)
(* package: the mark goes only with the success of `brew trust` for that   *)
(* very package, whatever was abandoned, resized or re-listed meanwhile    *)
(* (handleTrustResult's ID test and finishTrust).                          *)
THEOREM ShownTrustIsReal ==
  ASSUME ReadsAnswer, SnapshotsAreCautious PROVE Spec => []TrustedRowsAreTrusted
<1>1. Init => MarksAreKept
  BY DEF Init, InitFrom, SnapshotsAreCautious, MarksAreKept
<1>2. IInv /\ ExitInv /\ MarksAreKept /\ [Next]_vars => MarksAreKept'
  BY NextKeepsMarks DEF ExitInv
<1>3. IInv /\ MarksAreKept => TrustedRowsAreTrusted
  BY DEF IInv, TypeOK, ViewType, MarksAreKept, TrustedRowsAreTrusted
<1> QED BY <1>1, <1>2, <1>3, SessionInvariant, ExitInvariant, PTL DEF Spec

----------------------------------------------------------------------------
(* What only a resize can do.                                              *)

(* Only a resize takes a quit back: beginQuit's mode is left by no key and *)
(* no message.                                                             *)
LEMMA WhoUnquits ==
  ASSUME [Next]_vars, mode = "quitting", mode' # "quitting" PROVE \E t \in Terms : Resize(t)
<1>1. CASE InventoryKey \/ SizesStep \/ InfoCompleted
  BY <1>1 DEF InventoryKey, Browse, StatusKey, Reorder, EnterSearch, SearchKey, SwitchKind, Refresh,
              NormalKey, KeyboardOpen, SizesStep, SizesSuperseded, SizesWhileQuitting, SizesFailed,
              SizesMeasured, InfoCompleted
<1>2. CASE LoadStep
  BY <1>2 DEF LoadStep, LoadWhileQuitting, LoadCancelled, LoadFailed, LoadSucceeded
<1>3. CASE OperationKey
  BY <1>3 DEF OperationKey, ConfirmOperation, ConfirmUpgradeAll, DismissConfirmation,
              EnqueueConfirmed, StartConfirmed, StartBatch, EditPassword, SubmitPassword,
              EscapePassword, NormalKey, KeyboardOpen
<1>4. CASE JobMessage
  BY <1>4 DEF JobMessage, JobStarted, JobStartFailed, IgnoreEvent, RejectRequest, OpenPassword,
              ResultStep, ResultWhileQuitting, ResultCleanupFailed, ResultFailed,
              ResultSelfUninstalled, ResultQueueUnsafe, ResultStartsNext, ResultReloads,
              TakeSuccess
<1>5. CASE JobStep
  <2>1. UIUntouched
    BY <1>5 DEF JobStep, JobEnd, StartFails, StartSucceeds, RequestPassword, FailAuthentication,
                RequestTimesOut, JobFinishes
  <2> QED BY <2>1 DEF UIUntouched
<1>6. CASE TrustKey \/ TrustStep
  BY <1>6 DEF TrustKey, ReviewTrust, AbandonTrust, StartTrust, TrustStep, DropStaleTrust,
              TrustWhileQuitting, DetailsArrive, TrustFails, TrustSucceeds, NormalKey, KeyboardOpen
<1>7. CASE Interrupt \/ Terminate \/ QuitKey
  BY <1>7 DEF Interrupt, Terminate, QuitKey, BeginQuit
<1>8. CASE UNCHANGED vars
  BY <1>8 DEF vars, screenVars
<1> QED BY <1>1, <1>2, <1>3, <1>4, <1>5, <1>6, <1>7, <1>8 DEF Next, Terminated

(* A quit that is taken back was taken back by a change of the terminal's  *)
(* size, in any session (SPEC section 13 names no exception; the run       *)
(* ResizeUnquits shows this one).                                          *)
THEOREM OnlyResizeUnquits ==
  Spec => [][mode = "quitting" /\ mode' # "quitting" => \E t \in Terms : Resize(t)]_vars
<1>1. [Next]_vars =>
        [mode = "quitting" /\ mode' # "quitting" => \E t \in Terms : Resize(t)]_vars
  BY WhoUnquits
<1> QED BY <1>1, PTL DEF Spec

(* Only a resize cancels a run on the terminal's behalf.                   *)
LEMMA WhoCancels ==
  ASSUME [Next]_vars, cancelReason # "terminal", cancelReason' = "terminal"
  PROVE  \E t \in Terms : Resize(t)
<1>1. CASE InventoryKey \/ SizesStep \/ InfoCompleted
  <2>1. OperationUntouched
    BY <1>1 DEF InventoryKey, Browse, StatusKey, Reorder, EnterSearch, SearchKey, SwitchKind,
                Refresh, SizesStep, SizesSuperseded, SizesWhileQuitting, SizesFailed,
                SizesMeasured, InfoCompleted
  <2> QED BY <2>1 DEF OperationUntouched, runVars
<1>2. CASE LoadStep
  BY <1>2 DEF LoadStep, LoadWhileQuitting, LoadCancelled, LoadFailed, LoadSucceeded,
              FinishOperation
<1>3. CASE OperationKey
  BY <1>3 DEF OperationKey, ConfirmOperation, ConfirmUpgradeAll, DismissConfirmation,
              EnqueueConfirmed, StartConfirmed, StartBatch, StartUninstall, EditPassword,
              SubmitPassword, EscapePassword, runVars
<1>4. CASE JobMessage
  BY <1>4 DEF JobMessage, JobStarted, JobStartFailed, IgnoreEvent, RejectRequest, OpenPassword,
              ResultStep, ResultWhileQuitting, ResultCleanupFailed, ResultFailed,
              ResultSelfUninstalled, ResultQueueUnsafe, ResultStartsNext, ResultReloads,
              FinishOperation, StartUninstall, runVars
<1>5. CASE JobStep
  <2>1. UIUntouched
    BY <1>5 DEF JobStep, JobEnd, StartFails, StartSucceeds, RequestPassword, FailAuthentication,
                RequestTimesOut, JobFinishes
  <2> QED BY <2>1 DEF UIUntouched, runVars
<1>6. CASE TrustKey \/ TrustStep
  <2>1. OutsideUntouched
    BY <1>6 DEF TrustKey, ReviewTrust, AbandonTrust, StartTrust, TrustStep, DropStaleTrust,
                TrustWhileQuitting, DetailsArrive, TrustFails, TrustSucceeds
  <2> QED BY <2>1 DEF OutsideUntouched, runVars
<1>7. CASE Interrupt \/ Terminate \/ QuitKey
  BY <1>7 DEF Interrupt, Terminate, QuitKey, BeginQuit, runVars
<1>8. CASE UNCHANGED vars
  BY <1>8 DEF vars, runVars
<1> QED BY <1>1, <1>2, <1>3, <1>4, <1>5, <1>6, <1>7, <1>8 DEF Next, Terminated

(* Only a load's own message ends it.                                      *)
LEMMA WhoEndsLoad == ASSUME [Next]_vars, loading, ~loading' PROVE LoadStep
<1>1. CASE InventoryKey \/ SizesStep \/ InfoCompleted
  BY <1>1 DEF InventoryKey, Browse, StatusKey, Reorder, EnterSearch, SearchKey, SwitchKind, Refresh,
              NormalKey, KeyboardOpen, SizesStep, SizesSuperseded, SizesWhileQuitting, SizesFailed,
              SizesMeasured, InfoCompleted, LoadUntouched, loadVars
<1>2. CASE OperationKey
  <2>1. InventoryUntouched
    BY <1>2 DEF OperationKey, ConfirmOperation, ConfirmUpgradeAll, DismissConfirmation,
                EnqueueConfirmed, StartConfirmed, StartBatch, EditPassword, SubmitPassword,
                EscapePassword
  <2> QED BY <2>1 DEF InventoryUntouched, loadVars
<1>3. CASE JobMessage \/ JobStep
  <2>1. InventoryUntouched \/ ResultReloads
    BY <1>3 DEF JobMessage, JobStarted, JobStartFailed, IgnoreEvent, RejectRequest, OpenPassword,
                ResultStep, ResultWhileQuitting, ResultCleanupFailed, ResultFailed,
                ResultSelfUninstalled, ResultQueueUnsafe, ResultStartsNext, JobStep, JobEnd,
                StartFails, StartSucceeds, RequestPassword, FailAuthentication, RequestTimesOut,
                JobFinishes, UIUntouched
  <2> QED BY <2>1 DEF InventoryUntouched, loadVars, ResultReloads, StartLoad
<1>4. CASE TrustKey \/ TrustStep
  <2>1. OutsideUntouched
    BY <1>4 DEF TrustKey, ReviewTrust, AbandonTrust, StartTrust, TrustStep, DropStaleTrust,
                TrustWhileQuitting, DetailsArrive, TrustFails, TrustSucceeds
  <2> QED BY <2>1 DEF OutsideUntouched, loadVars
<1>5. CASE \E t \in Terms : Resize(t)
  BY <1>5 DEF Resize, loadVars
<1>6. CASE Interrupt \/ Terminate \/ QuitKey
  BY <1>6 DEF Interrupt, Terminate, QuitKey, BeginQuit, loadVars
<1>7. CASE UNCHANGED vars
  BY <1>7 DEF vars, loadVars
<1> QED BY <1>1, <1>2, <1>3, <1>4, <1>5, <1>6, <1>7 DEF Next, Terminated

----------------------------------------------------------------------------
(* A terminal that shrinks.                                                *)
(*                                                                         *)
(* A resize that drops a dialog or cancels the run moves the mode.  It     *)
(* moves it under another owner in two cases: a confirmation left behind   *)
(* by the mode it was opened in (a run that failed to start, a password    *)
(* dialog over it, a quit), and a run that a quit is winding down.         *)
Disturbs(t) ==
  \/ mode # "confirm" /\ (ConfirmGone(t) \/ BatchGone(t))
  \/ mode = "quitting" /\ OperationGone(t)
Orderly == \A t \in Terms : Resize(t) => ~Disturbs(t)
Undisturbed == [][Orderly]_vars

(* Any other resize closes its confirmation, ends the run's dialogs or its *)
(* review, or only redraws.                                                *)
ClosesConfirmation ==
  /\ mode = "confirm" /\ mode' \in {"operation", "normal"}
  /\ JobRunning => mode' = "operation"
  /\ UNCHANGED <<passwordVars, trustVars>>
StopsOperation ==
  /\ JobRunning /\ mode # "quitting"
  /\ mode' = "operation" /\ WipePassword
  /\ UNCHANGED trustVars
DropsReview == mode = "trust" /\ CancelTrust(trusts) /\ UNCHANGED passwordVars

LEMMA OrderlyResize ==
  ASSUME IInv, NEW t \in Terms, Resize(t), ~Disturbs(t)
  PROVE  /\ operation' = operation
         /\ \/ UNCHANGED <<mode, passwordVars, trustVars>>
            \/ ClosesConfirmation
            \/ StopsOperation
            \/ DropsReview
<1>1. operation' = operation
  BY DEF Resize
<1>2. CASE OperationGone(t)
  <2>1. ResizedMode(t) = "operation" /\ ~TrustGone(t)
    BY <1>2 DEF ResizedMode, TrustGone
  <2>2. StopsOperation
    BY <1>2, <2>1 DEF Resize, Disturbs, OperationGone, StopsOperation
  <2> QED BY <1>1, <2>2
<1>3. CASE ~OperationGone(t) /\ (ConfirmGone(t) \/ BatchGone(t))
  <2>1. mode = "confirm"
    BY <1>3 DEF Disturbs
  <2>2. BatchGone(t) => ~JobRunning
    BY DEF BatchGone, IInv, Lifecycle, BatchAwaitsNoJob
  <2>3. /\ ResizedMode(t) \in {"operation", "normal"}
        /\ JobRunning => ResizedMode(t) = "operation"
    BY <1>3, <2>2 DEF ResizedMode, Resume
  <2>4. ~TrustGone(t)
    BY <2>3 DEF TrustGone
  <2>5. ClosesConfirmation
    BY <1>3, <2>1, <2>3, <2>4 DEF Resize, ClosesConfirmation, passwordVars
  <2> QED BY <1>1, <2>5
<1>4. CASE ~OperationGone(t) /\ ~ConfirmGone(t) /\ ~BatchGone(t)
  <2>1. ResizedMode(t) = mode
    BY <1>4 DEF ResizedMode
  <2>2. TrustGone(t) => DropsReview
    BY <1>4, <2>1 DEF TrustGone, Resize, DropsReview, passwordVars
  <2>3. ~TrustGone(t) => UNCHANGED <<mode, passwordVars, trustVars>>
    BY <1>4, <2>1 DEF Resize, passwordVars
  <2> QED BY <1>1, <2>2, <2>3
<1> QED BY <1>2, <1>3, <1>4

LEMMA OrderlyResizes ==
  ASSUME IInv, [Orderly]_vars, \E t \in Terms : Resize(t)
  PROVE  /\ operation' = operation
         /\ \/ UNCHANGED <<mode, passwordVars, trustVars>>
            \/ ClosesConfirmation
            \/ StopsOperation
            \/ DropsReview
<1> PICK t \in Terms : Resize(t)
  OBVIOUS
<1>1. CASE Orderly
  BY <1>1, OrderlyResize DEF Orderly
<1>2. CASE UNCHANGED vars
  BY <1>2 DEF vars, screenVars, runVars
<1> QED BY <1>1, <1>2

(* So only a disturbing one takes a quit back.                             *)
LEMMA QuitStays ==
  ASSUME [Orderly]_vars, IInv, [Next]_vars, mode = "quitting" PROVE mode' = "quitting"
BY WhoUnquits, OrderlyResizes DEF ClosesConfirmation, StopsOperation, DropsReview

(* Quitting is not taken back by a terminal that leaves the dialogs of a   *)
(* run and of a quit alone (beginQuit; SPEC section 13).                   *)
THEOREM QuitsAreFinal == Spec /\ Undisturbed => QuitIsFinal
<1>1. IInv /\ [Next]_vars /\ [Orderly]_vars => [mode = "quitting" => mode' = "quitting"]_vars
  BY QuitStays
<1> QED BY <1>1, SessionInvariant, PTL DEF Spec, Undisturbed, QuitIsFinal

(* What else holds then: a trust command has its review on the screen, and *)
(* a run one of the modes that accept its events.                          *)
RunModes == {"operation", "confirm", "password", "quitting"}
CommandHasReview == trustPending => mode \in {"trust", "quitting"}
RunHoldsScreen == JobRunning => mode \in RunModes
OrderlyInv == CommandHasReview /\ RunHoldsScreen /\ PasswordContained

ScreenInv == RunInv /\ ExitInv /\ ModeInv

(* While a review is open nothing loads and no job has a handle or owes    *)
(* its message.                                                            *)
LEMMA ReviewIsIdle ==
  ASSUME ScreenInv, mode = "trust"
  PROVE  /\ ~JobRunning /\ ~loading /\ lists = {}
         /\ ~startPending /\ ~jobPending /\ startMsg = "none"
<1>1. ~JobRunning /\ ~loading
  BY DEF ScreenInv, ModeInv, ReviewIsOfPane
<1>2. ~startPending /\ ~jobPending
  BY <1>1 DEF ScreenInv, RunInv, IInv, Lifecycle, JobHasOperation
<1>3. startMsg = "none"
  BY <1>2 DEF ScreenInv, RunInv, IInv, TypeOK, JobType, Lifecycle, HandlesFollowJob
<1> QED BY <1>1, <1>2, <1>3, NoLoadNoLists DEF ScreenInv, RunInv

(* A step of the review's current command finds the review open.           *)
LEMMA CommandFindsReview ==
  ASSUME ScreenInv, CommandHasReview, NEW c \in trusts, NEW ok, TakeTrust(c, ok), mode # "quitting"
  PROVE  mode = "trust"
BY DEF ScreenInv, ExitInv, TrustMatches, CommandHasReview, TakeTrust

LEMMA ReviewStays ==
  ASSUME [Orderly]_vars, ScreenInv, [Next]_vars, mode = "trust", mode' \notin {"trust", "quitting"}
  PROVE  ~trustPending'
<1> USE ReviewIsIdle
<1>1. CASE UNCHANGED trustVars
  <2>1. CASE InventoryKey \/ SizesStep \/ InfoCompleted
    BY <2>1 DEF InventoryKey, Browse, StatusKey, Reorder, EnterSearch, SearchKey, SwitchKind,
                Refresh, NormalKey, KeyboardOpen, SizesStep, SizesSuperseded, SizesWhileQuitting,
                SizesFailed, SizesMeasured, InfoCompleted
  <2>2. CASE LoadStep
    BY <2>2 DEF LoadStep
  <2>3. CASE OperationKey
    BY <2>3 DEF OperationKey, ConfirmOperation, ConfirmUpgradeAll, DismissConfirmation,
                EnqueueConfirmed, StartConfirmed, StartBatch, EditPassword, SubmitPassword,
                EscapePassword, NormalKey, KeyboardOpen
  <2>4. CASE JobMessage
    BY <2>4 DEF JobMessage, JobStarted, JobStartFailed, IgnoreEvent, RejectRequest, OpenPassword,
                ResultStep, ResultWhileQuitting, ResultCleanupFailed, ResultFailed,
                ResultSelfUninstalled, ResultQueueUnsafe, ResultStartsNext, ResultReloads,
                TakeSuccess, TakeResult
  <2>5. CASE JobStep
    <3>1. UIUntouched
      BY <2>5 DEF JobStep, JobEnd, StartFails, StartSucceeds, RequestPassword,
                  FailAuthentication, RequestTimesOut, JobFinishes
    <3> QED BY <3>1 DEF UIUntouched
  <2>6. CASE TrustKey \/ TrustStep
    BY <1>1, <2>6 DEF TrustKey, ReviewTrust, AbandonTrust, StartTrust, TrustStep, DropStaleTrust,
                TrustWhileQuitting, DetailsArrive, TrustFails, TrustSucceeds, CancelTrust,
                trustVars, NormalKey
  <2>7. CASE \E t \in Terms : Resize(t)
    <3>1. mode' = mode \/ DropsReview
      BY <2>7, OrderlyResizes DEF ScreenInv, RunInv, ClosesConfirmation, StopsOperation
    <3> QED BY <3>1 DEF DropsReview, CancelTrust
  <2>8. CASE Interrupt \/ Terminate \/ QuitKey
    BY <2>8 DEF Interrupt, Terminate, QuitKey, BeginQuit, EnterQuit
  <2>9. CASE UNCHANGED vars
    BY <2>9 DEF vars, screenVars
  <2> QED BY <2>1, <2>2, <2>3, <2>4, <2>5, <2>6, <2>7, <2>8, <2>9 DEF Next, Terminated
<1>2. CASE ReviewEnds
  BY <1>2 DEF ReviewEnds
<1>3. CASE TrustOnly
  BY <1>3 DEF TrustOnly, ReviewTrust, StartTrust, TrustStep, DropStaleTrust, TrustWhileQuitting,
              DetailsArrive, TrustFails, TrustSucceeds, CancelTrust, NormalKey
<1> QED BY <1>1, <1>2, <1>3, TrustSteps

LEMMA NextKeepsReview ==
  ASSUME [Orderly]_vars, ScreenInv, CommandHasReview, [Next]_vars PROVE CommandHasReview'
<1> SUFFICES ASSUME trustPending', mode' \notin {"trust", "quitting"} PROVE FALSE
  BY DEF CommandHasReview
<1>1. mode \notin {"trust", "quitting"}
  BY ReviewStays, QuitStays DEF ScreenInv, RunInv, IInv
<1>2. ~trustPending
  BY <1>1 DEF CommandHasReview
<1>3. ReviewTrust \/ StartTrust
  BY <1>1, <1>2, TrustSteps
     DEF ReviewEnds, TrustOnly, TrustStep, DropStaleTrust, TrustWhileQuitting, DetailsArrive,
         TrustFails, TrustSucceeds, CancelTrust, trustVars
<1> QED BY <1>1, <1>3 DEF ReviewTrust, StartTrust, CancelTrust

(* A step ends the run, shows it, or changes neither run nor mode.         *)
LEMMA RunSteps ==
  ASSUME [Orderly]_vars, ScreenInv, OrderlyInv, [Next]_vars
  PROVE  operation' = NoPkg \/ mode' \in RunModes \/ UNCHANGED <<mode, operation>>
<1> USE DEF RunModes
<1>1. CASE InventoryKey \/ SizesStep \/ InfoCompleted
  <2>1. OperationUntouched
    BY <1>1 DEF InventoryKey, Browse, StatusKey, Reorder, EnterSearch, SearchKey, SwitchKind,
                Refresh, SizesStep, SizesSuperseded, SizesWhileQuitting, SizesFailed,
                SizesMeasured, InfoCompleted
  <2>2. mode' = mode \/ ~JobRunning
    BY <1>1 DEF InventoryKey, Browse, StatusKey, Reorder, EnterSearch, SearchKey, SwitchKind,
                Refresh, SizesStep, SizesSuperseded, SizesWhileQuitting, SizesFailed,
                SizesMeasured, InfoCompleted, OrderlyInv, RunHoldsScreen
  <2> QED BY <2>1, <2>2 DEF OperationUntouched, runVars, JobRunning
<1>2. CASE LoadStep
  <2> PICK c \in lists :
        LoadWhileQuitting(c) \/ LoadCancelled(c) \/ LoadFailed(c) \/ LoadSucceeded(c)
    BY <1>2 DEF LoadStep
  <2>1. CASE LoadWhileQuitting(c) \/ LoadCancelled(c) \/ LoadFailed(c)
    BY <2>1 DEF LoadWhileQuitting, LoadCancelled, LoadFailed, FinishOperation
  <2>2. CASE LoadSucceeded(c)
    <3>1. JobRunning => c.purpose = "afterOperation"
      BY NoLoadNoLists
         DEF ScreenInv, RunInv, IInv, Lifecycle, LoadIsAlone, QueueInv, ReloadIsLast, HasReload
    <3> QED BY <2>2, <3>1 DEF LoadSucceeded, JobRunning
  <2> QED BY <2>1, <2>2
<1>3. CASE OperationKey
  BY <1>3 DEF OperationKey, ConfirmOperation, ConfirmUpgradeAll, DismissConfirmation, Resume,
              JobRunning, EnqueueConfirmed, StartConfirmed, StartBatch, StartUninstall,
              EditPassword, SubmitPassword, EscapePassword, runVars
<1>4. CASE JobMessage
  BY <1>4 DEF JobMessage, JobStarted, JobStartFailed, IgnoreEvent, RejectRequest, OpenPassword,
              ResultStep, ResultWhileQuitting, ResultCleanupFailed, ResultFailed,
              ResultSelfUninstalled, ResultQueueUnsafe, ResultStartsNext, ResultReloads,
              FinishOperation, StartUninstall, EnterQuit, runVars
<1>5. CASE JobStep
  <2>1. UIUntouched
    BY <1>5 DEF JobStep, JobEnd, StartFails, StartSucceeds, RequestPassword, FailAuthentication,
                RequestTimesOut, JobFinishes
  <2> QED BY <2>1 DEF UIUntouched, runVars
<1>6. CASE TrustKey \/ TrustStep
  <2>1. operation' = operation
    BY <1>6 DEF TrustKey, ReviewTrust, AbandonTrust, StartTrust, TrustStep, DropStaleTrust,
                TrustWhileQuitting, DetailsArrive, TrustFails, TrustSucceeds, OutsideUntouched,
                runVars
  <2>2. mode' = mode \/ mode = "trust" \/ ~JobRunning
    <3>1. CASE TrustKey
      BY <3>1 DEF TrustKey, ReviewTrust, AbandonTrust, StartTrust
    <3>2. CASE TrustStep
      BY <3>2, CommandFindsReview
         DEF TrustStep, DropStaleTrust, TrustWhileQuitting, DetailsArrive, TrustFails,
             TrustSucceeds, OrderlyInv
    <3> QED BY <1>6, <3>1, <3>2
  <2> QED BY <2>1, <2>2, ReviewIsIdle DEF JobRunning
<1>7. CASE \E t \in Terms : Resize(t)
  BY <1>7, OrderlyResizes, ReviewIsIdle
     DEF ScreenInv, RunInv, ClosesConfirmation, StopsOperation, DropsReview, JobRunning
<1>8. CASE Interrupt \/ Terminate \/ QuitKey
  BY <1>8 DEF Interrupt, Terminate, QuitKey, BeginQuit, EnterQuit
<1>9. CASE UNCHANGED vars
  BY <1>9 DEF vars, screenVars, runVars
<1> QED BY <1>1, <1>2, <1>3, <1>4, <1>5, <1>6, <1>7, <1>8, <1>9 DEF Next, Terminated

(* A step wipes the password field, has the dialog open, or changes        *)
(* neither; it leaves the dialog only by wiping it.                        *)
LEMMA PasswordSteps ==
  ASSUME [Orderly]_vars, ScreenInv, OrderlyInv, [Next]_vars
  PROVE  \/ WipePassword \/ mode' = "password"
         \/ UNCHANGED passwordVars /\ mode # "password"
         \/ UNCHANGED <<mode, passwordVars>>
<1>1. CASE InventoryKey \/ SizesStep \/ InfoCompleted
  <2>1. OperationUntouched
    BY <1>1 DEF InventoryKey, Browse, StatusKey, Reorder, EnterSearch, SearchKey, SwitchKind,
                Refresh, SizesStep, SizesSuperseded, SizesWhileQuitting, SizesFailed,
                SizesMeasured, InfoCompleted
  <2>2. mode' = mode \/ mode # "password"
    BY <1>1 DEF InventoryKey, Browse, StatusKey, Reorder, EnterSearch, SearchKey, SwitchKind,
                Refresh, NormalKey, SizesStep, SizesSuperseded, SizesWhileQuitting, SizesFailed,
                SizesMeasured, InfoCompleted
  <2> QED BY <2>1, <2>2 DEF OperationUntouched
<1>2. CASE LoadStep
  <2>1. lists # {} /\ UNCHANGED passwordVars
    BY <1>2 DEF LoadStep, LoadWhileQuitting, LoadCancelled, LoadFailed, LoadSucceeded, JobUntouched
  <2>2. mode # "password"
    BY <2>1 DEF ScreenInv, ModeInv, PasswordHasJob, RunInv, IInv, Lifecycle, LoadIsAlone,
                HandlesFollowJob
  <2> QED BY <2>1, <2>2
<1>3. CASE OperationKey
  BY <1>3 DEF OperationKey, ConfirmOperation, ConfirmUpgradeAll, DismissConfirmation, NormalKey,
              EnqueueConfirmed, StartConfirmed, StartBatch, UpgradeAllFits, EditPassword,
              SubmitPassword, EscapePassword, passwordVars
<1>4. CASE JobMessage
  <2>1. CASE JobStartFailed
    <3>1. ~jobHeld /\ UNCHANGED passwordVars
      BY <2>1 DEF JobStartFailed, ScreenInv, RunInv, IInv, Lifecycle, HandlesFollowJob
    <3> QED BY <3>1 DEF ScreenInv, ModeInv, PasswordHasJob
  <2>2. CASE JobMessage /\ ~JobStartFailed
    BY <2>2 DEF JobMessage, JobStarted, IgnoreEvent, RejectRequest, OpenPassword, ResultStep,
                ResultWhileQuitting, ResultCleanupFailed, ResultFailed, ResultSelfUninstalled,
                ResultQueueUnsafe, ResultStartsNext, ResultReloads, TakeSuccess, TakeResult
  <2> QED BY <1>4, <2>1, <2>2
<1>5. CASE JobStep
  <2>1. UIUntouched
    BY <1>5 DEF JobStep, JobEnd, StartFails, StartSucceeds, RequestPassword, FailAuthentication,
                RequestTimesOut, JobFinishes
  <2> QED BY <2>1 DEF UIUntouched
<1>6. CASE TrustKey \/ TrustStep
  <2>1. UNCHANGED passwordVars
    BY <1>6 DEF TrustKey, ReviewTrust, AbandonTrust, StartTrust, TrustStep, DropStaleTrust,
                TrustWhileQuitting, DetailsArrive, TrustFails, TrustSucceeds, OutsideUntouched
  <2>2. mode' = mode \/ mode # "password"
    <3>1. CASE TrustKey
      BY <3>1 DEF TrustKey, ReviewTrust, AbandonTrust, StartTrust, NormalKey
    <3>2. CASE TrustStep
      BY <3>2, CommandFindsReview
         DEF TrustStep, DropStaleTrust, TrustWhileQuitting, DetailsArrive, TrustFails,
             TrustSucceeds, OrderlyInv
    <3> QED BY <1>6, <3>1, <3>2
  <2> QED BY <2>1, <2>2
<1>7. CASE \E t \in Terms : Resize(t)
  BY <1>7, OrderlyResizes
     DEF ScreenInv, RunInv, ClosesConfirmation, StopsOperation, DropsReview
<1>8. CASE Interrupt \/ Terminate \/ QuitKey
  BY <1>8 DEF Interrupt, Terminate, QuitKey, BeginQuit, passwordVars
<1>9. CASE UNCHANGED vars
  BY <1>9 DEF vars, screenVars
<1> QED BY <1>1, <1>2, <1>3, <1>4, <1>5, <1>6, <1>7, <1>8, <1>9 DEF Next, Terminated

LEMMA NextKeepsOrder ==
  ASSUME [Orderly]_vars, ScreenInv, OrderlyInv, [Next]_vars PROVE OrderlyInv'
<1>1. CommandHasReview'
  BY NextKeepsReview DEF OrderlyInv
<1>2. RunHoldsScreen'
  BY RunSteps DEF OrderlyInv, RunHoldsScreen, JobRunning
<1>3. PasswordContained'
  BY PasswordSteps DEF WipePassword, passwordVars, OrderlyInv, PasswordContained
<1> QED BY <1>1, <1>2, <1>3 DEF OrderlyInv

(* The invariants of the run, of what is in flight and of the mode hold    *)
(* together, on any terminal (model.go, Update).                           *)
THEOREM ScreenInvariant == Spec => []ScreenInv
BY RunInvariant, ExitInvariant, ModeInvariant, PTL DEF ScreenInv

(* While no resize disturbs a run, a trust command keeps its review and a  *)
(* run its window, and the password field is wiped by whatever closes its  *)
(* dialog (resize and the handlers that hand the window on).               *)
THEOREM OrderlyInvariant == Spec /\ Undisturbed => []OrderlyInv
<1>1. Init => OrderlyInv
  BY DEF Init, InitFrom, OrderlyInv, CommandHasReview, RunHoldsScreen, PasswordContained,
         JobRunning
<1>2. ScreenInv /\ OrderlyInv /\ [Next]_vars /\ [Orderly]_vars => OrderlyInv'
  BY NextKeepsOrder
<1> QED BY <1>1, <1>2, ScreenInvariant, PTL DEF Spec, Undisturbed

(* The mode agrees with the run: brew's password prompt always finds a     *)
(* mode that accepts it (jobRunning's comment, handleJobEvent).            *)
THEOREM ModesMatchRuns == Spec /\ Undisturbed => []ModeMatchesRun
<1>1. ScreenInv /\ OrderlyInv => ModeMatchesRun
  BY DEF ScreenInv, ModeInv, RunIsShown, PasswordHasJob, OrderlyInv, RunHoldsScreen, RunModes,
         ModeMatchesRun
<1> QED BY <1>1, ScreenInvariant, OrderlyInvariant, PTL

(* What was typed and the request it answers exist only under the password *)
(* dialog, whichever key, message, result or signal closed it              *)
(* (wipePassword's callers).                                               *)
THEOREM PasswordsAreContained == Spec /\ Undisturbed => []PasswordContained
<1>1. OrderlyInv => PasswordContained
  BY DEF OrderlyInv
<1> QED BY <1>1, OrderlyInvariant, PTL

----------------------------------------------------------------------------
(* A session without operations.                                           *)
(*                                                                         *)
(* Without operations no dialog outlives the key that closes it, so the    *)
(* terminal may take any size: a resize closes at most the dialog that is  *)
(* open.                                                                   *)
NoOperations == MaxOps = 0
DialogOpen == confirmation # NoPkg \/ batchConfirmation # <<>>
NothingRuns == operation = NoPkg /\ cancelReason = "none"
DialogIsAlone ==
  /\ DialogOpen => mode \in {"confirm", "quitting"} /\ ~trustPending /\ ~loading
  /\ confirmation = NoPkg \/ batchConfirmation = <<>>
BrowsingInv == NothingRuns /\ CommandHasReview /\ DialogIsAlone

LEMMA NoJobThere ==
  ASSUME ScreenInv, NothingRuns
  PROVE  ~JobRunning /\ ~startPending /\ ~jobPending /\ ~jobHeld /\ startMsg = "none"
<1>1. ~JobRunning /\ ~startPending /\ ~jobPending
  BY DEF NothingRuns, JobRunning, ScreenInv, RunInv, IInv, Lifecycle, JobHasOperation
<1>2. ~jobHeld /\ startMsg = "none"
  BY <1>1 DEF ScreenInv, RunInv, IInv, TypeOK, JobType, Lifecycle, HandlesFollowJob
<1> QED BY <1>1, <1>2

LEMMA NothingStarts ==
  ASSUME NoOperations, ScreenInv
  PROVE  ~StartConfirmed /\ ~StartBatch
<1>1. operationID \in Nat /\ MaxOps = 0
  BY DEF NoOperations, ScreenInv, RunInv, IInv, TypeOK, RunType
<1>2. ~StartConfirmed
  BY <1>1 DEF StartConfirmed
<1>3. ASSUME StartBatch PROVE FALSE
  <2>1. batchConfirmation # <<>> /\ operationID + Len(batchConfirmation) <= MaxOps
    BY <1>3 DEF StartBatch, UpgradeAllFits
  <2>2. Len(batchConfirmation) \in Nat \ {0}
    BY <2>1, EmptySeq, LenProperties DEF ScreenInv, RunInv, IInv, TypeOK, DialogType
  <2> QED BY <1>1, <2>1, <2>2
<1> QED BY <1>2, <1>3

(* What a job's messages can still be: events of a job that is gone.       *)
LEMMA OnlyOldEvents ==
  ASSUME ScreenInv, NothingRuns, JobMessage \/ JobStep
  PROVE  /\ UNCHANGED <<mode, term, kind, viewVars, loadVars, dialogVars, trustVars>>
         /\ UNCHANGED <<operation, cancelReason>>
<1>1. ~jobPending /\ ~jobHeld /\ startMsg = "none"
  BY NoJobThere
<1>2. CASE JobMessage
  <2>1. IgnoreEvent
    BY <1>1, <1>2 DEF JobMessage, JobStarted, JobStartFailed, RejectRequest, OpenPassword,
                      EventIgnored, ResultStep, ResultWhileQuitting, ResultCleanupFailed,
                      ResultFailed, ResultSelfUninstalled, ResultQueueUnsafe, ResultStartsNext,
                      ResultReloads, TakeSuccess, TakeResult
  <2> QED BY <2>1 DEF IgnoreEvent, InventoryUntouched, OthersUntouched, runVars
<1>3. CASE JobStep
  <2>1. UIUntouched
    BY <1>3 DEF JobStep, JobEnd, StartFails, StartSucceeds, RequestPassword, FailAuthentication,
                RequestTimesOut, JobFinishes
  <2> QED BY <2>1 DEF UIUntouched, InventoryUntouched, OthersUntouched, runVars
<1> QED BY <1>2, <1>3

LEMMA NothingWillRun ==
  ASSUME NoOperations, ScreenInv, NothingRuns, [Next]_vars PROVE NothingRuns'
<1> USE NoJobThere DEF NothingRuns
<1>1. CASE InventoryKey \/ SizesStep \/ InfoCompleted
  <2>1. OperationUntouched
    BY <1>1 DEF InventoryKey, Browse, StatusKey, Reorder, EnterSearch, SearchKey, SwitchKind,
                Refresh, SizesStep, SizesSuperseded, SizesWhileQuitting, SizesFailed,
                SizesMeasured, InfoCompleted
  <2> QED BY <2>1 DEF OperationUntouched, runVars
<1>2. CASE LoadStep
  BY <1>2 DEF LoadStep, LoadWhileQuitting, LoadCancelled, LoadFailed, LoadSucceeded,
              FinishOperation
<1>3. CASE OperationKey
  <2>1. mode # "password"
    BY DEF ScreenInv, ModeInv, RunIsShown
  <2> QED BY <1>3, <2>1, NothingStarts
          DEF OperationKey, ConfirmOperation, ConfirmUpgradeAll, DismissConfirmation,
              EnqueueConfirmed, EditPassword, SubmitPassword, EscapePassword, runVars
<1>4. CASE JobMessage \/ JobStep
  BY <1>4, OnlyOldEvents
<1>5. CASE TrustKey \/ TrustStep
  <2>1. OutsideUntouched
    BY <1>5 DEF TrustKey, ReviewTrust, AbandonTrust, StartTrust, TrustStep, DropStaleTrust,
                TrustWhileQuitting, DetailsArrive, TrustFails, TrustSucceeds
  <2> QED BY <2>1 DEF OutsideUntouched, runVars
<1>6. CASE \E t \in Terms : Resize(t)
  BY <1>6 DEF Resize, OperationGone
<1>7. CASE Interrupt \/ Terminate \/ QuitKey
  BY <1>7 DEF Interrupt, Terminate, QuitKey, BeginQuit, runVars
<1>8. CASE UNCHANGED vars
  BY <1>8 DEF vars, runVars
<1> QED BY <1>1, <1>2, <1>3, <1>4, <1>5, <1>6, <1>7, <1>8 DEF Next, Terminated

LEMMA NextKeepsDialog ==
  ASSUME NoOperations, ScreenInv, BrowsingInv, [Next]_vars
  PROVE  CommandHasReview' /\ DialogIsAlone'
<1> USE DEF BrowsingInv, CommandHasReview, DialogIsAlone, DialogOpen
<1>1. CASE InventoryKey \/ SizesStep \/ InfoCompleted
  <2>1. UNCHANGED <<confirmation, batchConfirmation, trustPending>>
    BY <1>1 DEF InventoryKey, Browse, StatusKey, Reorder, EnterSearch, SearchKey, SwitchKind,
                Refresh, SizesStep, SizesSuperseded, SizesWhileQuitting, SizesFailed,
                SizesMeasured, InfoCompleted, RestUntouched, dialogVars, trustVars
  <2>2. UNCHANGED <<mode, loading>> \/ mode \in {"normal", "operation", "search"}
    BY <1>1 DEF InventoryKey, Browse, StatusKey, Reorder, EnterSearch, SearchKey, SwitchKind,
                Refresh, NormalKey, SizesStep, SizesSuperseded, SizesWhileQuitting, SizesFailed,
                SizesMeasured, InfoCompleted, LoadUntouched, loadVars
  <2> QED BY <2>1, <2>2
<1>2. CASE LoadStep
  <2>1. loading /\ mode # "trust"
    BY <1>2, NoLoadNoLists
       DEF LoadStep, ScreenInv, RunInv, ModeInv, ReviewIsOfPane
  <2>2. confirmation' = confirmation /\ trustPending' = trustPending
        /\ batchConfirmation' \in {batchConfirmation, <<>>}
        /\ (mode = "quitting" => mode' = mode)
    BY <1>2 DEF LoadStep, LoadWhileQuitting, LoadCancelled, LoadFailed, LoadSucceeded,
                FinishOperation, ClearBatch, RestUntouched, dialogVars, trustVars
  <2> QED BY <2>1, <2>2
<1>3. CASE OperationKey
  <2>1. UNCHANGED <<loading, trustPending>> /\ ~JobRunning /\ mode # "quitting" /\ ~loading
    BY <1>3, NoJobThere
       DEF OperationKey, ConfirmOperation, ConfirmUpgradeAll, DismissConfirmation, NormalKey,
           KeyboardOpen, EnqueueConfirmed, StartConfirmed, StartBatch, EditPassword,
           SubmitPassword, EscapePassword, InventoryUntouched, OthersUntouched, loadVars, trustVars
  <2>2. CASE ConfirmOperation("uninstall") \/ ConfirmOperation("upgrade") \/ ConfirmUpgradeAll
    BY <2>1, <2>2 DEF ConfirmOperation, ConfirmUpgradeAll, ClearBatch, NormalKey, dialogVars
  <2>3. CASE DismissConfirmation
    BY <2>1, <2>3 DEF DismissConfirmation, ClearBatch
  <2>4. CASE EnqueueConfirmed
    BY <2>1, <2>4 DEF EnqueueConfirmed
  <2>5. mode # "password"
    BY <2>1 DEF ScreenInv, ModeInv, RunIsShown
  <2> QED BY <1>3, <2>2, <2>3, <2>4, <2>5, NothingStarts
          DEF OperationKey, EditPassword, SubmitPassword, EscapePassword
<1>4. CASE JobMessage \/ JobStep
  BY <1>4, OnlyOldEvents DEF loadVars, dialogVars, trustVars
<1>5. CASE TrustKey \/ TrustStep
  <2>1. UNCHANGED <<confirmation, batchConfirmation, loading>>
    BY <1>5 DEF TrustKey, ReviewTrust, AbandonTrust, StartTrust, TrustStep, DropStaleTrust,
                TrustWhileQuitting, DetailsArrive, TrustFails, TrustSucceeds, OutsideUntouched,
                dialogVars, loadVars
  <2>2. CASE TrustKey
    BY <2>1, <2>2 DEF TrustKey, ReviewTrust, AbandonTrust, StartTrust, NormalKey, KeyboardOpen,
                      CancelTrust
  <2>3. CASE TrustStep
    <3>1. CASE DropStaleTrust
      BY <2>1, <3>1 DEF DropStaleTrust
    <3>2. ASSUME NEW c \in trusts, NEW ok \in BOOLEAN, TrustWhileQuitting(c, ok)
          PROVE  mode' = mode /\ ~trustPending'
      BY <3>2 DEF TrustWhileQuitting
    <3>3. ASSUME NEW c \in trusts, NEW ok \in BOOLEAN,
                 DetailsArrive(c, ok) \/ TrustFails(c) \/ TrustSucceeds(c)
          PROVE  mode = "trust" /\ ~trustPending'
      BY <3>3, CommandFindsReview DEF DetailsArrive, TrustFails, TrustSucceeds, CancelTrust
    <3> QED BY <2>1, <2>3, <3>1, <3>2, <3>3 DEF TrustStep
  <2> QED BY <1>5, <2>2, <2>3
<1>6. ASSUME NEW t \in Terms, Resize(t) PROVE CommandHasReview' /\ DialogIsAlone'
  <2>1. ~OperationGone(t) /\ Resume = "normal"
    BY NoJobThere DEF OperationGone, Resume
  <2>2. /\ UNCHANGED loading
        /\ confirmation' = (IF ConfirmGone(t) THEN NoPkg ELSE confirmation)
        /\ batchConfirmation' = (IF BatchGone(t) THEN <<>> ELSE batchConfirmation)
    BY <1>6 DEF Resize, ClearBatch, loadVars
  <2>3. \/ mode' = "normal" /\ ~trustPending'
        \/ mode' = ResizedMode(t) /\ trustPending' = trustPending
    BY <1>6 DEF Resize, CancelTrust, trustVars
  <2>4. CASE ConfirmGone(t) \/ BatchGone(t)
    BY <2>2, <2>3, <2>4 DEF ConfirmGone, BatchGone
  <2>5. CASE ~ConfirmGone(t) /\ ~BatchGone(t)
    <3>1. ResizedMode(t) = mode
      BY <2>1, <2>5 DEF ResizedMode
    <3>2. CASE TrustGone(t)
      <4>1. mode = "trust"
        BY <3>1, <3>2 DEF TrustGone
      <4>2. ~trustPending'
        BY <1>6, <3>2 DEF Resize, CancelTrust
      <4> QED BY <2>2, <2>5, <4>1, <4>2
    <3>3. CASE ~TrustGone(t)
      <4>1. mode' = mode /\ trustPending' = trustPending
        BY <1>6, <3>1, <3>3 DEF Resize, trustVars
      <4> QED BY <2>2, <2>5, <4>1
    <3> QED BY <3>2, <3>3
  <2> QED BY <2>4, <2>5
<1>7. CASE Interrupt \/ Terminate \/ QuitKey
  BY <1>7 DEF Interrupt, Terminate, QuitKey, BeginQuit, EnterQuit, loadVars, dialogVars, trustVars
<1>8. CASE UNCHANGED vars
  BY <1>8 DEF vars, screenVars, loadVars, dialogVars, trustVars
<1> QED BY <1>1, <1>2, <1>3, <1>4, <1>5, <1>6, <1>7, <1>8 DEF Next, Terminated

(* Without operations nothing runs, whatever the terminal does a trust     *)
(* command keeps its review, and a dialog is over a pane that nothing      *)
(* loads or reviews (resize's blocks, beginQuit).                          *)
THEOREM BrowsingInvariant == ASSUME NoOperations PROVE Spec => []BrowsingInv
<1>1. Init => BrowsingInv
  BY DEF Init, InitFrom, BrowsingInv, NothingRuns, CommandHasReview, DialogIsAlone, DialogOpen
<1>2. ScreenInv /\ BrowsingInv /\ [Next]_vars => BrowsingInv'
  BY NothingWillRun, NextKeepsDialog DEF BrowsingInv
<1> QED BY <1>1, <1>2, ScreenInvariant, PTL DEF Spec

(* The sessions of both kinds: no resize disturbs a run, or no operations. *)
Steady == Undisturbed \/ NoOperations

(* `brew trust` runs for the package on the screen, after its provenance   *)
(* was shown, and the review stays open until it reports (startTrust).     *)
THEOREM TrustHasReview == Spec /\ Steady => []TrustFollowsReview
<1>1. ScreenInv /\ CommandHasReview => TrustFollowsReview
  BY DEF ScreenInv, ExitInv, TrustMatches, ModeInv, ReviewIsOfPane, CommandHasReview,
         TrustFollowsReview
<1>2. Spec /\ Undisturbed => []TrustFollowsReview
  <2>1. OrderlyInv => CommandHasReview
    BY DEF OrderlyInv
  <2> QED BY <1>1, <2>1, ScreenInvariant, OrderlyInvariant, PTL
<1>3. NoOperations => (Spec => []TrustFollowsReview)
  <2> SUFFICES ASSUME NoOperations PROVE Spec => []TrustFollowsReview
    OBVIOUS
  <2>1. BrowsingInv => CommandHasReview
    BY DEF BrowsingInv
  <2> QED BY <1>1, <2>1, ScreenInvariant, BrowsingInvariant, PTL
<1> QED BY <1>2, <1>3, PTL DEF Steady

----------------------------------------------------------------------------
(* The pane and the review.                                                *)
(*                                                                         *)
(* A reload that the terminal cancelled leaves the rows it was to replace. *)
ReloadKept == loading => cancelReason # "terminal"
Calm == (Undisturbed /\ []ReloadKept) \/ NoOperations

(* Between loads the pane is empty or shows the retained list, and it is   *)
(* the retained list that a review is opened on.                           *)
ShowsNow == rows = {} \/ (kind \in cached /\ rows = listCache[kind])
PaneIsRetained == ~loading /\ mode # "quitting" => ShowsNow
ReviewOfRetained == mode = "trust" => kind \in cached /\ rows = listCache[kind]
SteadyPane == PaneIsRetained /\ ReviewOfRetained

(* The edit of a list keeps its names.                                     *)
LEMMA UnmarkKeepsNames ==
  ASSUME NEW list \in SUBSET Row, NEW p PROVE Names(Unmark(list, p)) = Names(list)
<1>1. ASSUME NEW r \in list
      PROVE  (IF r.name = p THEN [r EXCEPT !.untrusted = FALSE] ELSE r).name = r.name
  BY DEF Row
<1> QED BY <1>1 DEF Unmark, Names

(* The list `brew trust` edits and what the pane shows of it.              *)
LEMMA TrustEdits ==
  ASSUME IInv, NEW c \in trusts, TrustSucceeds(c)
  PROVE  LET k == KindOf[trustPackage]
         IN  /\ cached' = cached \cup {k} /\ kind' = kind /\ loading' = loading
             /\ listCache'[k] = Unmark(listCache[k], trustPackage)
             /\ \A j \in Kinds \ {k} : listCache'[j] = listCache[j]
             /\ rows' = IF kind = k THEN Unmark(listCache[k], trustPackage) ELSE rows
<1> DEFINE k == KindOf[trustPackage]
<1>1. k \in Kinds
  BY KindAssumption DEF KindAssumption, TrustSucceeds, IInv, TypeOK, TrustType, OptPkg
<1>2. listCache \in [Kinds -> SUBSET Row]
  BY DEF IInv, TypeOK, ViewType
<1>3. /\ cached' = cached \cup {k} /\ kind' = kind /\ loading' = loading
      /\ listCache' = [listCache EXCEPT ![k] = Unmark(@, trustPackage)]
      /\ rows' = IF kind = k THEN listCache'[k] ELSE rows
  BY DEF TrustSucceeds, OutsideUntouched, loadVars
<1> HIDE DEF k
<1>4. listCache'[k] = Unmark(listCache[k], trustPackage)
  BY <1>1, <1>2, <1>3
<1>5. \A j \in Kinds \ {k} : listCache'[j] = listCache[j]
  BY <1>2, <1>3
<1> QED BY <1>3, <1>4, <1>5 DEF k

LEMMA NextShowsRetained ==
  ASSUME ScreenInv, ReloadKept, [Next]_vars, ~loading',
         loading => mode # "quitting",
         ~loading => ShowsNow
  PROVE  ShowsNow'
<1> USE DEF ShowsNow
<1>2. CASE loading
  <2> PICK c \in lists :
        LoadWhileQuitting(c) \/ LoadCancelled(c) \/ LoadFailed(c) \/ LoadSucceeded(c)
    BY <1>2, WhoEndsLoad DEF LoadStep
  <2>1. ~LoadWhileQuitting(c) /\ ~LoadCancelled(c)
    BY <1>2 DEF LoadWhileQuitting, LoadCancelled, ReloadCancelled, ReloadKept
  <2>2. CASE LoadFailed(c)
    BY <2>2 DEF LoadFailed
  <2>3. CASE LoadSucceeded(c)
    <3>1. c.kind = kind /\ kind' = kind /\ rows' = listCache'[c.kind]
      BY <2>3 DEF LoadSucceeded, ScreenInv, RunInv, BatchInv, LoadOfScreen
    <3>2. c.kind \in Kinds
      BY DEF ScreenInv, RunInv, IInv, TypeOK, LoadType, Load
    <3>3. PICK offers, marks : Retain(c, offers, marks)
      BY <2>3 DEF LoadSucceeded
    <3>4. c.kind \in cached'
      BY <3>2, <3>3 DEF Retain
    <3> QED BY <3>1, <3>4
  <2> QED BY <2>1, <2>2, <2>3
<1>3. CASE ~loading
  <2>1. ShowsNow
    BY <1>3
  <2>2. CASE UNCHANGED paneState \/ ShowsRetained \/ SizesMeasured
    BY <2>1, <2>2 DEF paneState, ShowsRetained, SizesMeasured
  <2>3. CASE SwitchKind
    BY <2>3 DEF SwitchKind, StartLoad
  <2>4. CASE Drops \/ Fails \/ Loads
    BY <1>3, <2>4, NoLoadNoLists DEF Drops, Fails, Loads, ScreenInv, RunInv
  <2>5. CASE Trusts
    <3> PICK c \in trusts : TrustSucceeds(c)
      BY <2>5 DEF Trusts
    <3> DEFINE k == KindOf[trustPackage]
    <3>1. /\ cached' = cached \cup {k} /\ kind' = kind
          /\ listCache'[k] = Unmark(listCache[k], trustPackage)
          /\ \A j \in Kinds \ {k} : listCache'[j] = listCache[j]
          /\ rows' = IF kind = k THEN Unmark(listCache[k], trustPackage) ELSE rows
      BY TrustEdits DEF ScreenInv, RunInv
    <3> HIDE DEF k
    <3>2. kind \in Kinds
      BY DEF ScreenInv, RunInv, IInv, TypeOK, ScreenType
    <3> QED BY <2>1, <3>1, <3>2
  <2> QED BY <2>2, <2>3, <2>4, <2>5, PaneSteps
<1> QED BY <1>2, <1>3

(* Under a review nothing replaces the pane but its own edit and a size    *)
(* pass, which shows the same list in another order.                       *)
LEMMA PaneUnderReview ==
  ASSUME ScreenInv, mode = "trust", ReviewOfRetained, [Next]_vars
  PROVE  \/ UNCHANGED <<kind, rows, cached, listCache>>
         \/ Trusts
         \/ Drops
<1>1. ~Fails /\ ~Loads /\ ~SwitchKind
  BY ReviewIsIdle DEF Fails, Loads, SwitchKind
<1>2. kind \in cached /\ rows = listCache[kind]
  BY DEF ReviewOfRetained
<1>3. CASE UNCHANGED paneState \/ ShowsRetained \/ SizesMeasured
  BY <1>2, <1>3 DEF paneState, ShowsRetained, SizesMeasured
<1> QED BY <1>1, <1>3, PaneSteps

LEMMA NextKeepsReviewOf ==
  ASSUME ScreenInv, ScreenInv', SteadyPane, [Next]_vars PROVE ReviewOfRetained'
<1> SUFFICES ASSUME mode' = "trust" PROVE (kind \in cached /\ rows = listCache[kind])'
  BY DEF ReviewOfRetained
<1>1. mode = "trust" \/ ReviewTrust
  BY ModeSteps DEF ScreenInv, KeepsMode, LeavesMode, ShowsRun, OpenPassword
<1>2. CASE mode = "trust"
  <2>1. ~Trusts
    BY DEF Trusts, TrustSucceeds
  <2>2. ~Drops
    BY DEF Drops, ScreenInv, ModeInv, ReviewIsOfPane
  <2> QED BY <1>2, <2>1, <2>2, PaneUnderReview DEF SteadyPane, ReviewOfRetained
<1>3. CASE ReviewTrust
  <2>1. rows # {} /\ ~loading /\ mode # "quitting" /\ UNCHANGED <<kind, rows, cached, listCache>>
    BY <1>3 DEF ReviewTrust, NormalKey, KeyboardOpen, RowsUntouched, OutsideUntouched, viewVars
  <2> QED BY <2>1 DEF SteadyPane, PaneIsRetained, ShowsNow
<1> QED BY <1>1, <1>2, <1>3

LEMMA OrderKeepsPane ==
  ASSUME [Orderly]_vars, ReloadKept, ScreenInv, PaneIsRetained, [Next]_vars
  PROVE  PaneIsRetained'
<1> SUFFICES ASSUME ~loading', mode' # "quitting" PROVE ShowsNow'
  BY DEF PaneIsRetained
<1>1. mode # "quitting"
  BY QuitStays DEF ScreenInv, RunInv, IInv
<1> QED BY <1>1, NextShowsRetained DEF PaneIsRetained

(* Without operations a resize may take a quit back, but only one that was *)
(* asked for over a dialog, and so over a pane that was not loading.       *)
PaneUnderDialog == DialogOpen => ShowsNow

LEMMA QuittingOpensNothing ==
  ASSUME ScreenInv, BrowsingInv, [Next]_vars, mode = "quitting",
         mode' # "quitting" \/ DialogOpen'
  PROVE  DialogOpen
<1> USE DEF DialogOpen
<1>1. CASE mode' # "quitting"
  <2>1. PICK t \in Terms : Resize(t)
    BY <1>1, WhoUnquits
  <2>2. ~OperationGone(t)
    BY NoJobThere DEF OperationGone, BrowsingInv
  <2>3. ResizedMode(t) # mode
    BY <1>1, <2>1 DEF Resize, TrustGone
  <2> QED BY <2>2, <2>3 DEF ResizedMode, ConfirmGone, BatchGone
<1>2. CASE ~DialogOpen /\ DialogOpen'
  <2>1. CASE InventoryKey \/ SizesStep \/ InfoCompleted
    <3>1. RestUntouched
      BY <2>1 DEF InventoryKey, Browse, StatusKey, Reorder, EnterSearch, SearchKey, SwitchKind,
                  Refresh, SizesStep, SizesSuperseded, SizesWhileQuitting, SizesFailed,
                  SizesMeasured, InfoCompleted
    <3> QED BY <1>2, <3>1 DEF RestUntouched, dialogVars
  <2>2. CASE LoadStep
    BY <1>2, <2>2 DEF LoadStep, LoadWhileQuitting, LoadCancelled, LoadFailed, LoadSucceeded,
                      RestUntouched, dialogVars
  <2>3. CASE OperationKey
    BY <2>3 DEF OperationKey, ConfirmOperation, ConfirmUpgradeAll, DismissConfirmation, NormalKey,
                KeyboardOpen, EnqueueConfirmed, StartConfirmed, StartBatch, EditPassword,
                SubmitPassword, EscapePassword
  <2>4. CASE JobMessage \/ JobStep
    BY <1>2, <2>4, OnlyOldEvents DEF dialogVars, BrowsingInv
  <2>5. CASE TrustKey \/ TrustStep
    <3>1. OutsideUntouched
      BY <2>5 DEF TrustKey, ReviewTrust, AbandonTrust, StartTrust, TrustStep, DropStaleTrust,
                  TrustWhileQuitting, DetailsArrive, TrustFails, TrustSucceeds
    <3> QED BY <1>2, <3>1 DEF OutsideUntouched, dialogVars
  <2>6. CASE \E t \in Terms : Resize(t)
    BY <1>2, <2>6 DEF Resize, ClearBatch
  <2>7. CASE Interrupt \/ Terminate \/ QuitKey
    BY <1>2, <2>7 DEF Interrupt, Terminate, QuitKey, BeginQuit, dialogVars
  <2>8. CASE UNCHANGED vars
    BY <1>2, <2>8 DEF vars, dialogVars
  <2> QED BY <2>1, <2>2, <2>3, <2>4, <2>5, <2>6, <2>7, <2>8 DEF Next, Terminated
<1> QED BY <1>1, <1>2

LEMMA BrowsingKeepsPane ==
  ASSUME ScreenInv, BrowsingInv, BrowsingInv', PaneIsRetained, PaneUnderDialog, [Next]_vars
  PROVE  PaneIsRetained' /\ PaneUnderDialog'
<1> SUFFICES ASSUME (~loading /\ mode # "quitting")' \/ DialogOpen' PROVE ShowsNow'
  BY DEF PaneIsRetained, PaneUnderDialog
<1>1. ~loading'
  BY DEF BrowsingInv, DialogIsAlone
<1>2. ReloadKept
  BY DEF BrowsingInv, NothingRuns, ReloadKept
<1>3. CASE mode = "quitting"
  <2>1. DialogOpen /\ ~loading
    BY <1>3, QuittingOpensNothing DEF BrowsingInv, DialogIsAlone
  <2> QED BY <1>1, <1>2, <2>1, NextShowsRetained DEF PaneUnderDialog
<1>4. CASE mode # "quitting"
  BY <1>1, <1>2, <1>4, NextShowsRetained DEF PaneIsRetained
<1> QED BY <1>3, <1>4

(* In such a session the pane shows the retained list or nothing between   *)
(* loads, and a review is of a row of that list: it is what finishTrust    *)
(* edits, and what it shows afterwards.                                    *)
THEOREM PaneInvariant == Spec /\ Calm => [](CommandHasReview /\ SteadyPane)
<1>1. Init => SteadyPane /\ PaneUnderDialog
  BY DEF Init, InitFrom, SteadyPane, PaneIsRetained, ReviewOfRetained, PaneUnderDialog, DialogOpen
<1>2. Spec /\ Undisturbed /\ []ReloadKept => [](CommandHasReview /\ SteadyPane)
  <2>1. ScreenInv /\ ScreenInv' /\ ReloadKept /\ SteadyPane /\ [Next]_vars /\ [Orderly]_vars =>
          SteadyPane'
    BY OrderKeepsPane, NextKeepsReviewOf DEF SteadyPane
  <2>2. OrderlyInv => CommandHasReview
    BY DEF OrderlyInv
  <2> QED BY <1>1, <2>1, <2>2, ScreenInvariant, OrderlyInvariant, PTL DEF Spec, Undisturbed
<1>3. NoOperations => (Spec => [](CommandHasReview /\ SteadyPane))
  <2> SUFFICES ASSUME NoOperations PROVE Spec => [](CommandHasReview /\ SteadyPane)
    OBVIOUS
  <2>1. ScreenInv /\ ScreenInv' /\ BrowsingInv /\ BrowsingInv' /\ SteadyPane /\ PaneUnderDialog
          /\ [Next]_vars => SteadyPane' /\ PaneUnderDialog'
    BY BrowsingKeepsPane, NextKeepsReviewOf DEF SteadyPane
  <2>2. BrowsingInv => CommandHasReview
    BY DEF BrowsingInv
  <2> QED BY <1>1, <2>1, <2>2, ScreenInvariant, BrowsingInvariant, PTL DEF Spec
<1> QED BY <1>2, <1>3, PTL DEF Calm

(* A trust that is granted leaves the pane listing the same packages       *)
(* (finishTrust edits the retained list and shows it; SPEC section 4).     *)
THEOREM TrustTakesOnlyTheMark == Spec /\ Calm => TrustClearsOnlyTheMark
<1>1. ASSUME ScreenInv, SteadyPane, [Next]_vars, mode = "trust"
      PROVE  Names(rows') = Names(rows)
  <2>1. kind \in cached /\ rows = listCache[kind] /\ kind \in Kinds
        /\ listCache \in [Kinds -> SUBSET Row]
    BY <1>1 DEF SteadyPane, ReviewOfRetained, ScreenInv, RunInv, IInv, TypeOK, ScreenType, ViewType
  <2>2. CASE Trusts
    <3> PICK c \in trusts : TrustSucceeds(c)
      BY <2>2 DEF Trusts
    <3> DEFINE k == KindOf[trustPackage]
    <3>1. rows' = IF kind = k THEN Unmark(listCache[k], trustPackage) ELSE rows
      BY <1>1, TrustEdits DEF ScreenInv, RunInv
    <3> HIDE DEF k
    <3>2. CASE kind = k
      <4>1. rows' = Unmark(rows, trustPackage) /\ rows \in SUBSET Row
        BY <2>1, <3>1, <3>2
      <4> QED BY <4>1, UnmarkKeepsNames
    <3>3. CASE kind # k
      BY <3>1, <3>3
    <3> QED BY <3>2, <3>3
  <2>3. CASE ~Trusts
    <3>1. rows' = rows
      BY <1>1, <2>3, PaneUnderReview DEF SteadyPane, Drops
    <3> QED BY <3>1
  <2> QED BY <2>2, <2>3
<1>2. ScreenInv /\ SteadyPane /\ [Next]_vars =>
        [mode = "trust" /\ trusting /\ ~trusting' => Names(rows') = Names(rows)]_vars
  BY <1>1
<1> QED BY <1>2, ScreenInvariant, PaneInvariant, PTL DEF Spec, TrustClearsOnlyTheMark

----------------------------------------------------------------------------
(* What is retained is complete.                                           *)

(* Each list has packages of its own kind, none that is installed is       *)
(* missing, and a review is of a package of the kind on screen.            *)
RowsOfKind == \A k \in Kinds : \A r \in listCache[k] : KindOf[r.name] = k
ListsAreComplete ==
  \A k \in cached : {p \in installed : KindOf[p] = k} \subseteq Names(listCache[k])
ReviewOfKind == mode = "trust" => KindOf[trustPackage] = kind
CompleteInv == RowsOfKind /\ ListsAreComplete /\ ReviewOfKind

(* Nothing is installed while the program runs.                            *)
LEMMA InstalledShrinks == ASSUME [Next]_vars PROVE installed' \subseteq installed
<1>1. CASE InventoryKey \/ SizesStep \/ InfoCompleted
  <2>1. RestUntouched
    BY <1>1 DEF InventoryKey, Browse, StatusKey, Reorder, EnterSearch, SearchKey, SwitchKind,
                Refresh, SizesStep, SizesSuperseded, SizesWhileQuitting, SizesFailed,
                SizesMeasured, InfoCompleted
  <2> QED BY <2>1 DEF RestUntouched, worldVars
<1>2. CASE LoadStep
  BY <1>2 DEF LoadStep, LoadWhileQuitting, LoadCancelled, LoadFailed, LoadSucceeded,
              RestUntouched, worldVars
<1>3. CASE OperationKey
  BY <1>3 DEF OperationKey, ConfirmOperation, ConfirmUpgradeAll, DismissConfirmation,
              EnqueueConfirmed, StartConfirmed, StartBatch, EditPassword, SubmitPassword,
              EscapePassword, worldVars
<1>4. CASE JobMessage
  BY <1>4 DEF JobMessage, JobStarted, JobStartFailed, IgnoreEvent, RejectRequest, OpenPassword,
              ResultStep, ResultWhileQuitting, ResultCleanupFailed, ResultFailed,
              ResultSelfUninstalled, ResultQueueUnsafe, ResultStartsNext, ResultReloads,
              TakeSuccess, TakeResult, worldVars
<1>5. CASE JobStep
  BY <1>5 DEF JobStep, JobEnd, StartFails, StartSucceeds, RequestPassword, FailAuthentication,
              RequestTimesOut, JobFinishes, Apply, worldVars
<1>6. CASE TrustKey \/ TrustStep
  <2>1. OutsideUntouched
    BY <1>6 DEF TrustKey, ReviewTrust, AbandonTrust, StartTrust, TrustStep, DropStaleTrust,
                TrustWhileQuitting, DetailsArrive, TrustFails, TrustSucceeds
  <2> QED BY <2>1 DEF OutsideUntouched
<1>7. CASE \E t \in Terms : Resize(t)
  BY <1>7 DEF Resize, worldVars
<1>8. CASE Interrupt \/ Terminate \/ QuitKey
  BY <1>8 DEF Interrupt, Terminate, QuitKey, BeginQuit, worldVars
<1>9. CASE UNCHANGED vars
  BY <1>9 DEF vars, worldVars
<1> QED BY <1>1, <1>2, <1>3, <1>4, <1>5, <1>6, <1>7, <1>8, <1>9 DEF Next, Terminated

(* A listing has the installed packages of its kind, all of them.          *)
LEMMA ListingIsComplete ==
  ASSUME NEW k, NEW offers, NEW marks
  PROVE  /\ \A r \in Listing(k, offers, marks) : KindOf[r.name] = k
         /\ Names(Listing(k, offers, marks)) = {p \in installed : KindOf[p] = k}
<1> DEFINE row(p) == [name |-> p, offered |-> p \in offers, untrusted |-> p \in marks]
<1>1. \A p : row(p).name = p
  OBVIOUS
<1>2. Listing(k, offers, marks) = {row(p) : p \in {q \in installed : KindOf[q] = k}}
  BY DEF Listing
<1> HIDE DEF row
<1> QED BY <1>1, <1>2 DEF Names

LEMMA NextKeepsLists ==
  ASSUME ScreenInv, CommandHasReview, SteadyPane, CompleteInv, [Next]_vars
  PROVE  RowsOfKind' /\ ListsAreComplete'
<1>0. /\ kind \in Kinds /\ cached \subseteq Kinds /\ listCache \in [Kinds -> SUBSET Row]
      /\ installed' \subseteq installed
  BY InstalledShrinks DEF ScreenInv, RunInv, IInv, TypeOK, ScreenType, ViewType
<1>1. CASE UNCHANGED <<cached, listCache>>
  BY <1>0, <1>1 DEF CompleteInv, RowsOfKind, ListsAreComplete
<1>2. CASE Drops
  BY <1>2 DEF Drops, InvalidateCaches, NoLists, RowsOfKind, ListsAreComplete
<1>3. CASE Loads
  <2> PICK c \in lists : LoadSucceeded(c)
    BY <1>3 DEF Loads
  <2>1. PICK offers, marks : Retain(c, offers, marks)
    BY DEF LoadSucceeded
  <2>2. \A k \in Kinds : listCache'[k] = Listing(k, offers, marks)
                         \/ (listCache'[k] = listCache[k] /\ (k \in cached' => k \in cached))
    BY <2>1 DEF Retain
  <2>3. cached' \subseteq Kinds
    BY <1>0, <2>1 DEF Retain, ScreenInv, RunInv, IInv, TypeOK, LoadType, Load
  <2>4. RowsOfKind'
    BY <2>2, ListingIsComplete DEF CompleteInv, RowsOfKind
  <2>5. ASSUME NEW k \in cached'
        PROVE  {p \in installed' : KindOf[p] = k} \subseteq Names(listCache'[k])
    <3>1. CASE listCache'[k] = Listing(k, offers, marks)
      <4>1. Names(Listing(k, offers, marks)) = {p \in installed : KindOf[p] = k}
        BY ListingIsComplete
      <4> QED BY <1>0, <3>1, <4>1
    <3>2. CASE listCache'[k] = listCache[k] /\ k \in cached
      BY <1>0, <3>2 DEF CompleteInv, ListsAreComplete
    <3> QED BY <2>2, <2>3, <3>1, <3>2
  <2> QED BY <2>4, <2>5 DEF ListsAreComplete
<1>4. CASE Trusts
  <2> PICK c \in trusts : TrustSucceeds(c)
    BY <1>4 DEF Trusts
  <2>1. mode = "trust"
    BY CommandFindsReview DEF TrustSucceeds
  <2>2. KindOf[trustPackage] = kind /\ kind \in cached
    BY <2>1 DEF CompleteInv, ReviewOfKind, SteadyPane, ReviewOfRetained
  <2>3. /\ cached' = cached \cup {kind}
        /\ listCache'[kind] = Unmark(listCache[kind], trustPackage)
        /\ \A j \in Kinds \ {kind} : listCache'[j] = listCache[j]
    BY <2>2, TrustEdits DEF ScreenInv, RunInv
  <2>4. cached' = cached
    BY <2>2, <2>3
  <2>5. Names(listCache'[kind]) = Names(listCache[kind])
    BY <1>0, <2>3, UnmarkKeepsNames
  <2>6. \A r \in listCache'[kind] : \E q \in listCache[kind] : q.name = r.name
    BY <1>0, <2>3, UnmarkedRows
  <2>7. RowsOfKind'
    BY <2>3, <2>6 DEF CompleteInv, RowsOfKind
  <2>8. ListsAreComplete'
    <3> SUFFICES ASSUME NEW k \in cached
                 PROVE  {p \in installed' : KindOf[p] = k} \subseteq Names(listCache'[k])
      BY <2>4 DEF ListsAreComplete
    <3>1. Names(listCache'[k]) = Names(listCache[k])
      BY <1>0, <2>3, <2>5
    <3> QED BY <1>0, <3>1 DEF CompleteInv, ListsAreComplete
  <2> QED BY <2>7, <2>8
<1> QED BY <1>1, <1>2, <1>3, <1>4, PaneSteps
        DEF paneState, ShowsRetained, SwitchKind, Fails, LoadFailed, SizesMeasured

LEMMA NextKeepsReviewOfKind ==
  ASSUME ScreenInv, ScreenInv', SteadyPane, CompleteInv, [Next]_vars PROVE ReviewOfKind'
<1> SUFFICES ASSUME mode' = "trust" PROVE KindOf[trustPackage'] = kind'
  BY DEF ReviewOfKind
<1>1. (mode = "trust" /\ trustPackage' = trustPackage) \/ ReviewTrust
  BY ModeSteps DEF ScreenInv, KeepsMode, LeavesMode, ShowsRun, OpenPassword
<1>2. CASE mode = "trust" /\ trustPackage' = trustPackage
  <2>1. ~Trusts
    BY DEF Trusts, TrustSucceeds
  <2>2. ~Drops
    BY DEF Drops, ScreenInv, ModeInv, ReviewIsOfPane
  <2> QED BY <1>2, <2>1, <2>2, PaneUnderReview DEF SteadyPane, CompleteInv, ReviewOfKind
<1>3. CASE ReviewTrust
  <2>1. \E r \in rows : trustPackage' = r.name
    BY <1>3 DEF ReviewTrust, CancelTrust
  <2>2. rows # {} /\ ~loading /\ mode # "quitting" /\ kind' = kind
    BY <1>3 DEF ReviewTrust, NormalKey, KeyboardOpen, OutsideUntouched
  <2>3. rows = listCache[kind] /\ kind \in Kinds
    BY <2>2 DEF SteadyPane, PaneIsRetained, ShowsNow, ScreenInv, RunInv, IInv, TypeOK, ScreenType
  <2> QED BY <2>1, <2>2, <2>3 DEF CompleteInv, RowsOfKind
<1> QED BY <1>1, <1>2, <1>3

(* In such a session that read no snapshot, no retained list misses a      *)
(* package that is installed: a list is retained whole, by a load, and     *)
(* edited only in place (handleListResult, finishTrust).                   *)
THEOREM RetainedListsAreComplete ==
  ASSUME FirstSession PROVE Spec /\ Calm => []RetainedIsComplete
<1>1. Init => CompleteInv
  <2> SUFFICES ASSUME NEW s \in Snapshots, InitFrom(Seed(s)) PROVE CompleteInv
    BY DEF Init
  <2>1. cached = {} /\ listCache = NoLists /\ mode = "normal"
    BY SeedOfFirstSession DEF InitFrom, NoSnapshot
  <2> QED BY <2>1 DEF NoLists, CompleteInv, RowsOfKind, ListsAreComplete, ReviewOfKind
<1>2. ScreenInv /\ ScreenInv' /\ CommandHasReview /\ SteadyPane /\ CompleteInv /\ [Next]_vars
        => CompleteInv'
  BY NextKeepsLists, NextKeepsReviewOfKind DEF CompleteInv
<1>3. CompleteInv => RetainedIsComplete
  BY DEF CompleteInv, ListsAreComplete, RetainedIsComplete
<1> QED BY <1>1, <1>2, <1>3, ScreenInvariant, PaneInvariant, PTL DEF Spec

----------------------------------------------------------------------------
(* A terminal that always has room.                                        *)
(*                                                                         *)
(* Every size the terminal takes fits every dialog of every package.  It   *)
(* disturbs nothing and cancels nothing: the conditions above hold of it.  *)
Roomy ==
  \A t \in Terms \ {Unsized} :
    /\ t \notin TooSmall
    /\ FitsIn[t] = Pkgs
    /\ t \in BatchModalIn /\ t \in TrustModalIn /\ t \in TrustFullIn

LEMMA RoomyResize ==
  ASSUME Roomy, TypeOK, NEW t \in Terms, Resize(t)
  PROVE  ~ConfirmGone(t) /\ ~BatchGone(t) /\ ~OperationGone(t)
<1>1. /\ t \notin TooSmall /\ FitsIn[t] = Pkgs
      /\ t \in BatchModalIn
  BY DEF Resize, Roomy
<1>2. ~ConfirmGone(t)
  BY <1>1 DEF ConfirmGone, TypeOK, DialogType, OptPkg
<1>3. ~BatchGone(t)
  <2>1. \A i \in DOMAIN batchConfirmation : batchConfirmation[i] \in Pkgs
    BY ElementOfSeq, LenProperties DEF TypeOK, DialogType
  <2> QED BY <1>1, <2>1 DEF BatchGone, UpgradeAllFits
<1>4. ~OperationGone(t)
  BY <1>1 DEF OperationGone, JobRunning, TypeOK, RunType, OptPkg
<1> QED BY <1>2, <1>3, <1>4

LEMMA RoomyCancelsNothing ==
  ASSUME Roomy, TypeOK, [Next]_vars, cancelReason # "terminal" PROVE cancelReason' # "terminal"
<1> SUFFICES ASSUME cancelReason' = "terminal" PROVE FALSE
  OBVIOUS
<1>1. PICK t \in Terms : Resize(t)
  BY WhoCancels
<1> QED BY <1>1, RoomyResize DEF Resize

(* In a terminal with room for every dialog no resize disturbs a run, and  *)
(* none cancels one (resize, fitsTerminal).                                *)
THEOREM RoomyIsCalm == ASSUME Roomy PROVE Spec => Undisturbed /\ Steady /\ Calm
<1>1. IInv /\ [Next]_vars => [Orderly]_vars
  BY RoomyResize DEF IInv, Orderly, Disturbs
<1>2. Init => cancelReason # "terminal"
  BY DEF Init, InitFrom
<1>3. IInv /\ cancelReason # "terminal" /\ [Next]_vars => (cancelReason # "terminal")'
  BY RoomyCancelsNothing DEF IInv
<1>4. cancelReason # "terminal" => ReloadKept
  BY DEF ReloadKept
<1> QED BY <1>1, <1>2, <1>3, <1>4, SessionInvariant, PTL DEF Spec, Undisturbed, Steady, Calm

----------------------------------------------------------------------------
(* The loader as the session sees it.                                      *)
USE DEF Loader!contractVars

(* Every step moves the selection, hears of a lookup, shuts down, or does  *)
(* nothing of the kind.                                                    *)
LEMMA LookupSteps ==
  ASSUME [Next]_vars
  PROVE  \/ SelectInfo /\ UNCHANGED closing
         \/ InfoCompleted
         \/ closing' = TRUE /\ UNCHANGED infoPending
         \/ UNCHANGED <<infoPending, closing>>
<1>1. CASE InventoryKey \/ SizesStep \/ InfoCompleted
  BY <1>1 DEF InventoryKey, Browse, StatusKey, Reorder, EnterSearch, SearchKey, SwitchKind, Refresh,
              SizesStep, SizesSuperseded, SizesWhileQuitting, SizesFailed, SizesMeasured,
              RestUntouched
<1>2. CASE LoadStep
  BY <1>2 DEF LoadStep, LoadWhileQuitting, LoadCancelled, LoadFailed, LoadSucceeded, RestUntouched
<1>3. CASE OperationKey
  BY <1>3 DEF OperationKey, ConfirmOperation, ConfirmUpgradeAll, DismissConfirmation,
              EnqueueConfirmed, StartConfirmed, StartBatch, EditPassword, SubmitPassword,
              EscapePassword, InventoryUntouched, OthersUntouched
<1>4. CASE JobMessage
  BY <1>4 DEF JobMessage, JobStarted, JobStartFailed, IgnoreEvent, RejectRequest, OpenPassword,
              ResultStep, ResultWhileQuitting, ResultCleanupFailed, ResultFailed,
              ResultSelfUninstalled, ResultQueueUnsafe, ResultStartsNext, ResultReloads,
              EnterQuit, InventoryUntouched, OthersUntouched
<1>5. CASE JobStep
  <2>1. UIUntouched
    BY <1>5 DEF JobStep, JobEnd, StartFails, StartSucceeds, RequestPassword, FailAuthentication,
                RequestTimesOut, JobFinishes
  <2> QED BY <2>1 DEF UIUntouched, InventoryUntouched, OthersUntouched
<1>6. CASE TrustKey \/ TrustStep
  BY <1>6 DEF TrustKey, ReviewTrust, AbandonTrust, StartTrust, TrustStep, DropStaleTrust,
              TrustWhileQuitting, DetailsArrive, TrustFails, TrustSucceeds, OutsideUntouched,
              RowsUntouched
<1>7. CASE \E t \in Terms : Resize(t)
  BY <1>7 DEF Resize, quitVars
<1>8. CASE Interrupt \/ Terminate \/ QuitKey
  BY <1>8 DEF Interrupt, Terminate, QuitKey, BeginQuit, EnterQuit
<1>9. CASE UNCHANGED vars
  BY <1>9 DEF vars, quitVars
<1> QED BY <1>1, <1>2, <1>3, <1>4, <1>5, <1>6, <1>7, <1>8, <1>9 DEF Next, Terminated

(* The flag the session keeps is a run of the loader's contract.           *)
THEOREM SessionUsesLoader == Spec => ImplementsLoader
<1>1. Init => Loader!Init
  BY DEF Init, InitFrom, Loader!Init
<1>2. ASSUME IInv, [Next]_vars PROVE [Loader!Next]_(Loader!contractVars)
  <2>1. infoPending \in BOOLEAN /\ closing \in BOOLEAN
    BY <1>2 DEF IInv, TypeOK, InfoType, QuitType
  <2>2. CASE SelectInfo /\ UNCHANGED closing
    BY <2>1, <2>2 DEF SelectInfo, Loader!Next, Loader!Start
  <2>3. CASE InfoCompleted
    BY <2>1, <2>3 DEF InfoCompleted, RestUntouched, Loader!Next, Loader!Answer
  <2>4. CASE closing' = TRUE /\ UNCHANGED infoPending
    BY <2>4 DEF Loader!Next, Loader!Stop
  <2> QED BY <1>2, <2>2, <2>3, <2>4, LookupSteps
<1> QED BY <1>1, <1>2, SessionInvariant, PTL DEF Spec, ImplementsLoader, Loader!Spec

----------------------------------------------------------------------------
(* The job as the session sees it.                                         *)
(*                                                                         *)
(* A job that has not begun has asked nothing, and one that ended has its  *)
(* result.  After a failed cleanup the operation stays on the screen, and  *)
(* that is what keeps another from starting.                               *)
UncleanEndIsLast ==
  cleanupErr =>
    /\ JobRunning /\ ~loading
    /\ \/ jobPhase = "finished" /\ jobResult = "cleanupErr"
       \/ jobPhase = "idle" /\ ~startPending
JobsInv ==
  /\ UncleanEndIsLast
  /\ jobPhase \in {"idle", "starting"} => jobRequest = 0
  /\ jobPhase = "finished" <=> jobResult # "none"
  /\ jobResult = "cleanupErr" => cleanupErr

(* A request comes from the job, and is withdrawn in many ways; the        *)
(* cleanup fails only when the job ends.                                   *)
LEMMA RequestSteps ==
  ASSUME [Next]_vars
  PROVE  \/ RequestPassword \/ JobEnd
         \/ UNCHANGED <<requests, cleanupErr>> /\ jobRequest' \in {jobRequest, 0}
<1>1. CASE InventoryKey \/ SizesStep \/ InfoCompleted
  <2>1. OperationUntouched
    BY <1>1 DEF InventoryKey, Browse, StatusKey, Reorder, EnterSearch, SearchKey, SwitchKind,
                Refresh, SizesStep, SizesSuperseded, SizesWhileQuitting, SizesFailed,
                SizesMeasured, InfoCompleted
  <2> QED BY <2>1 DEF OperationUntouched, jobVars
<1>2. CASE LoadStep
  <2>1. JobUntouched
    BY <1>2 DEF LoadStep, LoadWhileQuitting, LoadCancelled, LoadFailed, LoadSucceeded
  <2> QED BY <2>1 DEF JobUntouched, jobVars
<1>3. CASE OperationKey
  BY <1>3 DEF OperationKey, ConfirmOperation, ConfirmUpgradeAll, DismissConfirmation,
              EnqueueConfirmed, StartConfirmed, StartBatch, StartUninstall, EditPassword,
              SubmitPassword, EscapePassword, JobButLatch, jobVars
<1>4. CASE JobMessage
  BY <1>4 DEF JobMessage, JobStarted, JobStartFailed, IgnoreEvent, RejectRequest, OpenPassword,
              ResultStep, ResultWhileQuitting, ResultCleanupFailed, ResultFailed,
              ResultSelfUninstalled, ResultQueueUnsafe, ResultStartsNext, ResultReloads,
              JobGone, StartUninstall
<1>5. CASE JobStep
  BY <1>5 DEF JobStep, StartFails, StartSucceeds, FailAuthentication, RequestTimesOut
<1>6. CASE TrustKey \/ TrustStep
  <2>1. OutsideUntouched
    BY <1>6 DEF TrustKey, ReviewTrust, AbandonTrust, StartTrust, TrustStep, DropStaleTrust,
                TrustWhileQuitting, DetailsArrive, TrustFails, TrustSucceeds
  <2> QED BY <2>1 DEF OutsideUntouched, jobVars
<1>7. CASE \E t \in Terms : Resize(t)
  BY <1>7 DEF Resize, JobButLatch
<1>8. CASE Interrupt \/ Terminate \/ QuitKey
  BY <1>8 DEF Interrupt, Terminate, QuitKey, BeginQuit, JobButLatch
<1>9. CASE UNCHANGED vars
  BY <1>9 DEF vars, jobVars
<1> QED BY <1>1, <1>2, <1>3, <1>4, <1>5, <1>6, <1>7, <1>8, <1>9 DEF Next, Terminated

(* The steps of the run that the job does not take part in.                *)
Standby ==
  /\ UNCHANGED <<jobPhase, jobResult, startPending, startMsg, requests, cleanupErr>>
  /\ jobRequest' \in {jobRequest, 0}
  /\ cleanupErr => UNCHANGED <<operation, loading>>

Commences ==
  /\ jobPhase = "idle" /\ jobPhase' = "starting"
  /\ startMsg = "none" /\ startMsg' = "none" /\ ~startPending /\ startPending'
  /\ jobResult = "none" /\ jobResult' = "none" /\ jobRequest' = 0
  /\ ~cleanupErr /\ UNCHANGED <<requests, cleanupErr>>

(* A step of the session is one of these to its job.                       *)
JobMoves ==
  \/ Standby \/ Commences
  \/ StartFails \/ StartSucceeds \/ JobStarted \/ JobStartFailed
  \/ RequestPassword \/ JobEnd \/ ResultStep

LEMMA QuietIsStandby ==
  ASSUME IInv, IInv', Quiet, UNCHANGED <<requests, cleanupErr>>, jobRequest' \in {jobRequest, 0}
  PROVE  Standby
<1>1. UNCHANGED <<operation, loading, jobPhase, jobResult, startPending>>
  BY DEF Quiet, runState
<1>2. HandlesFollowJob /\ HandlesFollowJob' /\ startMsg \in {"none", "started", "failed"}
      /\ startMsg' \in {"none", "started", "failed"}
  BY DEF IInv, Lifecycle, TypeOK, JobType
<1>3. startMsg' = startMsg
  BY <1>1, <1>2 DEF HandlesFollowJob
<1> QED BY <1>1, <1>3 DEF Standby

LEMMA MovesOfJob == ASSUME IInv, IInv', JobsInv, [Next]_vars PROVE JobMoves
<1>1. CASE RequestPassword \/ JobEnd
  BY <1>1 DEF JobMoves
<1>2. CASE ~RequestPassword /\ ~JobEnd
  <2>1. UNCHANGED <<requests, cleanupErr>> /\ jobRequest' \in {jobRequest, 0}
    BY <1>2, RequestSteps
  <2>2. CASE Quiet
    BY <2>1, <2>2, QuietIsStandby DEF JobMoves
  <2>3. CASE SwitchKind \/ Refresh
    <3>1. UNCHANGED <<jobPhase, jobResult, startPending, startMsg>> /\ ~JobRunning
      BY <2>3 DEF SwitchKind, Refresh, OperationUntouched, holdVars, jobVars
    <3> QED BY <2>1, <3>1 DEF JobMoves, Standby, JobsInv, UncleanEndIsLast
  <2>4. CASE LoadStep
    <3>1. /\ UNCHANGED <<jobPhase, jobResult, startPending, startMsg>>
          /\ lists # {}
      BY <2>4 DEF LoadStep, TakeLoad, LoadWhileQuitting, LoadCancelled, LoadFailed,
                  LoadSucceeded, JobUntouched, holdVars, jobVars
    <3>2. loading
      BY <3>1 DEF IInv, Lifecycle, LoadIsAlone
    <3> QED BY <2>1, <3>1, <3>2 DEF JobMoves, Standby, JobsInv, UncleanEndIsLast
  <2>5. CASE ConfirmOperation("uninstall") \/ ConfirmOperation("upgrade") \/ ConfirmUpgradeAll
    <3>1. UNCHANGED <<jobPhase, jobResult, startPending, startMsg, operation, loading>>
      BY <2>5 DEF ConfirmOperation, ConfirmUpgradeAll, InventoryUntouched, runVars, holdVars,
                  jobVars, loadVars
    <3> QED BY <2>1, <3>1 DEF JobMoves, Standby
  <2>6. CASE EnqueueConfirmed
    <3>1. UNCHANGED <<jobPhase, jobResult, startPending, startMsg, operation, loading>>
      BY <2>6 DEF EnqueueConfirmed, InventoryUntouched, holdVars, jobVars, loadVars
    <3> QED BY <2>1, <3>1 DEF JobMoves, Standby
  <2>7. CASE StartConfirmed \/ StartBatch
    <3>1. ~JobRunning
      BY <2>7 DEF StartConfirmed, StartBatch, UpgradeAllFits, IInv, Lifecycle, BatchAwaitsNoJob
    <3>2. ~startPending /\ ~jobPending
      BY <3>1 DEF IInv, Lifecycle, JobHasOperation
    <3>3. jobPhase = "idle" /\ startMsg = "none"
      BY <3>2 DEF IInv, Lifecycle, HandlesFollowJob, TypeOK, JobType
    <3>4. jobResult = "none" /\ ~cleanupErr
      BY <3>1, <3>3 DEF JobsInv, UncleanEndIsLast
    <3> QED BY <2>1, <2>7, <3>2, <3>3, <3>4
            DEF StartConfirmed, StartBatch, StartUninstall, JobMoves, Commences
  <2>8. CASE JobStarted \/ JobStartFailed \/ ResultStep \/ StartFails \/ StartSucceeds
    BY <2>8 DEF JobMoves
  <2> QED BY <1>2, <2>2, <2>3, <2>4, <2>5, <2>6, <2>7, <2>8, StepsOfRun DEF Loud
<1> QED BY <1>1, <1>2

----------------------------------------------------------------------------
(* Taking a result ends the job, and may start the next.                   *)
LEMMA ResultsOfJob ==
  ASSUME IInv, JobsInv, ResultStep
  PROVE  /\ jobPhase = "finished" /\ ~startPending /\ startMsg = "none"
         /\ jobResult' = "none" /\ jobRequest' = 0 /\ UNCHANGED <<requests, cleanupErr>>
         /\ startMsg' = "none"
         /\ \/ jobPhase' = "idle" /\ ~startPending'
               /\ (cleanupErr => UNCHANGED <<operation, loading>>)
            \/ jobPhase' = "starting" /\ startPending' /\ ~cleanupErr
<1>1. TakeResult
  BY DEF ResultStep, ResultWhileQuitting, ResultCleanupFailed, ResultFailed,
         ResultSelfUninstalled, ResultQueueUnsafe, ResultStartsNext, ResultReloads, TakeSuccess
<1>2. jobPhase = "finished" /\ jobPending
  BY <1>1 DEF TakeResult
<1>3. ~startPending /\ startMsg = "none"
  BY <1>2 DEF IInv, Lifecycle, HandlesFollowJob
<1>4. cleanupErr => jobResult = "cleanupErr"
  BY <1>2 DEF JobsInv, UncleanEndIsLast
<1>5. CASE ResultWhileQuitting \/ ResultCleanupFailed
  BY <1>2, <1>3, <1>5 DEF ResultWhileQuitting, ResultCleanupFailed, JobGone, InventoryUntouched,
                          runVars, loadVars
<1>6. CASE ResultFailed \/ ResultSelfUninstalled \/ ResultQueueUnsafe \/ ResultReloads
  BY <1>2, <1>3, <1>4, <1>6 DEF ResultFailed, ResultSelfUninstalled, ResultQueueUnsafe,
                                ResultReloads, TakeSuccess, JobGone
<1>7. CASE ResultStartsNext
  BY <1>2, <1>3, <1>4, <1>7 DEF ResultStartsNext, TakeSuccess, StartUninstall
<1> QED BY <1>5, <1>6, <1>7 DEF ResultStep

LEMMA JobEndsOnce ==
  ASSUME IInv, JobsInv, JobEnd
  PROVE  /\ jobPhase = "live" /\ jobPhase' = "finished" /\ ~cleanupErr
         /\ jobResult' # "none" /\ (jobResult' = "cleanupErr" <=> cleanupErr')
         /\ UNCHANGED <<operation, loading, startPending, startMsg, jobRequest, requests>>
         /\ JobRunning /\ ~loading /\ jobRequest \in 0..MaxRequests
<1>1. PICK result \in Results : JobFinishes(result)
  BY DEF JobEnd
<1>2. /\ jobPhase = "live" /\ jobPhase' = "finished" /\ jobResult' = result
      /\ result \in Outcomes \cup {"cleanupErr"}
      /\ cleanupErr' = (cleanupErr \/ result = "cleanupErr")
      /\ UNCHANGED <<operation, loading, startPending, startMsg, jobRequest, requests>>
  BY <1>1 DEF JobFinishes, UIUntouched, InventoryUntouched, runVars, holdVars, loadVars
<1>3. result # "none"
  BY <1>1 DEF Results
<1>4. ~cleanupErr
  BY <1>2 DEF JobsInv, UncleanEndIsLast
<1>5. (startPending \/ jobPending) /\ JobRunning
  BY <1>2 DEF IInv, Lifecycle, HandlesFollowJob, JobHasOperation, TypeOK, JobType
<1>6. ~loading
  BY <1>5 DEF IInv, Lifecycle, LoadIsAlone
<1> QED BY <1>2, <1>3, <1>4, <1>5, <1>6 DEF IInv, TypeOK, JobType

LEMMA NextKeepsJobs == ASSUME IInv, IInv', JobsInv, [Next]_vars PROVE JobsInv'
<1>0. /\ jobPhase \in {"idle", "starting", "live", "finished"}
      /\ HandlesFollowJob
  BY DEF IInv, Lifecycle, TypeOK, JobType
<1>1. CASE Standby
  BY <1>1 DEF Standby, JobsInv, UncleanEndIsLast, JobRunning
<1>2. CASE Commences
  BY <1>2 DEF Commences, JobsInv, UncleanEndIsLast
<1>3. CASE StartFails \/ StartSucceeds
  <2>1. /\ jobPhase = "starting" /\ jobPhase' \in {"idle", "live"}
        /\ UNCHANGED <<jobResult, jobRequest, cleanupErr>>
    BY <1>3 DEF StartFails, StartSucceeds
  <2> QED BY <2>1, <1>0 DEF JobsInv, UncleanEndIsLast, HandlesFollowJob
<1>4. CASE JobStarted \/ JobStartFailed
  <2>1. /\ UNCHANGED <<jobPhase, jobResult, jobRequest, cleanupErr>>
        /\ startPending
    BY <1>0, <1>4 DEF JobStarted, JobStartFailed, HandlesFollowJob
  <2>2. ~(jobPhase = "idle" /\ cleanupErr)
    BY <2>1 DEF JobsInv, UncleanEndIsLast
  <2>3. cleanupErr => ~JobStartFailed
    BY <2>2, <1>0 DEF JobStartFailed, HandlesFollowJob
  <2>4. cleanupErr => UNCHANGED <<operation, loading>>
    BY <1>4, <2>3 DEF JobStarted, InventoryUntouched, runVars, loadVars
  <2> QED BY <2>1, <2>2, <2>4 DEF JobsInv, UncleanEndIsLast, JobRunning
<1>5. CASE RequestPassword
  BY <1>5 DEF RequestPassword, UIUntouched, JobsInv, UncleanEndIsLast
<1>6. CASE JobEnd
  BY <1>6, JobEndsOnce DEF JobsInv, UncleanEndIsLast, JobRunning
<1>7. CASE ResultStep
  BY <1>7, ResultsOfJob DEF JobsInv, UncleanEndIsLast, JobRunning
<1> QED BY <1>1, <1>2, <1>3, <1>4, <1>5, <1>6, <1>7, MovesOfJob DEF JobMoves

LEMMA JobsInvariant == Spec => []JobsInv
<1>1. Init => JobsInv
  BY DEF Init, InitFrom, JobsInv, UncleanEndIsLast
<1>2. IInv /\ IInv' /\ JobsInv /\ [Next]_vars => JobsInv'
  BY NextKeepsJobs
<1> QED BY <1>1, <1>2, SessionInvariant, PTL DEF Spec

(* A failed cleanup is the end of the run: although the quit it asks for   *)
(* can be taken back (a terminal that shrinks leaves modeQuitting), and    *)
(* then keys are heard again, no handler starts another operation.         *)
THEOREM NothingAfterFailedCleanup == Spec => NothingFollowsFailedCleanup
<1>1. IInv /\ IInv' /\ JobsInv /\ [Next]_vars =>
       [startPending' /\ ~startPending => ~cleanupErr]_vars
  <2> SUFFICES ASSUME IInv, IInv', JobsInv, [Next]_vars, startPending', ~startPending
               PROVE  ~cleanupErr
    OBVIOUS
  <2>1. ~(Standby \/ StartFails \/ StartSucceeds \/ JobStarted \/ JobStartFailed \/ RequestPassword
          \/ JobEnd)
    BY JobEndsOnce DEF Standby, StartFails, StartSucceeds, JobStarted, JobStartFailed,
                       RequestPassword, UIUntouched, holdVars
  <2>2. Commences \/ ResultStep
    BY <2>1, MovesOfJob DEF JobMoves
  <2> QED BY <2>2, ResultsOfJob DEF Commences
<1> QED BY <1>1, SessionInvariant, JobsInvariant, PTL DEF Spec, NothingFollowsFailedCleanup

----------------------------------------------------------------------------
USE DEF Jobs!contractVars

LEMMA StandbyOfSeries ==
  ASSUME IInv, JobsInv, Standby PROVE [Jobs!SeriesNext]_(Jobs!contractVars)
<1>1. UNCHANGED <<JobState, JobRemains, 1..requests, JobOutcome>>
  BY DEF Standby, JobState, JobRemains, JobOutcome
<1>2. JobAsks' \in {JobAsks, 0}
  BY DEF Standby, JobAsks
<1>3. JobAsks' # JobAsks => Jobs!Withdraw
  BY <1>1, <1>2 DEF Jobs!Withdraw
<1> QED BY <1>1, <1>3 DEF Jobs!SeriesNext, Jobs!Next

(* The jobs of a session are one series of the contract's jobs.            *)
THEOREM SessionRunsJobs == Spec => ImplementsJobs
<1>1. Init => Jobs!Init
  <2> SUFFICES ASSUME Init PROVE Jobs!Init
    OBVIOUS
  <2>1. jobPhase = "idle" /\ startMsg = "none" /\ requests = 0 /\ jobRequest = 0 /\ ~cleanupErr
    BY DEF Init, InitFrom
  <2>2. 1..requests = {}
    BY <2>1
  <2> QED BY <2>1, <2>2 DEF Jobs!Init, JobState, JobRemains, JobAsks, JobOutcome
<1>2. ASSUME IInv, IInv', JobsInv, [Next]_vars PROVE [Jobs!SeriesNext]_(Jobs!contractVars)
  <2>0. HandlesFollowJob /\ TypeOK
    BY <1>2 DEF IInv, Lifecycle
  <2>1. CASE Standby
    BY <1>2, <2>1, StandbyOfSeries
  <2>2. CASE Commences
    <3>1. /\ JobState = "starting" /\ JobState' = "starting" /\ JobRemains'
          /\ JobAsks = 0 /\ JobAsks' = 0 /\ JobOutcome = Unended /\ JobOutcome' = Unended
          /\ UNCHANGED (1..requests)
      BY <2>2 DEF Commences, JobState, JobRemains, JobAsks, JobOutcome
    <3>2. Jobs!Setup
      BY <3>1 DEF Jobs!Setup
    <3> QED BY <3>2 DEF Jobs!SeriesNext, Jobs!Next
  <2>3. CASE StartFails
    <3>1. /\ jobPhase = "starting" /\ startMsg = "none" /\ ~cleanupErr
          /\ jobPhase' = "idle" /\ startMsg' = "failed" /\ UNCHANGED <<requests, cleanupErr>>
      BY <1>2, <2>0, <2>3 DEF StartFails, HandlesFollowJob, JobsInv, UncleanEndIsLast
    <3>2. /\ JobState = "starting" /\ JobState' = "failed" /\ JobRemains' \in BOOLEAN
          /\ UNCHANGED <<1..requests, JobAsks, JobOutcome>>
      BY <3>1 DEF JobState, JobRemains, JobAsks, JobOutcome
    <3>3. Jobs!Fail
      BY <3>2 DEF Jobs!Fail
    <3> QED BY <3>3 DEF Jobs!SeriesNext, Jobs!Next
  <2>4. CASE StartSucceeds
    <3>1. /\ jobPhase = "starting" /\ startMsg = "none" /\ ~cleanupErr /\ jobRequest = 0
          /\ jobPhase' = "live" /\ UNCHANGED <<jobRequest, requests, cleanupErr>>
      BY <1>2, <2>0, <2>4 DEF StartSucceeds, HandlesFollowJob, JobsInv, UncleanEndIsLast
    <3>2. /\ JobState = "starting" /\ JobState' = "started" /\ JobRemains'
          /\ UNCHANGED <<1..requests, JobAsks, JobOutcome>>
      BY <3>1 DEF JobState, JobRemains, JobAsks, JobOutcome
    <3>3. Jobs!Launch
      BY <3>2 DEF Jobs!Launch
    <3> QED BY <3>3 DEF Jobs!SeriesNext, Jobs!Next
  <2>5. CASE JobStarted
    <3>1. /\ startMsg = "started" /\ startMsg' = "none" /\ jobPhase \in {"live", "finished"}
          /\ UNCHANGED <<jobPhase, jobRequest, requests, cleanupErr>>
      BY <2>0, <2>5 DEF JobStarted, HandlesFollowJob
    <3>2. UNCHANGED <<JobState, JobRemains, 1..requests, JobAsks, JobOutcome>>
      BY <3>1 DEF JobState, JobRemains, JobAsks, JobOutcome
    <3> QED BY <3>2
  <2>6. CASE JobStartFailed
    <3>1. /\ startMsg = "failed" /\ startPending /\ startMsg' = "none" /\ jobPhase = "idle"
          /\ UNCHANGED <<jobPhase, jobRequest, requests, cleanupErr>>
      BY <2>0, <2>6 DEF JobStartFailed, HandlesFollowJob
    <3>2. ~cleanupErr
      BY <1>2, <3>1 DEF JobsInv, UncleanEndIsLast
    <3>3. /\ JobState = "failed" /\ JobState' = "starting" /\ JobRemains' \in BOOLEAN
          /\ JobAsks' = 0 /\ JobOutcome' = Unended /\ UNCHANGED (1..requests)
      BY <3>1, <3>2 DEF JobState, JobRemains, JobAsks, JobOutcome
    <3>4. Jobs!Another
      BY <3>3 DEF Jobs!Another
    <3> QED BY <3>4 DEF Jobs!SeriesNext
  <2>7. CASE RequestPassword
    <3>1. /\ jobPhase = "live" /\ jobRequest = 0 /\ requests < MaxRequests /\ requests \in Nat
          /\ MaxRequests \in Nat
          /\ requests' = requests + 1 /\ jobRequest' = requests + 1
          /\ UNCHANGED <<jobPhase, cleanupErr>>
      BY <2>0, <2>7, BoundsAssumption DEF RequestPassword, TypeOK, JobType
    <3>2. ~cleanupErr
      BY <1>2, <3>1 DEF JobsInv, UncleanEndIsLast
    <3>3. /\ JobState = "started" /\ JobOutcome = Unended /\ JobAsks = 0
          /\ JobAsks' = requests + 1
          /\ UNCHANGED <<JobState, JobRemains, JobOutcome>>
      BY <3>1, <3>2 DEF JobState, JobRemains, JobAsks, JobOutcome
    <3>4. /\ requests + 1 \in 1..MaxRequests /\ requests + 1 \notin 1..requests
          /\ 1..requests' = 1..requests \cup {requests + 1}
      BY <3>1
    <3>5. Jobs!Ask(requests + 1)
      BY <3>3, <3>4 DEF Jobs!Ask, Jobs!Clean
    <3> QED BY <3>4, <3>5 DEF Jobs!SeriesNext, Jobs!Next
  <2>8. CASE JobEnd
    <3>1. /\ jobPhase = "live" /\ jobPhase' = "finished" /\ ~cleanupErr
          /\ UNCHANGED <<jobRequest, requests>> /\ cleanupErr' \in BOOLEAN
      BY <1>2, <2>8, JobEndsOnce DEF IInv, TypeOK, JobType
    <3>2. /\ JobState = "started" /\ UNCHANGED JobState /\ UNCHANGED (1..requests)
          /\ JobOutcome = Unended /\ JobOutcome' = [ended |-> TRUE, cleanupErr |-> cleanupErr']
          /\ JobOutcome' \in Endings /\ JobOutcome'.cleanupErr = cleanupErr'
      BY <3>1 DEF JobState, JobOutcome, Endings
    <3>3. CASE cleanupErr'
      <4>1. JobRemains' \in BOOLEAN /\ UNCHANGED JobAsks
        BY <3>1, <3>3 DEF JobRemains, JobAsks
      <4>2. Jobs!Finish(JobOutcome')
        BY <3>2, <3>3, <4>1 DEF Jobs!Finish
      <4> QED BY <3>2, <4>2 DEF Jobs!SeriesNext, Jobs!Next
    <3>4. CASE ~cleanupErr'
      <4>1. JobRemains' = FALSE /\ JobAsks' = 0
        BY <3>1, <3>4 DEF JobRemains, JobAsks
      <4>2. Jobs!Conclude(JobOutcome')
        BY <3>2, <3>4, <4>1 DEF Jobs!Conclude
      <4> QED BY <3>2, <4>2 DEF Jobs!SeriesNext
    <3> QED BY <3>3, <3>4
  <2>9. CASE ResultStep
    <3>1. /\ jobPhase = "finished" /\ startMsg' = "none" /\ jobRequest' = 0
          /\ jobPhase' \in {"idle", "starting"} /\ UNCHANGED <<requests, cleanupErr>>
          /\ (cleanupErr => jobPhase' = "idle")
      BY <1>2, <2>9, ResultsOfJob
    <3>2. CASE cleanupErr
      <4>1. /\ UNCHANGED <<JobState, JobRemains, 1..requests, JobOutcome>> /\ JobAsks' = 0
        BY <3>1, <3>2 DEF JobState, JobRemains, JobAsks, JobOutcome
      <4>2. JobAsks # 0 => Jobs!Withdraw
        BY <4>1 DEF Jobs!Withdraw
      <4> QED BY <4>1, <4>2 DEF Jobs!SeriesNext, Jobs!Next
    <3>3. CASE ~cleanupErr
      <4>1. /\ JobOutcome = [ended |-> TRUE, cleanupErr |-> FALSE]
            /\ JobState' = "starting" /\ JobRemains' \in BOOLEAN
            /\ JobAsks' = 0 /\ JobOutcome' = Unended /\ UNCHANGED (1..requests)
        BY <2>0, <3>1, <3>3 DEF JobState, JobRemains, JobAsks, JobOutcome, TypeOK, JobType
      <4>2. Jobs!Clean
        <5>1. [ended |-> TRUE, cleanupErr |-> FALSE] # [ended |-> FALSE]
          <6>1. /\ [ended |-> TRUE, cleanupErr |-> FALSE].ended = TRUE
                /\ [ended |-> FALSE].ended = FALSE
            OBVIOUS
          <6> QED BY <6>1
        <5> QED BY <4>1, <5>1 DEF Jobs!Clean, Unended
      <4>3. Jobs!Another
        BY <4>1, <4>2 DEF Jobs!Another
      <4> QED BY <4>3 DEF Jobs!SeriesNext
    <3> QED BY <3>2, <3>3
  <2> QED BY <1>2, <2>1, <2>2, <2>3, <2>4, <2>5, <2>6, <2>7, <2>8, <2>9, MovesOfJob DEF JobMoves
<1> QED BY <1>1, <1>2, SessionInvariant, JobsInvariant, PTL
        DEF Spec, ImplementsJobs, Jobs!SeriesSpec
=============================================================================
