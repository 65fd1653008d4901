------------------------------- MODULE Session -------------------------------
(***************************************************************************)
(* One lazybrew session: the inventory, the operations and the trust       *)
(* review of one Update loop, the resizes and quits that cut across all    *)
(* three, and what the whole promises.                                     *)
(***************************************************************************)
EXTENDS Inventory, Operations, TrustReview

----------------------------------------------------------------------------
(* resize.  Each block of the function may change the mode the next one    *)
(* reads; a dialog that no longer fits is dropped, an operation whose      *)
(* dialogs no longer fit is cancelled.                                     *)
ConfirmGone(t) ==
  confirmation # NoPkg /\ ~(t \notin TooSmall /\ confirmation \in FitsIn[t])
BatchGone(t) == batchConfirmation # <<>> /\ ~UpgradeAllFits(t, batchConfirmation)
OperationGone(t) ==
  JobRunning /\ cancelReason = "none" /\ ~(t \notin TooSmall /\ operation \in FitsIn[t])

(* The mode after the three blocks.                                        *)
ResizedMode(t) ==
  IF OperationGone(t) THEN "operation"
  ELSE IF BatchGone(t) THEN "normal"
  ELSE IF ConfirmGone(t) THEN Resume
  ELSE mode

TrustGone(t) == ResizedMode(t) = "trust" /\ ~TrustReviewFits(t, trustLoaded)

(* A job the model does not hold yet is cancelled through the context of   *)
(* its Start only, and a child that ended first wins that race in finish().*)
CancelOperation ==
  \/ CancelJob
  \/ ~jobHeld /\ UNCHANGED jobCancelled

Resize(t) ==
  /\ ~exited /\ t # Unsized
  /\ term' = t
  /\ confirmation' = IF ConfirmGone(t) THEN NoPkg ELSE confirmation
  /\ IF BatchGone(t) THEN ClearBatch ELSE UNCHANGED <<batchConfirmation, batchVars>>
  /\ IF OperationGone(t)
     THEN cancelReason' = "terminal" /\ WipePassword /\ CancelOperation
     ELSE UNCHANGED <<cancelReason, passwordVars, jobCancelled>>
  /\ IF TrustGone(t)
     THEN CancelTrust(trusts)
     ELSE /\ mode' = ResizedMode(t)
          /\ claim' = IF ConfirmGone(t) \/ BatchGone(t) \/ OperationGone(t) THEN NoClaim ELSE claim
          /\ UNCHANGED trustVars
  /\ UNCHANGED <<kind, viewVars, loadVars, sizeVars, infoPending, confirmVerb, operation, verb,
                 queue, operationID, holdVars, quitVars, worldVars>>
  /\ JobButLatch

(* beginQuit.  A second request only replaces the exit code.               *)
BeginQuit(code) ==
  /\ ~exited
  /\ UNCHANGED <<term, kind, viewVars, loadVars, sizeVars, infoPending, dialogVars, runVars,
                 batchVars, holdVars, trustVars, worldVars>>
  /\ JobButLatch
  /\ \/ /\ mode = "quitting"
        /\ UNCHANGED <<mode, claim, closing, jobCancelled, passwordVars>>
        /\ FinishQuit(IF code # 0 THEN code ELSE quitExitCode)
     \/ /\ mode # "quitting"
        /\ IF mode = "password" THEN WipePassword ELSE UNCHANGED passwordVars
        /\ EnterQuit(code)

(* ctrl+c and the two signals quit from anywhere.                          *)
Interrupt == "interrupt" \in Keys /\ BeginQuit(130)
Terminate == "terminate" \in Keys /\ BeginQuit(143)

(* `q` where Update hands it to beginQuit: under a terminal too small to   *)
(* draw on, during a load that ends no operation, and from the idle list.  *)
QuitKey ==
  /\ "q" \in Keys
  /\ \/ term \in TooSmall
     \/ term \notin TooSmall /\ mode # "quitting" /\ loading /\ loadPurpose # "afterOperation"
     \/ KeyboardOpen("q") /\ mode \in {"normal", "operation"} /\ ~JobRunning
  /\ BeginQuit(0)

----------------------------------------------------------------------------
(* New and Init: with a snapshot of an earlier session its lists are shown *)
(* at once and the first load is a refresh.                                *)
Seed(s) == IF Persist /\ s.kinds # {} THEN s ELSE NoSnapshot
FirstPurpose(seed) == IF "cask" \in seed.kinds THEN "refresh" ELSE "startup"

InitFrom(seed) ==
  /\ mode = "normal" /\ term = Unsized /\ kind = "cask" /\ claim = NoClaim
  /\ cached = seed.kinds /\ listCache = seed.lists /\ sizesKnown = seed.sized
  /\ rows = seed.lists["cask"]
  /\ loading = TRUE /\ loadPurpose = FirstPurpose(seed)
  /\ lists = {[kind |-> "cask", purpose |-> loadPurpose, fleet |-> FALSE]}
  /\ sizesPending = TRUE /\ sizes = {"current"}
  /\ infoPending = (InfoLookups /\ rows # {})
  /\ confirmation = NoPkg /\ confirmVerb = "uninstall" /\ batchConfirmation = <<>>
  /\ operation = NoPkg /\ verb = "uninstall" /\ queue = <<>> /\ operationID = 0
  /\ cancelReason = "none" /\ batchTotal = 0 /\ batchCompleted = 0
  /\ startPending = FALSE /\ jobHeld = FALSE /\ jobPending = FALSE
  /\ passwordRequest = 0 /\ input = "blank"
  /\ trustPackage = NoPkg /\ trustLoaded = FALSE /\ trustErr = FALSE
  /\ trustPending = FALSE /\ trusting = FALSE /\ trusts = {}
  /\ closing = FALSE /\ cleanupErr = FALSE /\ quitExitCode = 0 /\ exited = FALSE
  /\ jobPhase = "idle" /\ startMsg = "none" /\ jobCancelled = FALSE /\ jobAuth = "none"
  /\ jobRequest = 0 /\ requests = 0 /\ eventWaiter = FALSE /\ jobEvents = {}
  /\ jobResult = "none" /\ jobEntry = NoEntry
  /\ installed = Installed0 /\ outdated = Outdated0 /\ untrusted = Untrusted0
  /\ succeeded = <<>>

Init == \E s \in Snapshots : disk = s /\ InitFrom(Seed(s))

(* The program has ended; nothing runs any more.                           *)
Terminated == exited /\ UNCHANGED vars

Next ==
  \/ InventoryKey \/ OperationKey \/ TrustKey
  \/ \E t \in Terms : Resize(t)
  \/ Interrupt \/ Terminate \/ QuitKey
  \/ LoadStep \/ SizesStep \/ InfoCompleted
  \/ JobMessage \/ TrustStep
  \/ JobStep
  \/ Terminated

(* What has been cancelled ends: a command whose context the supervisor    *)
(* cancelled is killed and its pipes are abandoned (runTool), a cancelled  *)
(* job's cleanup escalates to a kill.  A Start answers, a message that is  *)
(* there is delivered, and a password request is limited to five minutes.  *)
(* Users, and a brew or du that nobody cancels, owe nothing.               *)
CancelledJobEnds == jobCancelled /\ JobEnd
Fairness ==
  /\ WF_vars(closing /\ LoadStep) /\ WF_vars(closing /\ SizesStep)
  /\ WF_vars(closing /\ InfoCompleted) /\ WF_vars(closing /\ TrustStep)
  /\ WF_vars(JobMessage) /\ WF_vars(StartFails \/ StartSucceeds)
  /\ WF_vars(RequestTimesOut) /\ WF_vars(CancelledJobEnds)

Spec == Init /\ [][Next]_vars
FairSpec == Spec /\ Fairness
=============================================================================
