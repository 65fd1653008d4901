---------------------------- MODULE SessionSteps ----------------------------
(***************************************************************************)
(* The pieces of state change the handlers of model.go share, one operator *)
(* per helper function and under its name.  An operator assigns exactly    *)
(* the variables its comment names, so a handler is a conjunction of       *)
(* helpers and UNCHANGED of the rest.                                      *)
(***************************************************************************)
EXTENDS SessionState

(* An operator whose name ends in "Flawed" is never used: it is the form   *)
(* of the next definition that a plausible bug would give it.              *)

(***************************** predicates ********************************)
JobRunningFlawed == jobHeld
JobRunning == operation # NoPkg

ConfirmationFits(p) == term \notin TooSmall /\ p \in FitsIn[term]

(* upgradeAllFits: the modal fits, and so does every dialog the packages   *)
(* of the batch can bring up later.                                        *)
UpgradeAllFits(t, batch) ==
  /\ batch # <<>>
  /\ t \notin TooSmall /\ t \in BatchModalIn
  /\ \A i \in DOMAIN batch : batch[i] \in FitsIn[t]

(* trustReviewFits: the modal grows once the provenance is in it.          *)
TrustReviewFits(t, loaded) ==
  /\ t \notin TooSmall
  /\ t \in (IF loaded THEN TrustFullIn ELSE TrustModalIn)

(* pendingOperation: the verb already runs or waits for the package.       *)
PendingOperationFlawed(op, p) == JobRunning /\ verb = op /\ operation = p
PendingOperation(op, p) ==
  \/ JobRunning /\ verb = op /\ operation = p
  \/ \E i \in DOMAIN queue : queue[i] = [verb |-> op, pkg |-> p]

IsSelfUninstall(op, p) == op = "uninstall" /\ p = SelfPkg

(* The keys that reach the mode's own handler: the program still runs, the *)
(* terminal is large enough, and neither a quit nor a list load holds the  *)
(* keyboard.                                                               *)
KeyboardOpenFlawed(key) ==
  key \in Keys /\ ~exited /\ term \notin TooSmall /\ mode # "quitting"
KeyboardOpen(key) ==
  /\ key \in Keys /\ ~exited
  /\ term \notin TooSmall /\ mode # "quitting" /\ ~loading

NormalKey(key) == KeyboardOpen(key) /\ mode \in {"normal", "operation"}

(****************************** quitting *********************************)
(* finishQuit's condition: a quit is under way and no command or job the   *)
(* model tracks is outstanding.                                            *)
SettledFlawed ==
  /\ mode = "quitting"
  /\ ~loading /\ ~infoPending /\ ~sizesPending /\ ~jobPending /\ ~trustPending
Settled ==
  /\ mode = "quitting"
  /\ ~loading /\ ~infoPending /\ ~sizesPending
  /\ ~startPending /\ ~jobPending /\ ~trustPending

(* finishQuit, given the exit code asked for.  Assigns exited and          *)
(* quitExitCode from the state the handler leaves behind.                  *)
FinishQuitFlawed(code) == exited' = Settled' /\ quitExitCode' = code
FinishQuit(code) ==
  /\ exited' = Settled'
  /\ quitExitCode' = IF Settled' /\ cleanupErr' THEN 1 ELSE code

(* job.Cancel(), CancelPassword and the operation's context: each latches  *)
(* the cancellation of a job that starts or runs.  Assigns jobCancelled.   *)
CancelJobFlawed == UNCHANGED jobCancelled
CancelJob ==
  jobCancelled' = (jobCancelled \/ jobPhase \in {"starting", "live"})

(* wipePassword.  Assigns passwordVars.                                    *)
WipePasswordFlawed == passwordRequest' = 0 /\ UNCHANGED input
WipePassword == passwordRequest' = 0 /\ input' = "blank"

(* beginQuit outside modeQuitting.  Assigns mode, claim, closing,          *)
(* jobCancelled and what FinishQuit assigns; the caller has assigned the   *)
(* rest.                                                                   *)
EnterQuit(code) ==
  /\ mode' = "quitting" /\ claim' = NoClaim
  /\ closing' = TRUE
  /\ CancelJob
  /\ FinishQuit(code)

(*************************** lists and sizes ******************************)
(* loader.Select: a lookup may start when none runs, never after Cancel.   *)
(* Assigns infoPending.                                                    *)
SelectInfo ==
  \/ infoPending' = infoPending
  \/ InfoLookups /\ ~closing /\ rows' # {} /\ infoPending' = TRUE

(* startList and startFleetReload.  Assigns loadVars.                      *)
StartLoad(k, purpose, fleet) ==
  /\ loading' = TRUE
  /\ loadPurpose' = purpose
  /\ lists' = lists \cup {[kind |-> k, purpose |-> purpose, fleet |-> fleet]}

(* startSizes: the pass it supersedes is cancelled but may still answer.   *)
(* Assigns sizeVars.                                                       *)
StartSizes ==
  /\ sizesPending' = TRUE
  /\ sizes' = {"current"} \cup (IF sizes = {} THEN {} ELSE {"superseded"})

(* invalidateCaches.  Assigns cached, listCache, sizesKnown and sizeVars.  *)
InvalidateCachesFlawed ==
  UNCHANGED <<cached, listCache>> /\ sizesKnown' = FALSE /\ StartSizes
InvalidateCaches ==
  /\ cached' = {} /\ listCache' = NoLists
  /\ sizesKnown' = FALSE
  /\ StartSizes

(* persistSnapshot.  Assigns disk from the caches the handler leaves.      *)
PersistSnapshotFlawed ==
  disk' = IF Persist THEN [kinds |-> cached, lists |-> listCache, sized |-> sizesKnown] ELSE disk
PersistSnapshot ==
  disk' = IF Persist
          THEN [kinds |-> cached', lists |-> listCache', sized |-> sizesKnown']
          ELSE disk

(***************************** operations ********************************)
(* dropQueue.  Assigns queue.                                              *)
DropQueueFlawed == UNCHANGED queue
DropQueue == queue' = <<>>

(* clearBatch.  Assigns batchConfirmation and batchVars.                   *)
ClearBatch ==
  batchConfirmation' = <<>> /\ batchTotal' = 0 /\ batchCompleted' = 0

(* finishOperation.  Assigns mode, claim, operation, queue, cancelReason   *)
(* and what ClearBatch assigns.                                            *)
FinishOperation ==
  /\ DropQueue
  /\ mode' = "normal" /\ claim' = NoClaim
  /\ ClearBatch
  /\ operation' = NoPkg
  /\ cancelReason' = "none"

(* startUninstall: the operation is committed and its Start command        *)
(* issued; a closing supervisor cancels it at once.  Assigns mode, claim,  *)
(* operation, verb, operationID, cancelReason, startPending and jobVars.   *)
StartUninstall(entry) ==
  /\ mode' = "operation" /\ claim' = NoClaim
  /\ operation' = entry.pkg /\ verb' = entry.verb
  /\ operationID' = operationID + 1
  /\ cancelReason' = "none"
  /\ startPending' = TRUE
  /\ jobPhase' = "starting" /\ startMsg' = "none"
  /\ jobCancelled' = closing
  /\ jobAuth' = "none" /\ jobRequest' = 0 /\ jobResult' = "none"
  /\ eventWaiter' = FALSE
  /\ UNCHANGED <<requests, jobEvents, jobEntry, cleanupErr>>
=============================================================================
