----------------------------- MODULE Operations -----------------------------
(***************************************************************************)
(* The destructive half of the Update loop: confirming one operation or an *)
(* upgrade of everything, the queue, the password dialog, and the messages *)
(* of the privileged job; and the job itself as the UI can observe it.     *)
(***************************************************************************)
EXTENDS SessionSteps

Enumerations(S) ==
  {s \in [1..Cardinality(S) -> S] : \A i, j \in DOMAIN s : s[i] = s[j] => i = j}

InventoryUntouched ==
  UNCHANGED <<kind, viewVars, loadVars, sizeVars, infoPending>>
OthersUntouched == UNCHANGED <<term, trustVars, closing>>

(* The mode a dialog returns to: browsing, under a running job or not.     *)
ResumeFlawed == "normal"
Resume == IF JobRunning THEN "operation" ELSE "normal"

Eligible(r) ==
  r.offered /\ ~r.untrusted /\ r.name \notin Pinned /\ r.name # SelfPkg

UpgradeRefused(r) ==
  r.name \in Pinned \/ ~r.offered \/ r.name \in Suppressed

----------------------------------------------------------------------------
(* confirmOperation: the dialog opens on a snapshot of the selected row;   *)
(* every refusal only writes the status line.                              *)
ConfirmOperation(op) ==
  /\ NormalKey(op) /\ batchTotal = 0
  /\ \E r \in rows :
       IF \/ op = "upgrade" /\ UpgradeRefused(r)
          \/ PendingOperation(op, r.name)
          \/ ~ConfirmationFits(r.name)
       THEN UNCHANGED <<mode, dialogVars>>
       ELSE /\ mode' = "confirm"
            /\ confirmation' = r.name /\ confirmVerb' = op
            /\ batchConfirmation' = <<>>
  /\ claim' = NoClaim
  /\ UNCHANGED <<runVars, batchVars, holdVars, passwordVars, jobVars, worldVars,
                 quitExitCode, exited>>
  /\ InventoryUntouched /\ OthersUntouched

(* confirmUpgradeAll: the batch is every eligible row of the retained,     *)
(* unfiltered list of the active kind, in the order that list has.         *)
ConfirmUpgradeAll ==
  /\ NormalKey("upgrade all") /\ ~JobRunning
  /\ LET candidates == IF kind \in cached THEN {r \in listCache[kind] : Eligible(r)} ELSE {}
     IN IF candidates = {}
        THEN UNCHANGED <<mode, dialogVars, batchVars>>
        ELSE \E batch \in Enumerations({r.name : r \in candidates}) :
               /\ confirmation' = NoPkg /\ confirmVerb' = "upgrade"
               /\ IF UpgradeAllFits(term, batch)
                  THEN /\ batchConfirmation' = batch /\ mode' = "confirm"
                       /\ UNCHANGED batchVars
                  ELSE ClearBatch /\ UNCHANGED mode
  /\ claim' = NoClaim
  /\ UNCHANGED <<runVars, holdVars, passwordVars, jobVars, worldVars, quitExitCode, exited>>
  /\ InventoryUntouched /\ OthersUntouched

----------------------------------------------------------------------------
(* updateConfirmation, any key but lowercase y, or a y the terminal no     *)
(* longer fits: the dialog closes and nothing starts.                      *)
DismissConfirmation ==
  /\ KeyboardOpen("other") /\ mode = "confirm"
  /\ confirmation' = NoPkg /\ mode' = Resume /\ claim' = NoClaim
  /\ IF batchConfirmation # <<>> THEN ClearBatch
     ELSE UNCHANGED <<batchConfirmation, batchVars>>
  /\ UNCHANGED <<confirmVerb, runVars, holdVars, passwordVars, jobVars, worldVars,
                 quitExitCode, exited>>
  /\ InventoryUntouched /\ OthersUntouched

(* updateConfirmation with y over a running job: the entry waits its turn, *)
(* and m.verb stays the running operation's.                               *)
Confirmed == [verb |-> confirmVerb, pkg |-> confirmation]
EnqueueFlawed == queue' = Append(queue, Confirmed) /\ verb' = confirmVerb
Enqueue == queue' = Append(queue, Confirmed) /\ UNCHANGED verb

EnqueueConfirmed ==
  /\ KeyboardOpen("y") /\ mode = "confirm" /\ batchConfirmation = <<>>
  /\ confirmation # NoPkg /\ ConfirmationFits(confirmation) /\ JobRunning
  /\ operationID + Len(queue) < MaxOps
  /\ Enqueue
  /\ confirmation' = NoPkg /\ mode' = "operation" /\ claim' = NoClaim
  /\ UNCHANGED <<confirmVerb, batchConfirmation, operation, operationID, cancelReason,
                 batchVars, holdVars, passwordVars, jobVars, worldVars, quitExitCode, exited>>
  /\ InventoryUntouched /\ OthersUntouched

(* updateConfirmation with y and no job running: the operation starts.     *)
StartConfirmed ==
  /\ KeyboardOpen("y") /\ mode = "confirm" /\ batchConfirmation = <<>>
  /\ confirmation # NoPkg /\ ConfirmationFits(confirmation) /\ ~JobRunning
  /\ operationID < MaxOps
  /\ StartUninstall(Confirmed)
  /\ confirmation' = NoPkg
  /\ succeeded' = <<>>
  /\ UNCHANGED <<confirmVerb, batchConfirmation, queue, batchVars, jobHeld, jobPending,
                 passwordVars, installed, outdated, untrusted, quitExitCode, exited>>
  /\ InventoryUntouched /\ OthersUntouched

(* updateConfirmation with y on a batch: its first package starts, the     *)
(* others become the queue.                                                *)
StartBatch ==
  /\ KeyboardOpen("y") /\ mode = "confirm" /\ UpgradeAllFits(term, batchConfirmation)
  /\ operationID + Len(batchConfirmation) <= MaxOps
  /\ queue' = [i \in 1..(Len(batchConfirmation) - 1) |->
                [verb |-> "upgrade", pkg |-> batchConfirmation[i + 1]]]
  /\ batchTotal' = Len(batchConfirmation) /\ batchCompleted' = 0
  /\ StartUninstall([verb |-> "upgrade", pkg |-> batchConfirmation[1]])
  /\ confirmation' = NoPkg /\ batchConfirmation' = <<>>
  /\ succeeded' = <<>>
  /\ UNCHANGED <<confirmVerb, jobHeld, jobPending, passwordVars, installed, outdated,
                 untrusted, quitExitCode, exited>>
  /\ InventoryUntouched /\ OthersUntouched

----------------------------------------------------------------------------
(* updatePassword: editing keys.                                           *)
EditPassword ==
  /\ KeyboardOpen("password") /\ mode = "password"
  /\ input' \in {"blank", "typed"}
  /\ UNCHANGED <<mode, claim, passwordRequest, dialogVars, runVars, batchVars, holdVars,
                 jobVars, worldVars, quitExitCode, exited>>
  /\ InventoryUntouched /\ OthersUntouched

(* job.RespondPassword answers the active request of an uncancelled job.   *)
RequestOpen(request) ==
  jobPhase = "live" /\ ~jobCancelled /\ request # 0 /\ jobRequest = request

(* updatePassword, enter: the field is wiped before the answer is written; *)
(* an unavailable request or a failed write ends in a cancelled job.       *)
SubmitPassword ==
  /\ KeyboardOpen("password") /\ mode = "password"
  /\ WipePassword /\ mode' = "operation"
  /\ \/ /\ RequestOpen(passwordRequest)
        /\ jobRequest' = 0
        /\ UNCHANGED <<claim, cancelReason, jobCancelled, jobAuth>>
     \/ /\ IF RequestOpen(passwordRequest)
           THEN jobRequest' = 0 /\ jobAuth' = "failed"
           ELSE UNCHANGED <<jobRequest, jobAuth>>
        /\ CancelJob
        /\ cancelReason' = "authentication" /\ claim' = NoClaim
  /\ UNCHANGED <<dialogVars, operation, verb, queue, operationID, batchVars, holdVars,
                 jobPhase, startMsg, requests, eventWaiter, jobEvents, jobResult, jobEntry,
                 cleanupErr, worldVars, quitExitCode, exited>>
  /\ InventoryUntouched /\ OthersUntouched

(* The job variables a cancellation leaves alone.                          *)
JobButLatch ==
  UNCHANGED <<jobPhase, startMsg, jobAuth, jobRequest, requests, eventWaiter, jobEvents,
              jobResult, jobEntry, cleanupErr>>

(* updatePassword, escape: request and job are cancelled.                  *)
EscapePassword ==
  /\ KeyboardOpen("password") /\ mode = "password"
  /\ CancelJob /\ JobButLatch
  /\ WipePassword /\ mode' = "operation" /\ claim' = NoClaim
  /\ cancelReason' = "user"
  /\ UNCHANGED <<dialogVars, operation, verb, queue, operationID, batchVars, holdVars,
                 worldVars, quitExitCode, exited>>
  /\ InventoryUntouched /\ OthersUntouched

----------------------------------------------------------------------------
(* handleJobStarted: the model takes over the job; one that raced with a   *)
(* cancellation is cancelled at once.                                      *)
JobStarted ==
  /\ ~exited /\ startMsg = "started"
  /\ startMsg' = "none"
  /\ startPending' = FALSE /\ jobHeld' = TRUE /\ jobPending' = TRUE
  /\ IF cancelReason # "none" \/ mode = "quitting" THEN CancelJob ELSE UNCHANGED jobCancelled
  /\ eventWaiter' = (mode # "quitting")
  /\ UNCHANGED <<mode, claim, dialogVars, runVars, batchVars, passwordVars, jobPhase, jobAuth,
                 jobRequest, requests, jobEvents, jobResult, jobEntry, cleanupErr,
                 worldVars, quitExitCode, exited>>
  /\ InventoryUntouched /\ OthersUntouched

(* handleJobStartFailed: the operation and everything queued behind it end *)
(* without a job.                                                          *)
JobStartFailed ==
  /\ ~exited /\ startMsg = "failed"
  /\ startMsg' = "none" /\ startPending' = FALSE
  /\ UNCHANGED <<confirmation, confirmVerb, verb, operationID, cancelReason, jobHeld,
                 jobPending, passwordVars, jobPhase, jobCancelled, jobAuth, jobRequest, requests,
                 eventWaiter, jobEvents, jobResult, jobEntry, cleanupErr, worldVars>>
  /\ InventoryUntouched /\ OthersUntouched
  /\ \/ /\ mode = "quitting"
        /\ UNCHANGED <<mode, claim, batchConfirmation, operation, queue, batchVars>>
        /\ FinishQuit(quitExitCode)
     \/ /\ mode # "quitting"
        /\ operation' = NoPkg /\ mode' = "normal" /\ claim' = NoClaim
        /\ DropQueue /\ ClearBatch
        /\ UNCHANGED <<quitExitCode, exited>>

----------------------------------------------------------------------------
(* handleJobEvent for a message of an older job, or one that arrives after *)
(* the job's result or during a quit.                                      *)
EventIgnored(e) == e.id # operationID \/ mode = "quitting" \/ ~jobHeld

IgnoreEvent ==
  /\ ~exited
  /\ \E e \in jobEvents : EventIgnored(e) /\ jobEvents' = jobEvents \ {e}
  /\ UNCHANGED <<mode, claim, dialogVars, runVars, batchVars, holdVars, passwordVars,
                 jobPhase, startMsg, jobCancelled, jobAuth, jobRequest, requests, eventWaiter,
                 jobResult, jobEntry, cleanupErr, worldVars, quitExitCode, exited>>
  /\ InventoryUntouched /\ OthersUntouched

(* handleJobEvent for a request nobody may answer any more: the job is     *)
(* cancelled, a dialog still open for an older request is closed.          *)
RejectRequest ==
  /\ ~exited
  /\ \E e \in jobEvents :
       /\ ~EventIgnored(e)
       /\ mode \notin {"operation", "confirm"} \/ cancelReason # "none"
       /\ jobEvents' = jobEvents \ {e}
  /\ IF mode = "password"
     THEN /\ WipePassword /\ mode' = "operation" /\ claim' = NoClaim
          /\ cancelReason' = "authentication"
     ELSE UNCHANGED <<mode, claim, cancelReason, passwordVars>>
  /\ CancelJob
  /\ eventWaiter' = TRUE
  /\ UNCHANGED <<dialogVars, operation, verb, queue, operationID, batchVars, holdVars, jobPhase,
                 startMsg, jobAuth, jobRequest, requests, jobResult, jobEntry, cleanupErr,
                 worldVars, quitExitCode, exited>>
  /\ InventoryUntouched /\ OthersUntouched

(* handleJobEvent: the password dialog opens with a fresh field and takes  *)
(* the window from an open enqueue dialog, which is dropped.               *)
OpenPassword ==
  /\ ~exited
  /\ \E e \in jobEvents :
       /\ ~EventIgnored(e)
       /\ mode \in {"operation", "confirm"} /\ cancelReason = "none"
       /\ jobEvents' = jobEvents \ {e}
       /\ passwordRequest' = e.request
  /\ input' = "blank" /\ mode' = "password"
  /\ IF mode = "confirm"
     THEN confirmation' = NoPkg /\ claim' = NoClaim
     ELSE UNCHANGED <<confirmation, claim>>
  /\ eventWaiter' = TRUE
  /\ UNCHANGED <<confirmVerb, batchConfirmation, runVars, batchVars, holdVars, jobPhase,
                 startMsg, jobCancelled, jobAuth, jobRequest, requests, jobResult, jobEntry,
                 cleanupErr, worldVars, quitExitCode, exited>>
  /\ InventoryUntouched /\ OthersUntouched

----------------------------------------------------------------------------
(* handleJobResult takes the one result of the job it holds.               *)
TakeResult ==
  /\ ~exited /\ jobPhase = "finished" /\ jobPending
  /\ WipePassword
  /\ jobHeld' = FALSE /\ jobPending' = FALSE
  /\ UNCHANGED <<term, trustVars, worldVars>>

(* The job is gone and no other takes its place in this step.              *)
JobGone ==
  /\ jobPhase' = "idle" /\ jobResult' = "none" /\ eventWaiter' = FALSE
  /\ jobAuth' = "none" /\ jobRequest' = 0 /\ jobEntry' = NoEntry
  /\ UNCHANGED <<startMsg, requests, jobEvents, cleanupErr>>

ResultWhileQuitting ==
  /\ TakeResult /\ mode = "quitting"
  /\ JobGone
  /\ UNCHANGED <<mode, claim, dialogVars, runVars, batchVars, startPending, jobCancelled, closing>>
  /\ InventoryUntouched
  /\ FinishQuit(quitExitCode)

(* A cleanup failure drops everything and quits with exit code 1.          *)
ResultCleanupFailed ==
  /\ TakeResult /\ mode # "quitting" /\ jobResult = "cleanupErr"
  /\ JobGone
  /\ DropQueue /\ ClearBatch
  /\ UNCHANGED <<confirmation, confirmVerb, operation, verb, operationID, cancelReason,
                 startPending>>
  /\ InventoryUntouched
  /\ EnterQuit(1)

(* Authentication failure or timeout, cancellation, or brew's own error.   *)
ResultFailed ==
  /\ TakeResult /\ mode # "quitting"
  /\ jobResult \in {"authTimedOut", "authFailed", "cancelled", "err"}
  /\ JobGone
  /\ FinishOperation
  /\ UNCHANGED <<confirmation, confirmVerb, verb, operationID, startPending, jobCancelled,
                 closing, quitExitCode, exited>>
  /\ InventoryUntouched

TakeSuccessFlawed == TakeResult /\ jobResult = "ok"
TakeAnyEndFlawed == TakeResult /\ mode # "quitting" /\ jobResult \in {"ok", "err"}
TakeSuccess == TakeResult /\ mode # "quitting" /\ jobResult = "ok"

CountSuccessFlawed ==
  /\ batchCompleted' = IF queue # <<>> THEN batchCompleted + 1 ELSE batchCompleted
  /\ UNCHANGED batchTotal
CountSuccess ==
  /\ batchCompleted' = IF batchTotal > 0 THEN batchCompleted + 1 ELSE batchCompleted
  /\ UNCHANGED batchTotal

(* lazybrew uninstalled itself: quit instead of reloading.                 *)
ResultSelfUninstalled ==
  /\ TakeSuccess /\ IsSelfUninstall(verb, operation)
  /\ JobGone
  /\ CountSuccess
  /\ UNCHANGED <<dialogVars, runVars, startPending>>
  /\ InventoryUntouched
  /\ EnterQuit(0)

(* The next entry no longer fits the terminal: the run stops here.         *)
ResultQueueUnsafe ==
  /\ TakeSuccess /\ ~IsSelfUninstall(verb, operation)
  /\ queue # <<>> /\ ~ConfirmationFits(Head(queue).pkg)
  /\ JobGone
  /\ FinishOperation
  /\ UNCHANGED <<confirmation, confirmVerb, verb, operationID, startPending, jobCancelled,
                 closing, quitExitCode, exited>>
  /\ InventoryUntouched

(* The next entry of the queue starts at once; the list stays stale.       *)
ResultStartsNext ==
  /\ TakeSuccess /\ ~IsSelfUninstall(verb, operation)
  /\ queue # <<>> /\ ConfirmationFits(Head(queue).pkg)
  /\ queue' = Tail(queue)
  /\ StartUninstall(Head(queue))
  /\ CountSuccess
  /\ UNCHANGED <<dialogVars, closing, quitExitCode, exited>>
  /\ InventoryUntouched

(* The run is over: the caches are dropped and the list is loaded again;   *)
(* only that load reports success.                                         *)
ResultReloads ==
  /\ TakeSuccess /\ ~IsSelfUninstall(verb, operation) /\ queue = <<>>
  /\ JobGone
  /\ CountSuccess
  /\ InvalidateCaches
  /\ mode' = "operation"
  /\ StartLoad(kind, "afterOperation", batchTotal > 0)
  /\ UNCHANGED <<kind, claim, rows, disk, infoPending, dialogVars, runVars, startPending,
                 jobCancelled, closing, quitExitCode, exited>>

ResultStep ==
  \/ ResultWhileQuitting \/ ResultCleanupFailed \/ ResultFailed
  \/ ResultSelfUninstalled \/ ResultQueueUnsafe \/ ResultStartsNext \/ ResultReloads

----------------------------------------------------------------------------
(* The privileged job, as its Runner and Job interfaces let the UI see it. *)
UIUntouched ==
  /\ UNCHANGED <<mode, claim, dialogVars, runVars, batchVars, holdVars, passwordVars,
                 quitExitCode, exited>>
  /\ InventoryUntouched /\ OthersUntouched

(* runner.Start fails: endpoint, environment, lookup or exec.              *)
StartFails ==
  /\ ~exited /\ jobPhase = "starting"
  /\ jobPhase' = "idle" /\ startMsg' = "failed"
  /\ UNCHANGED <<jobCancelled, jobAuth, jobRequest, requests, eventWaiter, jobEvents,
                 jobResult, jobEntry, cleanupErr, worldVars>>
  /\ UIUntouched

(* runner.Start succeeds: the verb is read from the model here, in the     *)
(* command's goroutine; the supervisor cancels the job if it is closing.   *)
StartSucceeds ==
  /\ ~exited /\ jobPhase = "starting"
  /\ jobPhase' = "live" /\ startMsg' = "started"
  /\ jobEntry' = [verb |-> verb, pkg |-> operation]
  /\ jobCancelled' = (jobCancelled \/ closing)
  /\ UNCHANGED <<jobAuth, jobRequest, requests, eventWaiter, jobEvents, jobResult,
                 cleanupErr, worldVars>>
  /\ UIUntouched

(* handleConnection offers an authenticated request to the UI's waiter.    *)
RequestPassword ==
  /\ ~exited /\ jobPhase = "live" /\ ~jobCancelled
  /\ jobRequest = 0 /\ eventWaiter /\ requests < MaxRequests
  /\ requests' = requests + 1 /\ jobRequest' = requests + 1
  /\ eventWaiter' = FALSE
  /\ jobEvents' = jobEvents \cup {[id |-> operationID, request |-> requests + 1]}
  /\ UNCHANGED <<jobPhase, startMsg, jobCancelled, jobAuth, jobResult, jobEntry, cleanupErr,
                 worldVars>>
  /\ UIUntouched

(* failAuthentication: a peer that is rejected or vanishes.                *)
FailAuthentication ==
  /\ ~exited /\ jobPhase = "live"
  /\ jobAuth' = IF jobAuth = "timedOut" THEN "timedOut" ELSE "failed"
  /\ jobRequest' = 0 /\ jobCancelled' = TRUE
  /\ UNCHANGED <<jobPhase, startMsg, requests, eventWaiter, jobEvents, jobResult, jobEntry,
                 cleanupErr, worldVars>>
  /\ UIUntouched

(* The five-minute limit of a request that stays unanswered.               *)
RequestTimesOutFlawed ==
  /\ ~exited /\ jobPhase = "live" /\ jobRequest # 0
  /\ jobAuth' = "timedOut" /\ jobRequest' = 0
  /\ UNCHANGED <<jobPhase, startMsg, jobCancelled, requests, eventWaiter, jobEvents, jobResult,
                 jobEntry, cleanupErr, worldVars>>
  /\ UIUntouched
RequestTimesOut ==
  /\ ~exited /\ jobPhase = "live" /\ jobRequest # 0
  /\ jobAuth' = "timedOut"
  /\ jobRequest' = 0 /\ jobCancelled' = TRUE
  /\ UNCHANGED <<jobPhase, startMsg, requests, eventWaiter, jobEvents, jobResult, jobEntry,
                 cleanupErr, worldVars>>
  /\ UIUntouched

(* What finish() may report, given what was latched before it.             *)
Outcomes ==
  IF jobAuth = "timedOut" THEN {"authTimedOut"}
  ELSE IF jobAuth = "failed" THEN {"authFailed"}
  ELSE IF jobCancelled THEN {"cancelled"}
  ELSE {"ok", "err"}

(* brew's effect on the world.                                             *)
Apply(entry) ==
  /\ installed' = IF entry.verb = "uninstall" THEN installed \ {entry.pkg} ELSE installed
  /\ outdated' = IF entry.verb = "upgrade" THEN outdated \ {entry.pkg} ELSE outdated

(* The job's one result is final.  A success did its work; any other end   *)
(* may have come before or after brew did it.                              *)
JobFinishes(result) ==
  /\ ~exited /\ jobPhase = "live"
  /\ result \in Outcomes \cup {"cleanupErr"}
  /\ jobPhase' = "finished" /\ jobResult' = result
  /\ cleanupErr' = (cleanupErr \/ result = "cleanupErr")
  /\ succeeded' = IF result = "ok" THEN Append(succeeded, jobEntry) ELSE succeeded
  /\ \/ Apply(jobEntry)
     \/ result # "ok" /\ UNCHANGED <<installed, outdated>>
  /\ UNCHANGED <<untrusted, startMsg, jobCancelled, jobAuth, jobRequest, requests, eventWaiter,
                 jobEvents, jobEntry>>
  /\ UIUntouched

OperationKey ==
  \/ ConfirmOperation("uninstall") \/ ConfirmOperation("upgrade") \/ ConfirmUpgradeAll
  \/ DismissConfirmation \/ EnqueueConfirmed \/ StartConfirmed \/ StartBatch
  \/ EditPassword \/ SubmitPassword \/ EscapePassword

JobMessage ==
  JobStarted \/ JobStartFailed \/ IgnoreEvent \/ RejectRequest \/ OpenPassword \/ ResultStep

JobEnd == \E result \in Results : JobFinishes(result)
JobStep ==
  \/ StartFails \/ StartSucceeds \/ RequestPassword \/ FailAuthentication \/ RequestTimesOut
  \/ JobEnd
=============================================================================
