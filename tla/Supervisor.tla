----------------------------- MODULE Supervisor -----------------------------
(***************************************************************************)
(* The Supervisor (internal/ui/model.go), which keeps the handles of what  *)
(* the interface started, and run() of cmd/lazybrew, which has it cancel   *)
(* and await everything once the Bubble Tea program has returned: after a  *)
(* quit, or with an error at any moment.                                   *)
(*                                                                         *)
(* A resize that ends a dialog or the operation gives a quitting model its *)
(* ordinary mode back, while the Supervisor stays closed: what begins then *)
(* is cancelled at once and gets no handle.                                *)
(*                                                                         *)
(* The privileged job is what its contract says (JobContract).  Of the     *)
(* read commands two kinds are told apart: a list is never requested while *)
(* one is loading; a size pass, like a trust review, may supersede the one *)
(* before it.                                                              *)
(***************************************************************************)
EXTENDS Naturals, FiniteSets

CONSTANTS
  NoResult,   \* no result yet
  MaxOps,     \* bound: operations of a session
  MaxLists,   \* bound: list commands
  MaxSizes    \* bound: size passes

ASSUME BoundsAssumption == MaxOps \in Nat /\ MaxLists \in Nat /\ MaxSizes \in Nat

Kinds == {"list", "sizes"}
Numbers(k) == 1..(IF k = "list" THEN MaxLists ELSE MaxSizes)
Commands == UNION {{k} \X Numbers(k) : k \in Kinds}
Outcomes == [cleanupErr: BOOLEAN]
SignalCodes == {130, 143}

ASSUME ResultAssumption == NoResult \notin Outcomes

VARIABLES
  ui,         \* the mode: open, quitting; gone when Run returned
  leaving,    \* QuitMsg is on its way
  crashed,    \* Run returned an error
  run,        \* the operation on screen: idle, starting, operating; over once it has its result
  ops,        \* operations started
  stopped,    \* cancelReason is set
  pending,    \* loading, sizesPending and trustPending: the command whose result is awaited
  \* The current operation: its job, and the goroutines around it.
  phase, remains, outcome,
  startStop,  \* the operation's context is cancelled
  jobStop,    \* the job's Cancel was called
  startTask,  \* startUninstall's command: none, running, registered, ended
  jobTask,    \* the goroutine in Wait: none, waiting, recorded, ended
  oldTask,    \* that of the operation before
  unclean,    \* some job ended with a cleanup error
  \* Read commands: their state, and those that were cancelled.
  command, cut,
  \* The Supervisor's fields.
  closing, handle, startHandle, jobHandle, recorded, cleanupErr, exitCode,
  \* Cleanup.
  cleaner, awaited, awaitedJob, late,
  \* What began under a closed Supervisor: the latest command of these kinds, the operation.
  disowned, opDisowned

jobVars == <<phase, remains, outcome>>
taskVars == <<startTask, jobTask, oldTask, unclean>>
stopVars == <<startStop, jobStop>>
readVars == <<command, cut, handle, pending, disowned>>
cleanVars == <<cleaner, awaited, awaitedJob, late>>
uiVars == <<ui, leaving, crashed, run, ops, stopped, opDisowned>>
fieldVars == <<closing, startHandle, jobHandle, recorded, cleanupErr, exitCode>>
vars == <<uiVars, jobVars, taskVars, stopVars, readVars, fieldVars, cleanVars>>

Job == INSTANCE JobContract WITH
  Requests <- {}, NoRequest <- {}, Results <- Outcomes, asked <- {}, open <- {}

Init ==
  /\ ui = "open" /\ leaving = FALSE /\ crashed = FALSE
  /\ run = "idle" /\ ops = 0 /\ stopped = FALSE /\ opDisowned = FALSE
  /\ pending = [k \in Kinds |-> 0] /\ disowned = {}
  /\ phase = "starting" /\ remains = FALSE /\ outcome = NoResult
  /\ startStop = FALSE /\ jobStop = FALSE
  /\ startTask = "none" /\ jobTask = "none" /\ oldTask = "none" /\ unclean = FALSE
  /\ command = [c \in Commands |-> "none"] /\ cut = {} /\ handle = [k \in Kinds |-> 0]
  /\ closing = FALSE /\ startHandle = FALSE /\ jobHandle = "none"
  /\ recorded = FALSE /\ cleanupErr = FALSE /\ exitCode = 0
  /\ cleaner = "off" /\ awaited = [k \in Kinds |-> 0] /\ awaitedJob = "none" /\ late = FALSE

----------------------------------------------------------------------------
(* Read commands: startList, startSizes and the trust commands, with       *)
(* setList, setSizes and setTrust; clearX when a result is handled.        *)
Runs(k) == {n \in Numbers(k) : command[<<k, n>>] # "none"}
Number(k) == Cardinality(Runs(k)) + 1
Listing == pending["list"] # 0

(* The goroutines end with the process, when run() does.                   *)
Alive == cleaner # "returned"
ReadFrame == UNCHANGED <<jobVars, taskVars, stopVars, fieldVars, cleanVars>>

(* One command of each of the kinds ks begins, after the one of its kind   *)
(* that it supersedes was cancelled.  Assigns readVars.                    *)
BeginFlawed(ks) ==
  LET new == {<<k, Number(k)>> : k \in ks}
  IN /\ new \subseteq Commands
     /\ command' = [c \in Commands |-> IF c \in new THEN "running" ELSE command[c]]
     /\ pending' = [k \in Kinds |-> IF k \in ks THEN Number(k) ELSE pending[k]]
     /\ handle' = pending' /\ UNCHANGED <<cut, disowned>>
Begin(ks) ==
  LET new == {<<k, Number(k)>> : k \in ks}
      superseded == {<<k, pending[k]>> : k \in {j \in ks : pending[j] # 0}}
  IN /\ new \subseteq Commands
     /\ command' = [c \in Commands |-> IF c \in new THEN "running" ELSE command[c]]
     /\ pending' = [k \in Kinds |-> IF k \in ks THEN Number(k) ELSE pending[k]]
     /\ handle' = [k \in Kinds |-> IF k \in ks /\ ~closing THEN Number(k) ELSE handle[k]]
     /\ cut' = cut \cup superseded \cup (IF closing THEN new ELSE {})
     /\ disowned' = IF closing THEN disowned \cup ks ELSE disowned

(* A refresh, a switch of kind or a trust command.                         *)
StartReads ==
  /\ ui = "open" /\ run = "idle" /\ ~Listing
  /\ \E ks \in SUBSET Kinds \ {{}} : Begin(ks)
  /\ UNCHANGED uiVars /\ ReadFrame

CommandEnds(k, n) ==
  /\ Alive
  /\ command[<<k, n>>] = "running" /\ command' = [command EXCEPT ![<<k, n>>] = "ended"]
  /\ UNCHANGED <<cut, handle, pending, disowned, uiVars>> /\ ReadFrame

(* finishOperation, as far as the Supervisor is concerned.                 *)
FinishOperation == run' = "idle" /\ stopped' = FALSE

(* A superseded result changes nothing but its own handle.  The reload     *)
(* that follows an operation ends it.                                      *)
ResultHandled(k, n) ==
  /\ ui \in {"open", "quitting"}
  /\ command[<<k, n>>] = "ended" /\ n \in {handle[k], pending[k]}
  /\ handle' = [handle EXCEPT ![k] = IF @ = n THEN 0 ELSE @]
  /\ pending' = [pending EXCEPT ![k] = IF @ = n THEN 0 ELSE @]
  /\ IF run = "over" /\ ui = "open" /\ k = "list" /\ n = pending[k]
     THEN FinishOperation ELSE UNCHANGED <<run, stopped>>
  /\ UNCHANGED <<command, cut, disowned, ui, leaving, crashed, ops, opDisowned>>
  /\ ReadFrame

----------------------------------------------------------------------------
(* startUninstall, and the goroutines of its command: Start, then setJob   *)
(* and a goroutine in Wait, then startDone; finishJob, the result, and     *)
(* waitDone.                                                               *)
StartOperation ==
  /\ ui = "open" /\ run = "idle" /\ ~Listing /\ ops < MaxOps
  /\ run' = "starting" /\ ops' = ops + 1 /\ stopped' = FALSE
  /\ phase' = "starting" /\ remains' = FALSE /\ outcome' = NoResult
  /\ startTask' = "running" /\ jobTask' = "none" /\ oldTask' = jobTask
  /\ jobHandle' = IF jobHandle = "current" THEN "old" ELSE jobHandle
  /\ startHandle' = ~closing /\ startStop' = closing /\ opDisowned' = closing
  /\ jobStop' = FALSE
  /\ UNCHANGED <<ui, leaving, crashed, unclean, readVars, closing, recorded, cleanupErr, exitCode,
                 cleanVars>>

TaskFrame == Alive /\ UNCHANGED <<uiVars, readVars, closing, startHandle, exitCode, cleanVars>>
JobSteps ==
  /\ startTask # "none"
  /\ Job!Setup \/ Job!Launch \/ Job!Fail \/ Job!Subside
  /\ UNCHANGED <<taskVars, stopVars, jobHandle, recorded, cleanupErr>> /\ TaskFrame
JobFinishes ==
  /\ \E o \in Outcomes : Job!Finish(o) /\ unclean' = (unclean \/ o.cleanupErr)
  /\ UNCHANGED <<startTask, jobTask, oldTask, stopVars, jobHandle, recorded, cleanupErr>>
  /\ TaskFrame

RegisterJobFlawed ==
  /\ startTask = "running" /\ phase = "started"
  /\ startTask' = "registered" /\ jobTask' = "waiting" /\ jobHandle' = "current"
  /\ jobStop' = closing
  /\ UNCHANGED <<jobVars, oldTask, unclean, startStop, recorded, cleanupErr>> /\ TaskFrame
RegisterJob ==
  /\ startTask = "running" /\ phase = "started"
  /\ startTask' = "registered" /\ jobTask' = "waiting" /\ jobHandle' = "current"
  /\ recorded' = FALSE /\ jobStop' = closing
  /\ UNCHANGED <<jobVars, oldTask, unclean, startStop, cleanupErr>> /\ TaskFrame

StartReturns ==
  /\ startTask = "registered" \/ (startTask = "running" /\ phase = "failed")
  /\ startTask' = "ended"
  /\ UNCHANGED <<jobVars, jobTask, oldTask, unclean, stopVars, jobHandle, recorded, cleanupErr>>
  /\ TaskFrame

(* finishJob.                                                              *)
FinishJob ==
  /\ recorded' = TRUE
  /\ cleanupErr' = (cleanupErr \/ (~recorded /\ outcome.cleanupErr))
RecordResult ==
  /\ jobTask = "waiting" /\ outcome # NoResult /\ jobTask' = "recorded" /\ FinishJob
  /\ UNCHANGED <<jobVars, startTask, oldTask, unclean, stopVars, jobHandle>> /\ TaskFrame

WaitDone ==
  /\ \/ jobTask = "recorded" /\ jobTask' = "ended" /\ UNCHANGED oldTask
     \/ oldTask = "recorded" /\ oldTask' = "ended" /\ UNCHANGED jobTask
  /\ UNCHANGED <<jobVars, startTask, unclean, stopVars, jobHandle, recorded, cleanupErr>>
  /\ TaskFrame

----------------------------------------------------------------------------
(* Update.  finishQuit ends every handler of a quitting model; what counts *)
(* is the one that finds nothing pending (Settled), whose QuitMsg makes    *)
(* Run return.                                                             *)
Ended == jobTask \in {"recorded", "ended"}
Settled == run \notin {"starting", "operating"} /\ \A k \in Kinds : pending[k] = 0
OperationFrame == UNCHANGED <<ops, opDisowned, jobVars, taskVars, jobHandle, cleanVars>>

(* handleJobStarted and handleJobStartFailed, also while quitting.         *)
HearOfStart ==
  /\ ui \in {"open", "quitting"} /\ run = "starting" /\ startTask = "ended" /\ startHandle' = FALSE
  /\ run' = IF phase = "started" THEN "operating" ELSE IF ui = "open" THEN "idle" ELSE "over"
  /\ jobStop' = (jobStop \/ (phase = "started" /\ (stopped \/ ui = "quitting")))
  /\ startStop' = (startStop \/ (phase = "failed" /\ ui = "open"))
  /\ UNCHANGED <<ui, leaving, crashed, stopped, readVars, closing, recorded, cleanupErr, exitCode>>
  /\ OperationFrame

(* What a resize, or the password dialog, cancels: the operation's context *)
(* and job, and the reload after it.                                       *)
StopOperation ==
  /\ run # "idle" /\ ~stopped /\ stopped' = TRUE
  /\ startStop' = TRUE /\ jobStop' = (jobStop \/ run = "operating")
  /\ cut' = cut \cup {<<k, pending[k]>> : k \in {j \in {"list"} : run = "over" /\ Listing}}
StopFrame == UNCHANGED <<leaving, crashed, run, command, handle, pending, disowned, closing,
                         startHandle, recorded, cleanupErr, exitCode>>
CancelOperation == ui = "open" /\ StopOperation /\ UNCHANGED ui /\ StopFrame /\ OperationFrame

(* resize in a quitting model: it ends a dialog the quit left behind, or   *)
(* an operation nobody cancelled, and sets the mode that follows.          *)
Unquit ==
  /\ ui = "quitting" /\ ui' = "open"
  /\ StopOperation \/ UNCHANGED <<stopped, stopVars, cut>>
  /\ StopFrame /\ OperationFrame

(* Supervisor.cancel: every command with a handle, and the job's if it is  *)
(* registered.                                                             *)
CancelReads ==
  /\ closing' = TRUE
  /\ cut' = cut \cup {<<k, handle[k]>> : k \in {j \in Kinds : handle[j] # 0}}
CancelOwned ==
  /\ CancelReads
  /\ startStop' = (startStop \/ startHandle)
  /\ jobStop' = (jobStop \/ jobHandle = "current")

(* beginQuit, by a key or a signal; a second one only changes the code.    *)
QuitFrame == UNCHANGED <<leaving, crashed, run, stopped, command, handle, pending, disowned,
                         startHandle>> /\ OperationFrame
Quit(code) ==
  /\ ui = "open" /\ ui' = "quitting" /\ exitCode' = code /\ CancelOwned
  /\ UNCHANGED <<recorded, cleanupErr>> /\ QuitFrame
QuitAgain(code) ==
  /\ ui = "quitting" /\ code # 0 /\ exitCode' = code
  /\ UNCHANGED <<ui, recorded, cleanupErr, closing, cut, stopVars>> /\ QuitFrame

(* handleJobResult: a quitting model only notes it; an unclean end, and    *)
(* the uninstall of the program itself, begin a quit; a failure ends the   *)
(* operation, a success too if another is queued, or else reloads.         *)
ResultFrame == UNCHANGED <<leaving, crashed, startHandle>> /\ OperationFrame
JobResult ==
  /\ ui \in {"open", "quitting"} /\ run = "operating" /\ Ended /\ FinishJob /\ startStop' = TRUE
  /\ IF ui = "open" /\ outcome.cleanupErr
     THEN /\ ui' = "quitting" /\ run' = "over" /\ exitCode' = 1 /\ jobStop' = TRUE /\ CancelReads
          /\ UNCHANGED <<command, handle, pending, disowned, stopped>>
     ELSE /\ UNCHANGED <<ui, closing, jobStop, exitCode>>
          /\ \/ ui = "open" /\ FinishOperation /\ UNCHANGED readVars
             \/ ui = "open" /\ run' = "over" /\ Begin(Kinds) /\ UNCHANGED stopped
             \/ ui = "quitting" /\ run' = "over" /\ UNCHANGED <<readVars, stopped>>
  /\ ResultFrame
RemovedItself ==
  /\ ui = "open" /\ run = "operating" /\ Ended /\ ~outcome.cleanupErr /\ FinishJob
  /\ ui' = "quitting" /\ run' = "over" /\ exitCode' = 0
  /\ CancelReads /\ startStop' = TRUE /\ jobStop' = TRUE
  /\ UNCHANGED <<command, handle, pending, disowned, stopped>> /\ ResultFrame

(* finishQuit, once nothing is pending; then QuitMsg.                      *)
LeaveFrame ==
  UNCHANGED <<run, stopped, stopVars, readVars, closing, startHandle, recorded, cleanupErr>>
FinishQuit ==
  /\ ui = "quitting" /\ Settled /\ leaving' = TRUE
  /\ exitCode' = IF cleanupErr THEN 1 ELSE exitCode
  /\ UNCHANGED <<ui, crashed>> /\ LeaveFrame /\ OperationFrame
QuitMsg ==
  /\ leaving /\ ui # "gone" /\ ui' = "gone" /\ leaving' = FALSE
  /\ UNCHANGED <<crashed, exitCode>> /\ LeaveFrame /\ OperationFrame

Crash ==
  /\ ui # "gone" /\ ui' = "gone" /\ crashed' = TRUE /\ leaving' = FALSE
  /\ UNCHANGED exitCode /\ LeaveFrame /\ OperationFrame

----------------------------------------------------------------------------
(* Cleanup, with its twenty seconds.                                       *)
Goto(from, to) == cleaner = from /\ cleaner' = to
CleanFrame == UNCHANGED <<uiVars, jobVars, taskVars, command, handle, pending, disowned,
                          startHandle, jobHandle, recorded, exitCode>>
NotCancelling == UNCHANGED <<closing, cut, stopVars>>

CleanupCancels ==
  /\ ui = "gone" /\ Goto("off", "read") /\ CancelOwned
  /\ UNCHANGED <<awaited, awaitedJob, late, cleanupErr>> /\ CleanFrame

ReadHandles ==
  /\ Goto("read", "await") /\ awaited' = handle /\ awaitedJob' = jobHandle
  /\ NotCancelling /\ UNCHANGED <<late, cleanupErr>> /\ CleanFrame

TaskOf(which) ==
  IF which = "current" THEN jobTask ELSE IF which = "old" THEN oldTask ELSE "ended"
(* No operation starts once Run has returned: the names keep their meaning. *)
AllAwaited ==
  /\ startHandle => startTask = "ended"
  /\ TaskOf(awaitedJob) = "ended"
  /\ \A k \in Kinds : awaited[k] # 0 => command[<<k, awaited[k]>>] = "ended"
AwaitAll ==
  /\ Goto("await", "again")
  /\ (AllAwaited /\ UNCHANGED cleanupErr) \/ (late /\ cleanupErr' = TRUE)
  /\ NotCancelling /\ UNCHANGED <<awaited, awaitedJob, late>> /\ CleanFrame

(* The job handle is read again: Start may have registered one meanwhile.  *)
ReadAgainFlawed ==
  /\ Goto("again", "returned") /\ NotCancelling
  /\ UNCHANGED <<awaited, awaitedJob, late, cleanupErr>> /\ CleanFrame
ReadAgain ==
  /\ IF jobHandle \notin {"none", awaitedJob}
     THEN Goto("again", "awaitJob") /\ jobStop' = TRUE /\ UNCHANGED <<closing, cut, startStop>>
     ELSE Goto("again", "returned") /\ NotCancelling
  /\ UNCHANGED <<awaited, awaitedJob, late, cleanupErr>> /\ CleanFrame

AwaitRaced ==
  /\ Goto("awaitJob", "returned")
  /\ (TaskOf(jobHandle) = "ended" /\ UNCHANGED cleanupErr) \/ (late /\ cleanupErr' = TRUE)
  /\ NotCancelling /\ UNCHANGED <<awaited, awaitedJob, late>> /\ CleanFrame

TimeRunsOut ==
  /\ cleaner \in {"await", "awaitJob"} /\ ~late /\ late' = TRUE
  /\ NotCancelling /\ UNCHANGED <<cleaner, awaited, awaitedJob, cleanupErr>> /\ CleanFrame

(* run(): what the process exits with after Cleanup.                       *)
ExitStatus ==
  IF cleanupErr THEN 1
  ELSE IF exitCode \in SignalCodes THEN exitCode
  ELSE IF crashed THEN 1 ELSE exitCode

----------------------------------------------------------------------------
Reads ==
  \/ StartReads
  \/ \E k \in Kinds : \E n \in Numbers(k) : CommandEnds(k, n) \/ ResultHandled(k, n)
Tasks == JobSteps \/ JobFinishes \/ RegisterJob \/ StartReturns \/ RecordResult \/ WaitDone
Update ==
  \/ StartOperation \/ HearOfStart \/ CancelOperation \/ Unquit \/ JobResult \/ RemovedItself
  \/ FinishQuit \/ QuitMsg \/ Crash
  \/ \E code \in {0, 130} : Quit(code) \/ QuitAgain(code)
Cleanup == CleanupCancels \/ ReadHandles \/ AwaitAll \/ ReadAgain \/ AwaitRaced \/ TimeRunsOut

Next == Reads \/ Tasks \/ Update \/ Cleanup

Spec == Init /\ [][Next]_vars

----------------------------------------------------------------------------
(* What the program gave up on: it returned while the model still waited   *)
(* for something begun under a closed Supervisor, which kept no handle.    *)
StartIsLost == run = "starting" /\ opDisowned
ReadIsLost(k, n) == pending[k] = n /\ k \in disowned

(* A Cleanup that returns no error leaves nothing running: no start, no    *)
(* job (model.go:269: one registered behind its back included), and no     *)
(* read command but a superseded one, which was cancelled.  All it may     *)
(* leave beside is what began after a quit that a resize took back         *)
(* (model.go:2123-2151) and was still awaited when the program ended.      *)
Returned == cleaner = "returned"
CleanupIsComplete ==
  Returned /\ ~cleanupErr =>
    /\ ~StartIsLost => /\ startTask \in {"none", "ended"}
                       /\ phase = "started" => outcome # NoResult /\ ~remains
    /\ \A k \in Kinds : \A n \in Numbers(k) :
         command[<<k, n>>] = "running" =>
           /\ <<k, n>> \in cut
           /\ n < Cardinality(Runs(k)) \/ ReadIsLost(k, n)

(* Whatever outlives the program, because the time ran out, because it was *)
(* superseded (model.go:1748) or because it had no handle, has been told   *)
(* to stop, or is told when its start returns.                             *)
LeftoversAreCancelled ==
  Returned =>
    /\ \A c \in Commands : command[c] = "running" => c \in cut
    /\ startTask = "running" => startStop /\ closing
    /\ jobTask = "waiting" => jobStop

(* The process ends with success or with a signal's code only if no job    *)
(* ever ended with a cleanup error, of this operation or an earlier one    *)
(* (but for the job of a start that was given up on); with success only if *)
(* the program did not fail either.                                        *)
ExitIsHonest ==
  Returned => /\ unclean => ExitStatus = 1 \/ StartIsLost
              /\ crashed => ExitStatus # 0
=============================================================================
