-------------------------- MODULE SupervisorProofs --------------------------
(***************************************************************************)
(* What the Supervisor's Cleanup leaves behind and what the process exits  *)
(* with, for any number of operations and commands.  The jobs are those of *)
(* JobContract, which PrivilegedJobProofs shows the real ones to keep.     *)
(***************************************************************************)
EXTENDS Supervisor, FiniteSetTheorems, TLAPS

USE BoundsAssumption, ResultAssumption DEF BoundsAssumption, ResultAssumption

(* Every variable holds what the Supervisor's fields can be.               *)
Tasks4 == {"none", "waiting", "recorded", "ended"}
Flags ==
  /\ crashed \in BOOLEAN /\ stopped \in BOOLEAN /\ unclean \in BOOLEAN /\ remains \in BOOLEAN
  /\ startStop \in BOOLEAN /\ jobStop \in BOOLEAN /\ closing \in BOOLEAN
  /\ startHandle \in BOOLEAN /\ recorded \in BOOLEAN /\ cleanupErr \in BOOLEAN /\ late \in BOOLEAN
  /\ leaving \in BOOLEAN /\ opDisowned \in BOOLEAN
Places ==
  /\ ui \in {"open", "quitting", "gone"} /\ run \in {"idle", "starting", "operating", "over"}
  /\ phase \in {"starting", "started", "failed"} /\ outcome \in {NoResult} \cup Outcomes
  /\ startTask \in {"none", "running", "registered", "ended"}
  /\ jobTask \in Tasks4 /\ oldTask \in Tasks4
  /\ jobHandle \in {"none", "current", "old"} /\ awaitedJob \in {"none", "current", "old"}
  /\ exitCode \in {0, 1, 130}
  /\ cleaner \in {"off", "read", "await", "again", "awaitJob", "returned"}
Handles(h) == h \in [Kinds -> Nat] /\ \A k \in Kinds : h[k] \in {0} \cup Numbers(k)
Tables ==
  /\ command \in [Commands -> {"none", "running", "ended"}] /\ cut \subseteq Commands
  /\ Handles(handle) /\ Handles(pending) /\ Handles(awaited) /\ disowned \subseteq Kinds
TypeOK == Flags /\ Places /\ Tables

----------------------------------------------------------------------------
(* The operation: its start, its job and their handles agree; a start      *)
(* without a handle began under a closed Supervisor, which cancelled it;   *)
(* and an operation that ended uncleanly is never followed by another.     *)
StartIsHandled ==
  /\ startTask \in {"running", "registered"} =>
       run = "starting" /\ (startHandle \/ (opDisowned /\ startStop))
  /\ startHandle => run = "starting"
  /\ opDisowned => closing
StartFollowsJob ==
  /\ startTask = "none" => phase = "starting" /\ jobTask = "none" /\ run = "idle"
  /\ startTask = "registered" => phase = "started"
  /\ startTask = "ended" => phase # "starting"
JobIsHandled ==
  /\ jobTask # "none" <=> phase = "started" /\ startTask \in {"registered", "ended"}
  /\ jobTask # "none" <=> jobHandle = "current"
OutcomeIsTrue == outcome # NoResult => phase = "started" /\ (~outcome.cleanupErr => ~remains)
ResultIsKept ==
  /\ jobTask = "waiting" => ~recorded
  /\ jobTask \in {"recorded", "ended"} => outcome # NoResult /\ (outcome.cleanupErr => cleanupErr)
UncleanIsCurrent == unclean => outcome # NoResult /\ outcome.cleanupErr
EndedCleanly ==
  startTask # "none" /\ phase = "started" => outcome # NoResult /\ ~outcome.cleanupErr
IdleIsClean ==
  /\ run = "idle" => EndedCleanly
  /\ Listing => run \in {"idle", "over"} /\ EndedCleanly
ClosingIsFinal == cleaner # "off" => ui = "gone" /\ closing

OperationInv ==
  /\ StartIsHandled /\ StartFollowsJob /\ JobIsHandled /\ OutcomeIsTrue /\ ResultIsKept
  /\ UncleanIsCurrent /\ IdleIsClean /\ ClosingIsFinal

(* The commands: they are numbered in order; the handle is that of the     *)
(* latest, unless that began under a closed Supervisor; and one that runs  *)
(* without a handle was cancelled.                                         *)
Last(k) == Cardinality(Runs(k))
Numbered ==
  \A k \in Kinds :
    /\ Runs(k) = 1..Last(k)
    /\ pending[k] \in {0, Last(k)}
    /\ k \notin disowned => handle[k] = pending[k]
Superseded ==
  \A k \in Kinds : \A n \in Numbers(k) :
    command[<<k, n>>] = "running" =>
      n = handle[k] \/ (<<k, n>> \in cut /\ (n < Last(k) \/ ReadIsLost(k, n)))
ReadsInv == Numbered /\ Superseded /\ (disowned # {} => closing)

(* What has a handle was cancelled once the Supervisor is closed.          *)
Told ==
  closing =>
    /\ startHandle => startStop
    /\ jobTask = "waiting" => jobStop
    /\ \A k \in Kinds : handle[k] # 0 => <<k, handle[k]>> \in cut

(* Cleanup: what its stages have awaited.                                  *)
Read == cleaner \notin {"off", "read"} => awaited = handle
Awaited ==
  cleaner \in {"again", "awaitJob", "returned"} /\ ~cleanupErr =>
    /\ startHandle => startTask \in {"none", "ended"}
    /\ \A k \in Kinds : handle[k] # 0 => command[<<k, handle[k]>>] = "ended"
JobAwaited ==
  ~cleanupErr /\ ~StartIsLost =>
    /\ cleaner = "again" /\ awaitedJob = "current" => jobTask = "ended"
    /\ cleaner = "returned" /\ jobHandle = "current" => jobTask = "ended"
CleanerInv == Read /\ Awaited /\ JobAwaited

IInv == TypeOK /\ OperationInv /\ ReadsInv /\ Told /\ CleanerInv

USE DEF jobVars, taskVars, stopVars, readVars, cleanVars, uiVars, fieldVars

----------------------------------------------------------------------------
(* Commands and their numbers.                                             *)
LEMMA CommandNumbers ==
  /\ \A k \in Kinds : \A n \in Numbers(k) : <<k, n>> \in Commands /\ n \in Nat /\ n # 0
  /\ \A c \in Commands : \E k \in Kinds : \E n \in Numbers(k) : c = <<k, n>>
  /\ \A k \in Kinds : \A n : <<k, n>> \in Commands => n \in Numbers(k)
BY DEF Commands, Numbers, Kinds

LEMMA HandleIsCommand ==
  ASSUME NEW h, Handles(h), NEW k \in Kinds, h[k] # 0
  PROVE  <<k, h[k]>> \in Commands /\ h[k] \in Numbers(k)
BY CommandNumbers DEF Handles

----------------------------------------------------------------------------
(* Types.                                                                  *)
LEMMA InitType == Init => TypeOK
<1> SUFFICES ASSUME Init PROVE TypeOK
  OBVIOUS
<1>1. Flags /\ Places
  BY DEF Init, Flags, Places, Tasks4
<1>2. Tables
  BY DEF Init, Tables, Handles
<1> QED BY <1>1, <1>2 DEF TypeOK

(* Flags are set from flags.                                               *)
LEMMA CancelledFlags ==
  Flags /\ CancelOwned => closing' = TRUE /\ startStop' \in BOOLEAN /\ jobStop' \in BOOLEAN
BY DEF Flags, CancelOwned, CancelReads

LEMMA StoppedFlags ==
  Flags /\ StopOperation => stopped' = TRUE /\ startStop' = TRUE /\ jobStop' \in BOOLEAN
BY DEF Flags, StopOperation

LEMMA NextFlags == TypeOK /\ Next => Flags'
<1> SUFFICES ASSUME TypeOK, Next PROVE Flags'
  OBVIOUS
<1> USE DEF TypeOK, Flags
<1>1. CASE Reads
  <2>1. ReadFrame /\ UNCHANGED <<leaving, crashed, opDisowned>> /\ stopped' \in BOOLEAN
    BY <1>1 DEF Reads, StartReads, CommandEnds, ResultHandled, FinishOperation
  <2> QED BY <2>1 DEF ReadFrame
<1>2. CASE JobSteps
  <2>1. remains' \in BOOLEAN
    BY <1>2 DEF JobSteps, Job!Setup, Job!Launch, Job!Fail, Job!Subside
  <2> QED BY <1>2, <2>1 DEF JobSteps, TaskFrame
<1>3. CASE JobFinishes
  <2>1. PICK o \in Outcomes : Job!Finish(o) /\ unclean' = (unclean \/ o.cleanupErr)
    BY <1>3 DEF JobFinishes
  <2>2. o.cleanupErr \in BOOLEAN
    BY DEF Outcomes
  <2>3. unclean' \in BOOLEAN /\ remains' \in BOOLEAN
    BY <2>1, <2>2 DEF Job!Finish
  <2> QED BY <1>3, <2>3 DEF JobFinishes, TaskFrame
<1>4. CASE RegisterJob \/ StartReturns \/ WaitDone
  <2>1. CASE RegisterJob
    BY <2>1 DEF RegisterJob, TaskFrame
  <2>2. CASE StartReturns
    BY <2>2 DEF StartReturns, TaskFrame
  <2>3. CASE WaitDone
    BY <2>3 DEF WaitDone, TaskFrame
  <2> QED BY <1>4, <2>1, <2>2, <2>3
<1>5. CASE RecordResult
  BY <1>5 DEF RecordResult, FinishJob, TaskFrame
<1>6. CASE StartOperation
  BY <1>6 DEF StartOperation
<1>7. CASE HearOfStart
  <2>1. jobStop' \in BOOLEAN /\ startStop' \in BOOLEAN
    BY <1>7 DEF HearOfStart
  <2> QED BY <1>7, <2>1 DEF HearOfStart, OperationFrame
<1>8. CASE CancelOperation \/ Unquit
  <2>1. stopped' \in BOOLEAN /\ startStop' \in BOOLEAN /\ jobStop' \in BOOLEAN
    BY <1>8, StoppedFlags DEF CancelOperation, Unquit
  <2> QED BY <1>8, <2>1 DEF CancelOperation, Unquit, StopFrame, OperationFrame
<1>9. CASE JobResult \/ RemovedItself
  <2>1. cleanupErr' \in BOOLEAN /\ recorded' = TRUE /\ ResultFrame
    BY <1>9 DEF JobResult, RemovedItself, FinishJob
  <2>2. stopped' \in BOOLEAN /\ closing' \in BOOLEAN /\ startStop' = TRUE /\ jobStop' \in BOOLEAN
    BY <1>9 DEF JobResult, RemovedItself, FinishOperation, CancelReads
  <2> QED BY <2>1, <2>2 DEF ResultFrame, OperationFrame
<1>10. CASE FinishQuit \/ QuitMsg \/ Crash
  <2>1. LeaveFrame /\ OperationFrame /\ leaving' \in BOOLEAN /\ crashed' \in BOOLEAN
    BY <1>10 DEF FinishQuit, QuitMsg, Crash
  <2> QED BY <2>1 DEF LeaveFrame, OperationFrame
<1>11. ASSUME NEW code \in {0, 130}, Quit(code) \/ QuitAgain(code) PROVE Flags'
  <2>1. CASE Quit(code)
    BY <2>1, CancelledFlags DEF Quit, QuitFrame, OperationFrame
  <2>2. CASE QuitAgain(code)
    BY <2>2 DEF QuitAgain, QuitFrame, OperationFrame
  <2> QED BY <1>11, <2>1, <2>2
<1>12. CASE Cleanup
  <2>1. CASE CleanupCancels
    BY <2>1, CancelledFlags DEF CleanupCancels, CleanFrame
  <2>2. CASE ReadHandles
    BY <2>2 DEF ReadHandles, CleanFrame, NotCancelling
  <2>3. CASE AwaitAll \/ AwaitRaced
    <3>1. cleanupErr' \in BOOLEAN /\ NotCancelling /\ CleanFrame /\ UNCHANGED late
      BY <2>3 DEF AwaitAll, AwaitRaced
    <3> QED BY <3>1 DEF CleanFrame, NotCancelling
  <2>4. CASE ReadAgain
    <3>1. jobStop' \in BOOLEAN /\ UNCHANGED <<closing, startStop, late, cleanupErr>> /\ CleanFrame
      BY <2>4 DEF ReadAgain, NotCancelling
    <3> QED BY <3>1 DEF CleanFrame
  <2>5. CASE TimeRunsOut
    BY <2>5 DEF TimeRunsOut, CleanFrame, NotCancelling
  <2> QED BY <1>12, <2>1, <2>2, <2>3, <2>4, <2>5 DEF Cleanup
<1> QED BY <1>1, <1>2, <1>3, <1>4, <1>5, <1>6, <1>7, <1>8, <1>9, <1>10, <1>11, <1>12
        DEF Next, Tasks, Update

LEMMA NextPlaces == TypeOK /\ Next => Places'
<1> SUFFICES ASSUME TypeOK, Next PROVE Places'
  OBVIOUS
<1> USE DEF TypeOK, Places, Tasks4
<1>1. CASE Reads
  <2>1. ReadFrame /\ UNCHANGED ui /\ run' \in {run, "idle"}
    BY <1>1 DEF Reads, StartReads, CommandEnds, ResultHandled, FinishOperation
  <2> QED BY <2>1 DEF ReadFrame
<1>2. CASE JobSteps \/ JobFinishes
  BY <1>2 DEF JobSteps, Job!Setup, Job!Launch, Job!Fail, Job!Subside, JobFinishes, Job!Finish,
              Outcomes, TaskFrame
<1>3. CASE RegisterJob \/ StartReturns \/ RecordResult \/ WaitDone
  BY <1>3 DEF RegisterJob, StartReturns, RecordResult, WaitDone, TaskFrame
<1>4. CASE StartOperation
  BY <1>4 DEF StartOperation
<1>5. CASE HearOfStart \/ CancelOperation \/ Unquit
  BY <1>5 DEF HearOfStart, CancelOperation, Unquit, StopFrame, OperationFrame
<1>6. CASE JobResult \/ RemovedItself
  <2>1. /\ ui' \in {"open", "quitting", "gone"} /\ run' \in {"idle", "over"}
        /\ exitCode' \in {0, 1, 130} /\ ResultFrame
    BY <1>6 DEF JobResult, RemovedItself, FinishOperation
  <2> QED BY <2>1 DEF ResultFrame, OperationFrame
<1>7. CASE FinishQuit \/ QuitMsg \/ Crash
  BY <1>7 DEF FinishQuit, QuitMsg, Crash, LeaveFrame, OperationFrame
<1>8. ASSUME NEW code \in {0, 130}, Quit(code) \/ QuitAgain(code) PROVE Places'
  BY <1>8 DEF Quit, QuitAgain, QuitFrame, OperationFrame
<1>9. CASE Cleanup
  BY <1>9 DEF Cleanup, CleanupCancels, ReadHandles, AwaitAll, Goto,
              ReadAgain, AwaitRaced, TimeRunsOut, CleanFrame
<1> QED BY <1>1, <1>2, <1>3, <1>4, <1>5, <1>6, <1>7, <1>8, <1>9 DEF Next, Tasks, Update

(* Only a read command and a cancellation write the tables.                *)
LEMMA CutType == Tables /\ (CancelReads \/ StopOperation) => cut' \subseteq Commands
<1> SUFFICES ASSUME Tables, CancelReads \/ StopOperation PROVE cut' \subseteq Commands
  OBVIOUS
<1>1. \A k \in Kinds : handle[k] # 0 => <<k, handle[k]>> \in Commands
  BY HandleIsCommand DEF Tables
<1>2. "list" \in Kinds /\ (Listing => <<"list", pending["list"]>> \in Commands)
  BY HandleIsCommand DEF Tables, Listing, Kinds
<1> QED BY <1>1, <1>2 DEF CancelReads, StopOperation, Tables

LEMMA Uncut ==
  ASSUME Tables, UNCHANGED <<command, handle, pending, disowned>>,
         UNCHANGED awaited \/ awaited' = handle, UNCHANGED cut \/ CancelReads \/ StopOperation
  PROVE  Tables'
BY CutType DEF Tables, Handles

(* What begins is numbered next, within the bound.                         *)
LEMMA LastIsNumber ==
  ASSUME NEW k \in Kinds PROVE Last(k) \in Nat
<1>1. IsFiniteSet(Numbers(k))
  BY FS_Interval DEF Numbers
<1> QED BY <1>1, FS_Subset, FS_CardinalityType DEF Last, Runs

LEMMA BeginsNext ==
  ASSUME NEW ks \in SUBSET Kinds, Begin(ks)
  PROVE  \A k \in ks : Number(k) \in Numbers(k) /\ Number(k) = Last(k) + 1 /\ Last(k) \in Nat
BY CommandNumbers, LastIsNumber DEF Begin, Number, Last

LEMMA BeginType ==
  ASSUME Tables, NEW ks \in SUBSET Kinds, Begin(ks), UNCHANGED awaited PROVE Tables'
<1>1. \A k \in ks : Number(k) \in Numbers(k) /\ Number(k) \in Nat /\ <<k, Number(k)>> \in Commands
  BY BeginsNext, CommandNumbers
<1>2. Handles(pending')
  BY <1>1 DEF Begin, Tables, Handles
<1>3. Handles(handle')
  BY <1>1 DEF Begin, Tables, Handles
<1>4. cut' \subseteq Commands
  <2>1. \A k \in Kinds : pending[k] # 0 => <<k, pending[k]>> \in Commands
    BY HandleIsCommand DEF Tables
  <2> QED BY <1>1, <2>1 DEF Begin, Tables
<1>5. command' \in [Commands -> {"none", "running", "ended"}] /\ disowned' \subseteq Kinds
  BY DEF Begin, Tables
<1> QED BY <1>2, <1>3, <1>4, <1>5 DEF Tables

LEMMA NextTables == TypeOK /\ Next => Tables'
<1> SUFFICES ASSUME TypeOK, Next PROVE Tables'
  OBVIOUS
<1> USE DEF TypeOK
<1>1. CASE Reads
  <2>1. CASE StartReads
    BY <2>1, BeginType DEF StartReads, ReadFrame
  <2>2. ASSUME NEW k \in Kinds, NEW n \in Numbers(k), CommandEnds(k, n) PROVE Tables'
    BY <2>2, CommandNumbers DEF CommandEnds, ReadFrame, Tables, Handles
  <2>3. ASSUME NEW k \in Kinds, NEW n \in Numbers(k), ResultHandled(k, n) PROVE Tables'
    BY <2>3 DEF ResultHandled, ReadFrame, Tables, Handles
  <2> QED BY <1>1, <2>1, <2>2, <2>3 DEF Reads
<1>2. CASE Tasks
  BY <1>2, Uncut DEF Tasks, JobSteps, JobFinishes, RegisterJob, StartReturns, RecordResult, WaitDone,
                     TaskFrame
<1>3. CASE StartOperation \/ HearOfStart \/ FinishQuit \/ QuitMsg \/ Crash
  BY <1>3, Uncut DEF StartOperation, HearOfStart, FinishQuit, QuitMsg, Crash, LeaveFrame,
                     OperationFrame
<1>4. CASE CancelOperation \/ Unquit
  BY <1>4, Uncut DEF CancelOperation, Unquit, StopFrame, OperationFrame
<1>5. CASE JobResult \/ RemovedItself
  <2>1. UNCHANGED awaited
    BY <1>5 DEF JobResult, RemovedItself, ResultFrame, OperationFrame
  <2>2. \/ UNCHANGED <<command, handle, pending, disowned>> /\ (UNCHANGED cut \/ CancelReads)
        \/ Begin(Kinds)
    BY <1>5 DEF JobResult, RemovedItself
  <2> QED BY <2>1, <2>2, Uncut, BeginType
<1>6. ASSUME NEW code \in {0, 130}, Quit(code) \/ QuitAgain(code) PROVE Tables'
  BY <1>6, Uncut DEF Quit, QuitAgain, CancelOwned, QuitFrame, OperationFrame
<1>7. CASE Cleanup
  BY <1>7, Uncut DEF Cleanup, CleanupCancels, CancelOwned, ReadHandles, AwaitAll, ReadAgain,
                     AwaitRaced, TimeRunsOut, CleanFrame, NotCancelling
<1> QED BY <1>1, <1>2, <1>3, <1>4, <1>5, <1>6, <1>7 DEF Next, Update

LEMMA NextType == TypeOK /\ [Next]_vars => TypeOK'
<1>1. TypeOK /\ UNCHANGED vars => TypeOK'
  BY DEF vars, TypeOK, Flags, Places, Tables, Handles
<1> QED BY <1>1, NextFlags, NextPlaces, NextTables DEF TypeOK

----------------------------------------------------------------------------
(* The operation.                                                          *)
USE DEF StartIsHandled, StartFollowsJob, JobIsHandled, OutcomeIsTrue, ResultIsKept,
        UncleanIsCurrent, IdleIsClean, ClosingIsFinal

LEMMA InitOperation == Init => OperationInv
BY DEF Init, OperationInv, EndedCleanly, Listing, Kinds

(* Nothing but the operation's own steps, and those of quitting, matters.  *)
OperationKept ==
  UNCHANGED <<ui, run, opDisowned, jobVars, startTask, jobTask, unclean, recorded, jobHandle,
              startHandle, startStop, closing, pending>>
LEMMA OperationUnchanged ==
  ASSUME OperationInv, OperationKept, UNCHANGED cleanupErr \/ cleanupErr' = TRUE,
         UNCHANGED cleaner \/ cleaner # "off"
  PROVE  OperationInv'
BY DEF OperationInv, OperationKept, EndedCleanly, Listing

LEMMA JobMoves == TypeOK /\ OperationInv /\ (JobSteps \/ JobFinishes) => OperationInv'
<1> SUFFICES ASSUME TypeOK, OperationInv, JobSteps \/ JobFinishes PROVE OperationInv'
  OBVIOUS
<1> USE DEF TypeOK, Flags, Places, Tasks4, OperationInv, EndedCleanly, Listing
<1>1. CASE JobSteps
  BY <1>1 DEF JobSteps, Job!Setup, Job!Launch, Job!Fail, Job!Subside, TaskFrame
<1>2. CASE JobFinishes
  <2>1. PICK o \in Outcomes : Job!Finish(o) /\ unclean' = (unclean \/ o.cleanupErr)
    BY <1>2 DEF JobFinishes
  <2>2. ~unclean /\ jobTask \notin {"recorded", "ended"} /\ outcome' = o
    BY <2>1 DEF Job!Finish
  <2> QED BY <1>2, <2>1, <2>2 DEF JobFinishes, Job!Finish, TaskFrame
<1> QED BY <1>1, <1>2

LEMMA TaskMoves ==
  TypeOK /\ OperationInv /\ (RegisterJob \/ StartReturns \/ RecordResult \/ WaitDone)
    => OperationInv'
<1> SUFFICES ASSUME TypeOK, OperationInv, RegisterJob \/ StartReturns \/ RecordResult \/ WaitDone
             PROVE  OperationInv'
  OBVIOUS
<1> USE DEF TypeOK, Flags, Places, Tasks4, OperationInv, EndedCleanly, Listing
<1>1. CASE RegisterJob
  BY <1>1 DEF RegisterJob, TaskFrame
<1>2. CASE StartReturns
  BY <1>2 DEF StartReturns, TaskFrame
<1>3. CASE RecordResult
  <2>1. /\ outcome # NoResult /\ (outcome.cleanupErr => cleanupErr')
        /\ jobTask = "waiting" /\ jobTask' = "recorded"
    BY <1>3 DEF RecordResult, FinishJob
  <2> QED BY <1>3, <2>1 DEF RecordResult, TaskFrame
<1>4. CASE WaitDone
  BY <1>4 DEF WaitDone, TaskFrame
<1> QED BY <1>1, <1>2, <1>3, <1>4

(* A result that was recorded is recorded once.                            *)
LEMMA ResultIsClean ==
  ASSUME TypeOK, OperationInv, run = "operating", Ended, FinishJob
  PROVE  /\ startTask = "ended" /\ phase = "started" /\ outcome # NoResult /\ ~Listing
         /\ outcome.cleanupErr => cleanupErr'
BY DEF TypeOK, Flags, OperationInv, Ended, FinishJob

LEMMA ResultMoves ==
  TypeOK /\ OperationInv /\ (JobResult \/ RemovedItself) => OperationInv'
<1> SUFFICES ASSUME TypeOK, OperationInv, JobResult \/ RemovedItself PROVE OperationInv'
  OBVIOUS
<1>1. run = "operating" /\ Ended /\ FinishJob /\ ResultFrame /\ startStop' = TRUE
  BY DEF JobResult, RemovedItself
<1>2. /\ startTask = "ended" /\ phase = "started" /\ outcome # NoResult /\ ~Listing
      /\ outcome.cleanupErr => cleanupErr'
  BY <1>1, ResultIsClean
<1>3. run' \in {"idle", "over"} /\ (closing => closing') /\ ui # "gone"
  BY DEF JobResult, RemovedItself, FinishOperation, CancelReads
<1>4. /\ run' = "idle" => ~outcome.cleanupErr
      /\ UNCHANGED pending \/ ~outcome.cleanupErr
  BY DEF JobResult, RemovedItself, FinishOperation
<1> QED BY <1>1, <1>2, <1>3, <1>4
        DEF OperationInv, ResultFrame, OperationFrame, FinishJob, EndedCleanly, Listing, Ended

LEMMA UpdateMoves == TypeOK /\ OperationInv /\ Update => OperationInv'
<1> SUFFICES ASSUME TypeOK, OperationInv, Update PROVE OperationInv'
  OBVIOUS
<1> USE DEF TypeOK, Flags, Places, Tasks4, OperationInv
<1>1. CASE StartOperation
  <2>1. ~unclean
    BY <1>1 DEF StartOperation, EndedCleanly
  <2> QED BY <1>1, <2>1 DEF StartOperation, EndedCleanly, Listing
<1>2. CASE HearOfStart
  BY <1>2 DEF HearOfStart, OperationFrame, EndedCleanly, Listing
<1>3. CASE CancelOperation \/ Unquit
  <2>1. startStop => startStop'
    BY <1>3 DEF CancelOperation, Unquit, StopOperation
  <2> QED BY <1>3, <2>1 DEF CancelOperation, Unquit, StopFrame, OperationFrame, EndedCleanly,
                            Listing
<1>4. CASE JobResult \/ RemovedItself
  BY <1>4, ResultMoves
<1>5. CASE FinishQuit \/ QuitMsg \/ Crash
  BY <1>5 DEF FinishQuit, QuitMsg, Crash, LeaveFrame, OperationFrame, EndedCleanly, Listing
<1>6. ASSUME NEW code \in {0, 130}, Quit(code) PROVE OperationInv'
  <2>1. closing' = TRUE /\ (startStop => startStop')
    BY <1>6 DEF Quit, CancelOwned, CancelReads
  <2> QED BY <1>6, <2>1 DEF Quit, QuitFrame, OperationFrame, EndedCleanly, Listing
<1>7. ASSUME NEW code \in {0, 130}, QuitAgain(code) PROVE OperationInv'
  BY <1>7, OperationUnchanged DEF QuitAgain, QuitFrame, OperationFrame, OperationKept
<1> QED BY <1>1, <1>2, <1>3, <1>4, <1>5, <1>6, <1>7 DEF Update

LEMMA CleanupMoves == TypeOK /\ OperationInv /\ Cleanup => OperationInv'
<1> SUFFICES ASSUME TypeOK, OperationInv, Cleanup PROVE OperationInv'
  OBVIOUS
<1>1. CASE CleanupCancels
  <2>1. closing' = TRUE /\ (startStop => startStop')
    BY <1>1 DEF CleanupCancels, CancelOwned, CancelReads
  <2> QED BY <1>1, <2>1
          DEF CleanupCancels, Goto, CleanFrame, OperationInv, TypeOK, EndedCleanly, Listing
<1>2. CASE ReadHandles
  BY <1>2, OperationUnchanged DEF ReadHandles, Goto, CleanFrame, NotCancelling, OperationKept
<1>3. CASE AwaitAll
  BY <1>3, OperationUnchanged DEF AwaitAll, Goto, CleanFrame, NotCancelling, OperationKept
<1>4. CASE ReadAgain
  BY <1>4, OperationUnchanged DEF ReadAgain, Goto, CleanFrame, NotCancelling, OperationKept
<1>5. CASE AwaitRaced
  BY <1>5, OperationUnchanged DEF AwaitRaced, Goto, CleanFrame, NotCancelling, OperationKept
<1>6. CASE TimeRunsOut
  BY <1>6, OperationUnchanged DEF TimeRunsOut, CleanFrame, NotCancelling, OperationKept
<1> QED BY <1>1, <1>2, <1>3, <1>4, <1>5, <1>6 DEF Cleanup

LEMMA ReadsKeepOperation == TypeOK /\ OperationInv /\ Reads => OperationInv'
<1> SUFFICES ASSUME TypeOK, OperationInv, Reads PROVE OperationInv'
  OBVIOUS
<1> USE DEF OperationInv, EndedCleanly
<1>1. CASE StartReads
  BY <1>1 DEF StartReads, ReadFrame
<1>2. ASSUME NEW k \in Kinds, NEW n \in Numbers(k), CommandEnds(k, n) PROVE OperationInv'
  BY <1>2 DEF CommandEnds, ReadFrame, Listing
<1>3. ASSUME NEW k \in Kinds, NEW n \in Numbers(k), ResultHandled(k, n) PROVE OperationInv'
  <2>1. Listing' => Listing
    BY <1>3 DEF ResultHandled, Listing, TypeOK, Tables, Handles, Kinds
  <2>2. run' = run \/ (run' = "idle" /\ run = "over" /\ Listing)
    BY <1>3, CommandNumbers DEF ResultHandled, FinishOperation, Listing
  <2> QED BY <1>3, <2>1, <2>2 DEF ResultHandled, ReadFrame
<1> QED BY <1>1, <1>2, <1>3 DEF Reads

LEMMA NextOperation == TypeOK /\ OperationInv /\ [Next]_vars => OperationInv'
<1>1. OperationInv /\ UNCHANGED vars => OperationInv'
  BY OperationUnchanged DEF vars, OperationKept
<1> QED BY <1>1, ReadsKeepOperation, JobMoves, TaskMoves, UpdateMoves, CleanupMoves
        DEF Next, Tasks

----------------------------------------------------------------------------
(* The read commands.                                                      *)
LEMMA InitReads == Init => ReadsInv
<1> SUFFICES ASSUME Init PROVE ReadsInv
  OBVIOUS
<1>1. ASSUME NEW k \in Kinds PROVE Runs(k) = {} /\ handle[k] = 0 /\ pending[k] = 0
  BY CommandNumbers DEF Init, Runs
<1>2. Cardinality({}) = 0 /\ 1..0 = {}
  BY FS_EmptySet
<1>3. Numbered
  BY <1>1, <1>2 DEF Numbered, Last
<1>4. Superseded
  BY <1>1 DEF Superseded, Runs
<1>5. disowned = {}
  BY DEF Init
<1> QED BY <1>3, <1>4, <1>5 DEF ReadsInv

LEMMA LastOfInterval ==
  ASSUME NEW m \in Nat PROVE Cardinality(1..m) = m
BY FS_Interval

(* A step that leaves the commands as far as they are numbered, and        *)
(* cancels without forgetting a handle.                                    *)
LEMMA ReadsUnchanged ==
  ASSUME ReadsInv, UNCHANGED <<command, handle, pending, disowned>>, cut \subseteq cut',
         closing => closing'
  PROVE  ReadsInv'
BY DEF ReadsInv, Numbered, Superseded, Last, Runs, ReadIsLost

LEMMA CommandsBegin ==
  ASSUME TypeOK, ReadsInv, NEW ks \in SUBSET Kinds, Begin(ks), UNCHANGED closing
  PROVE  ReadsInv'
<1>1. \A k \in ks : /\ Number(k) \in Numbers(k) /\ Number(k) = Last(k) + 1 /\ Last(k) \in Nat
                    /\ Runs(k) = 1..Last(k)
  BY BeginsNext DEF ReadsInv, Numbered
<1>2. \A k \in Kinds : \A m \in Numbers(k) :
        command'[<<k, m>>] = IF k \in ks /\ m = Number(k) THEN "running" ELSE command[<<k, m>>]
  BY CommandNumbers DEF Begin
<1>3. ASSUME NEW k \in ks PROVE Runs(k)' = 1..Number(k) /\ Last(k)' = Number(k)
  <2>1. Runs(k)' = Runs(k) \cup {Number(k)}
    BY <1>1, <1>2 DEF Runs
  <2>2. Runs(k)' = 1..Number(k)
    BY <1>1, <2>1
  <2>3. Number(k) \in Nat
    BY <1>1
  <2> QED BY <2>2, <2>3, LastOfInterval DEF Last
<1>4. ASSUME NEW k \in Kinds, k \notin ks
      PROVE  /\ Runs(k)' = Runs(k) /\ Last(k)' = Last(k)
             /\ handle'[k] = handle[k] /\ pending'[k] = pending[k]
             /\ k \in disowned' <=> k \in disowned
  BY <1>2, <1>4 DEF Begin, Runs, Last
<1>5. ASSUME NEW k \in ks
      PROVE  /\ pending'[k] = Number(k)
             /\ handle'[k] = IF closing THEN handle[k] ELSE Number(k)
             /\ closing => k \in disowned' /\ <<k, Number(k)>> \in cut'
             /\ pending[k] # 0 => <<k, pending[k]>> \in cut'
             /\ ~closing => handle[k] = pending[k]
  BY DEF Begin, ReadsInv, Numbered
<1>6. Numbered'
  <2>1. ASSUME NEW k \in Kinds
        PROVE  /\ Runs(k)' = 1..Last(k)' /\ pending'[k] \in {0, Last(k)'}
               /\ k \notin disowned' => handle'[k] = pending'[k]
    <3>1. CASE k \in ks
      BY <1>3, <1>5, <3>1
    <3>2. CASE k \notin ks
      BY <1>4, <3>2 DEF ReadsInv, Numbered
    <3> QED BY <3>1, <3>2
  <2> QED BY <2>1 DEF Numbered
<1>7. ASSUME NEW k \in Kinds, NEW m \in Numbers(k), command'[<<k, m>>] = "running"
      PROVE  m = handle'[k] \/ (<<k, m>> \in cut' /\ (m < Last(k)' \/ ReadIsLost(k, m)'))
  <2>1. CASE k \notin ks
    <3>1. m = handle[k] \/ (<<k, m>> \in cut /\ (m < Last(k) \/ ReadIsLost(k, m)))
      BY <1>2, <1>7, <2>1 DEF ReadsInv, Superseded
    <3>2. cut \subseteq cut'
      BY DEF Begin
    <3> QED BY <1>4, <2>1, <3>1, <3>2 DEF ReadIsLost
  <2>2. CASE k \in ks /\ m = Number(k)
    BY <1>5, <2>2 DEF ReadIsLost
  <2>3. CASE k \in ks /\ m # Number(k)
    <3>1. command[<<k, m>>] = "running" /\ m \in 1..Last(k)
      BY <1>1, <1>2, <1>7, <2>3 DEF Runs
    <3>2. m < Last(k)'
      BY <1>1, <1>3, <2>3, <3>1
    <3>3. m = handle[k] \/ <<k, m>> \in cut
      BY <3>1 DEF ReadsInv, Superseded
    <3>4. cut \subseteq cut' /\ m # 0
      BY CommandNumbers DEF Begin
    <3> QED BY <1>5, <2>3, <3>2, <3>3, <3>4
  <2> QED BY <2>1, <2>2, <2>3
<1>8. disowned' # {} => closing'
  BY DEF Begin, ReadsInv
<1> QED BY <1>6, <1>7, <1>8 DEF ReadsInv, Superseded

LEMMA CommandFinishes ==
  ASSUME TypeOK, ReadsInv, NEW k \in Kinds, NEW n \in Numbers(k),
         CommandEnds(k, n) \/ ResultHandled(k, n)
  PROVE  ReadsInv'
<1>1. /\ cut' = cut /\ disowned' = disowned /\ closing' = closing
      /\ \A j \in Kinds : \A m \in Numbers(j) :
           /\ command'[<<j, m>>] = "none" <=> command[<<j, m>>] = "none"
           /\ command'[<<j, m>>] = "running" => command[<<j, m>>] = "running"
  BY CommandNumbers DEF CommandEnds, ResultHandled, ReadFrame, TypeOK, Tables
<1>2. ASSUME NEW j \in Kinds
      PROVE  \/ handle'[j] = handle[j] /\ pending'[j] = pending[j]
             \/ /\ j = k /\ command'[<<j, n>>] = "ended" /\ n # 0
                /\ handle'[j] = IF handle[j] = n THEN 0 ELSE handle[j]
                /\ pending'[j] = IF pending[j] = n THEN 0 ELSE pending[j]
  BY CommandNumbers DEF CommandEnds, ResultHandled, TypeOK, Tables, Handles
<1>3. ASSUME NEW j \in Kinds PROVE Runs(j)' = Runs(j) /\ Last(j)' = Last(j)
  BY <1>1 DEF Runs, Last
<1>4. Numbered'
  <2>1. ASSUME NEW j \in Kinds
        PROVE  /\ Runs(j)' = 1..Last(j)' /\ pending'[j] \in {0, Last(j)'}
               /\ j \notin disowned' => handle'[j] = pending'[j]
    <3>1. Runs(j) = 1..Last(j) /\ pending[j] \in {0, Last(j)}
          /\ (j \notin disowned => handle[j] = pending[j])
      BY DEF ReadsInv, Numbered
    <3> QED BY <1>1, <1>2, <1>3, <3>1
  <2> QED BY <2>1 DEF Numbered
<1>5. ASSUME NEW j \in Kinds, NEW m \in Numbers(j), command'[<<j, m>>] = "running"
      PROVE  m = handle'[j] \/ (<<j, m>> \in cut' /\ (m < Last(j)' \/ ReadIsLost(j, m)'))
  <2>1. m = handle[j] \/ (<<j, m>> \in cut /\ (m < Last(j) \/ (pending[j] = m /\ j \in disowned)))
    BY <1>1, <1>5 DEF ReadsInv, Superseded, ReadIsLost
  <2>2. j = k /\ command'[<<j, n>>] = "ended" => m # n
    BY <1>5
  <2> QED BY <1>1, <1>2, <1>3, <2>1, <2>2 DEF ReadIsLost
<1> QED BY <1>1, <1>4, <1>5 DEF ReadsInv, Superseded

LEMMA NextReads == TypeOK /\ ReadsInv /\ [Next]_vars => ReadsInv'
<1> SUFFICES ASSUME TypeOK, ReadsInv, [Next]_vars PROVE ReadsInv'
  OBVIOUS
<1>1. CASE Reads
  <2>1. CASE StartReads
    BY <2>1, CommandsBegin DEF StartReads, ReadFrame
  <2> QED BY <1>1, <2>1, CommandFinishes DEF Reads
<1>2. CASE Tasks
  BY <1>2, ReadsUnchanged DEF Tasks, JobSteps, JobFinishes, RegisterJob, StartReturns, RecordResult,
                              WaitDone, TaskFrame
<1>3. CASE StartOperation \/ HearOfStart \/ FinishQuit \/ QuitMsg \/ Crash
  BY <1>3, ReadsUnchanged DEF StartOperation, HearOfStart, FinishQuit, QuitMsg, Crash, LeaveFrame,
                              OperationFrame
<1>4. CASE CancelOperation \/ Unquit
  BY <1>4, ReadsUnchanged DEF CancelOperation, Unquit, StopOperation, StopFrame
<1>5. CASE JobResult \/ RemovedItself
  <2>1. \/ /\ UNCHANGED <<command, handle, pending, disowned>> /\ cut \subseteq cut'
           /\ closing => closing'
        \/ Begin(Kinds) /\ UNCHANGED closing
    BY <1>5 DEF JobResult, RemovedItself, CancelReads
  <2> QED BY <2>1, ReadsUnchanged, CommandsBegin
<1>6. ASSUME NEW code \in {0, 130}, Quit(code) \/ QuitAgain(code) PROVE ReadsInv'
  BY <1>6, ReadsUnchanged DEF Quit, QuitAgain, CancelOwned, CancelReads, QuitFrame
<1>7. CASE Cleanup
  BY <1>7, ReadsUnchanged DEF Cleanup, CleanupCancels, CancelOwned, CancelReads, ReadHandles,
                              AwaitAll, ReadAgain, AwaitRaced, TimeRunsOut, CleanFrame, NotCancelling
<1>8. CASE UNCHANGED vars
  BY <1>8, ReadsUnchanged DEF vars
<1> QED BY <1>1, <1>2, <1>3, <1>4, <1>5, <1>6, <1>7, <1>8 DEF Next, Update

----------------------------------------------------------------------------
(* A closed Supervisor has told everything it has a handle of to stop.     *)
USE DEF Told

LEMMA ToldUnchanged ==
  ASSUME Told, UNCHANGED <<closing, startHandle, jobTask, handle>>, cut \subseteq cut',
         startStop => startStop', jobStop => jobStop'
  PROVE  Told'
OBVIOUS

(* CancelOwned tells all of it.                                            *)
LEMMA OwnedAreTold ==
  ASSUME TypeOK, OperationInv, CancelOwned, UNCHANGED <<startHandle, jobTask, handle>>
  PROVE  Told'
BY DEF CancelOwned, CancelReads, OperationInv

LEMMA ResultTold == OperationInv /\ Told /\ (JobResult \/ RemovedItself) => Told'
<1> SUFFICES ASSUME OperationInv, Told, JobResult \/ RemovedItself PROVE Told'
  OBVIOUS
<1>1. startStop' = TRUE /\ UNCHANGED <<startHandle, jobTask>>
  BY DEF JobResult, RemovedItself, ResultFrame, OperationFrame
<1>2. \/ CancelReads /\ jobStop' = TRUE /\ UNCHANGED handle
      \/ UNCHANGED <<closing, jobStop>> /\ UNCHANGED readVars
      \/ UNCHANGED <<closing, jobStop>> /\ Begin(Kinds)
  BY DEF JobResult, RemovedItself
<1>3. CASE CancelReads /\ jobStop' = TRUE /\ UNCHANGED handle
  BY <1>1, <1>3 DEF CancelReads
<1>4. CASE UNCHANGED <<closing, jobStop>> /\ UNCHANGED readVars
  BY <1>1, <1>4
<1>5. CASE UNCHANGED <<closing, jobStop>> /\ Begin(Kinds)
  BY <1>1, <1>5 DEF Begin
<1> QED BY <1>2, <1>3, <1>4, <1>5

LEMMA ReadsTold == TypeOK /\ Told /\ Reads => Told'
<1> SUFFICES ASSUME TypeOK, Told, Reads PROVE Told'
  OBVIOUS
<1>1. CASE StartReads
  BY <1>1 DEF StartReads, Begin, ReadFrame
<1>2. ASSUME NEW k \in Kinds, NEW n \in Numbers(k), CommandEnds(k, n) \/ ResultHandled(k, n)
      PROVE  Told'
  <2>1. \A j \in Kinds : handle'[j] \in {0, handle[j]}
    BY <1>2 DEF CommandEnds, ResultHandled, TypeOK, Tables, Handles
  <2> QED BY <1>2, <2>1 DEF CommandEnds, ResultHandled, ReadFrame
<1> QED BY <1>1, <1>2 DEF Reads

LEMMA NextTold == TypeOK /\ OperationInv /\ Told /\ [Next]_vars => Told'
<1> SUFFICES ASSUME TypeOK, OperationInv, Told, [Next]_vars PROVE Told'
  OBVIOUS
<1>1. CASE Reads
  BY <1>1, ReadsTold
<1>2. CASE Tasks
  <2>1. CASE RegisterJob
    BY <1>2, <2>1 DEF RegisterJob, TaskFrame
  <2>2. CASE ~RegisterJob
    <3>1. UNCHANGED <<closing, startHandle, handle, cut, stopVars>>
      BY <1>2, <2>2 DEF Tasks, JobSteps, JobFinishes, StartReturns, RecordResult, WaitDone, TaskFrame
    <3>2. jobTask' = "waiting" => jobTask = "waiting"
      BY <1>2, <2>2 DEF Tasks, JobSteps, JobFinishes, StartReturns, RecordResult, WaitDone
    <3> QED BY <3>1, <3>2
  <2> QED BY <2>1, <2>2
<1>3. CASE StartOperation
  BY <1>3 DEF StartOperation
<1>4. CASE HearOfStart \/ FinishQuit \/ QuitMsg \/ Crash
  BY <1>4 DEF HearOfStart, FinishQuit, QuitMsg, Crash, LeaveFrame, OperationFrame
<1>5. CASE CancelOperation \/ Unquit
  <2>1. cut \subseteq cut' /\ (startStop => startStop') /\ (jobStop => jobStop')
    BY <1>5 DEF CancelOperation, Unquit, StopOperation
  <2> QED BY <1>5, <2>1, ToldUnchanged DEF CancelOperation, Unquit, StopFrame, OperationFrame
<1>6. CASE JobResult \/ RemovedItself
  BY <1>6, ResultTold
<1>7. ASSUME NEW code \in {0, 130}, Quit(code) \/ QuitAgain(code) PROVE Told'
  BY <1>7, OwnedAreTold, ToldUnchanged DEF Quit, QuitAgain, QuitFrame, OperationFrame
<1>8. CASE Cleanup
  BY <1>8, OwnedAreTold, ToldUnchanged
     DEF Cleanup, CleanupCancels, ReadHandles, AwaitAll, ReadAgain, AwaitRaced, TimeRunsOut,
         CleanFrame, NotCancelling
<1>9. CASE UNCHANGED vars
  BY <1>9, ToldUnchanged DEF vars
<1> QED BY <1>1, <1>2, <1>3, <1>4, <1>5, <1>6, <1>7, <1>8, <1>9 DEF Next, Update

----------------------------------------------------------------------------
(* Cleanup.                                                                *)
USE DEF Read, Awaited, JobAwaited

LEMMA InitCleaner == Init => Told /\ CleanerInv
BY DEF Init, CleanerInv

LEMMA CleanerOff == cleaner = "off" /\ UNCHANGED cleaner => CleanerInv'
BY DEF CleanerInv

(* Once Run has returned, neither Update nor a new command can disturb it. *)
LEMMA UpdateIsOver == OperationInv /\ CleanerInv /\ Update => CleanerInv'
<1> SUFFICES ASSUME OperationInv, CleanerInv, Update PROVE CleanerInv'
  OBVIOUS
<1>1. ui # "gone"
  BY DEF Update, StartOperation, HearOfStart, CancelOperation, Unquit, JobResult, RemovedItself,
         FinishQuit, QuitMsg, Crash, Quit, QuitAgain
<1>2. UNCHANGED cleaner
  BY DEF Update, StartOperation, HearOfStart, CancelOperation, Unquit, JobResult, RemovedItself,
         FinishQuit, QuitMsg, Crash, Quit, QuitAgain, ResultFrame, OperationFrame, QuitFrame
<1> QED BY <1>1, <1>2, CleanerOff DEF OperationInv

LEMMA ReadsAreOver == TypeOK /\ OperationInv /\ CleanerInv /\ Reads => CleanerInv'
<1> SUFFICES ASSUME TypeOK, OperationInv, CleanerInv, Reads, cleaner # "off" PROVE CleanerInv'
  BY CleanerOff DEF Reads, StartReads, CommandEnds, ResultHandled, ReadFrame
<1>1. ui = "gone"
  BY DEF OperationInv
<1>2. PICK k \in Kinds : \E n \in Numbers(k) : CommandEnds(k, n)
  BY <1>1 DEF Reads, StartReads, ResultHandled
<1>3. PICK n \in Numbers(k) : CommandEnds(k, n)
  BY <1>2
<1>4. \A c \in Commands : command[c] = "ended" => command'[c] = "ended"
  BY <1>3 DEF CommandEnds, TypeOK, Tables
<1>5. \A j \in Kinds : handle[j] # 0 => <<j, handle[j]>> \in Commands
  BY HandleIsCommand DEF TypeOK, Tables
<1>6. UNCHANGED <<handle, pending, uiVars>> /\ ReadFrame
  BY <1>3 DEF CommandEnds
<1> QED BY <1>4, <1>5, <1>6 DEF CleanerInv, ReadFrame, StartIsLost

LEMMA TasksAreAwaited == TypeOK /\ OperationInv /\ CleanerInv /\ Tasks => CleanerInv'
<1> SUFFICES ASSUME TypeOK, OperationInv, CleanerInv, Tasks, cleaner # "off" PROVE CleanerInv'
  BY CleanerOff DEF Tasks, JobSteps, JobFinishes, RegisterJob, StartReturns, RecordResult, WaitDone,
                    TaskFrame
<1> USE DEF CleanerInv, StartIsLost
<1>1. CASE JobSteps
  BY <1>1 DEF JobSteps, TaskFrame
<1>2. CASE JobFinishes
  BY <1>2 DEF JobFinishes, TaskFrame
<1>3. CASE RegisterJob
  BY <1>3 DEF RegisterJob, TaskFrame, OperationInv
<1>4. CASE StartReturns
  BY <1>4 DEF StartReturns, TaskFrame
<1>5. CASE RecordResult
  BY <1>5 DEF RecordResult, FinishJob, TaskFrame, TypeOK, Flags
<1>6. CASE WaitDone
  BY <1>6 DEF WaitDone, TaskFrame
<1> QED BY <1>1, <1>2, <1>3, <1>4, <1>5, <1>6 DEF Tasks

LEMMA CleanupProceeds == TypeOK /\ OperationInv /\ CleanerInv /\ Cleanup => CleanerInv'
<1> SUFFICES ASSUME TypeOK, OperationInv, CleanerInv, Cleanup PROVE CleanerInv'
  OBVIOUS
<1> USE DEF CleanerInv, Goto, StartIsLost
<1>1. CASE CleanupCancels
  BY <1>1 DEF CleanupCancels, CleanFrame
<1>2. CASE ReadHandles
  BY <1>2 DEF ReadHandles, CleanFrame
<1>3. CASE AwaitAll
  BY <1>3 DEF AwaitAll, AllAwaited, TaskOf, CleanFrame, OperationInv, TypeOK, Places
<1>4. CASE ReadAgain
  BY <1>4 DEF ReadAgain, CleanFrame
<1>5. CASE AwaitRaced
  BY <1>5 DEF AwaitRaced, TaskOf, CleanFrame
<1>6. CASE TimeRunsOut
  BY <1>6 DEF TimeRunsOut, CleanFrame
<1> QED BY <1>1, <1>2, <1>3, <1>4, <1>5, <1>6 DEF Cleanup

LEMMA NextCleaner == TypeOK /\ OperationInv /\ CleanerInv /\ [Next]_vars => CleanerInv'
<1>1. CleanerInv /\ UNCHANGED vars => CleanerInv'
  BY DEF vars, CleanerInv, StartIsLost
<1> QED BY <1>1, UpdateIsOver, ReadsAreOver, TasksAreAwaited, CleanupProceeds DEF Next

----------------------------------------------------------------------------
(* The inductive invariant of the Supervisor, its type correctness among   *)
(* its parts, holds for any number of operations and of read commands, and *)
(* however often a resize takes a quit back.                               *)
THEOREM SupervisorInvariant == Spec => []IInv
<1>1. Init => IInv
  BY InitType, InitOperation, InitReads, InitCleaner DEF IInv
<1>2. IInv /\ [Next]_vars => IInv'
  BY NextType, NextOperation, NextReads, NextTold, NextCleaner DEF IInv
<1> QED BY <1>1, <1>2, PTL DEF Spec

(* Every field of the Supervisor keeps its type.                           *)
THEOREM SupervisorTypes == Spec => []TypeOK
<1>1. IInv => TypeOK
  BY DEF IInv
<1> QED BY <1>1, SupervisorInvariant, PTL

(* A start that was not given up on is over, and so is its job.            *)
LEMMA StartIsOver ==
  ASSUME IInv, Returned, ~cleanupErr, ~StartIsLost
  PROVE  startTask \in {"none", "ended"}
BY DEF IInv, TypeOK, Places, OperationInv, CleanerInv, Returned, StartIsLost

LEMMA EndedJobIsClean ==
  ASSUME IInv, Returned, ~cleanupErr, ~StartIsLost, phase = "started"
  PROVE  outcome # NoResult /\ ~outcome.cleanupErr /\ ~remains
<1>1. startTask = "ended"
  BY StartIsOver DEF IInv, OperationInv
<1>2. jobTask = "ended"
  BY <1>1 DEF IInv, OperationInv, CleanerInv, Returned
<1> QED BY <1>2 DEF IInv, OperationInv

(* A Cleanup that returns no error leaves no start, no job (one registered *)
(* behind its back included) and no read command that was not superseded,  *)
(* but for what the program gave up on that began after a quit was taken   *)
(* back, which was cancelled.                                              *)
THEOREM CleanupLeavesNothing == Spec => []CleanupIsComplete
<1>1. IInv => CleanupIsComplete
  <2> SUFFICES ASSUME IInv, Returned, ~cleanupErr PROVE CleanupIsComplete
    BY DEF CleanupIsComplete
  <2>1. ~StartIsLost => /\ startTask \in {"none", "ended"}
                        /\ phase = "started" => outcome # NoResult /\ ~remains
    BY StartIsOver, EndedJobIsClean
  <2>2. ASSUME NEW k \in Kinds, NEW n \in Numbers(k), command[<<k, n>>] = "running"
        PROVE  <<k, n>> \in cut /\ (n < Cardinality(Runs(k)) \/ ReadIsLost(k, n))
    <3>1. n # handle[k]
      BY <2>2, CommandNumbers DEF IInv, CleanerInv, Returned
    <3> QED BY <2>2, <3>1 DEF IInv, ReadsInv, Superseded, Last
  <2> QED BY <2>1, <2>2 DEF CleanupIsComplete
<1> QED BY <1>1, SupervisorInvariant, PTL

(* What outlives the program, the time having run out, a later command     *)
(* having taken its place or no handle having been kept, was told to stop. *)
THEOREM LeftoversWereCancelled == Spec => []LeftoversAreCancelled
<1>1. IInv => LeftoversAreCancelled
  <2> SUFFICES ASSUME IInv, Returned PROVE LeftoversAreCancelled
    BY DEF LeftoversAreCancelled
  <2>1. closing
    BY DEF IInv, OperationInv, Returned
  <2>2. ASSUME NEW c \in Commands, command[c] = "running" PROVE c \in cut
    <3>1. PICK k \in Kinds : \E n \in Numbers(k) : c = <<k, n>>
      BY CommandNumbers
    <3>2. PICK n \in Numbers(k) : c = <<k, n>>
      BY <3>1
    <3>3. n = handle[k] \/ <<k, n>> \in cut
      BY <2>2, <3>2 DEF IInv, ReadsInv, Superseded
    <3> QED BY <2>1, <3>2, <3>3, CommandNumbers DEF IInv
  <2>3. /\ startTask = "running" => startStop /\ closing
        /\ jobTask = "waiting" => jobStop
    BY <2>1 DEF IInv, OperationInv
  <2> QED BY <2>2, <2>3 DEF LeftoversAreCancelled
<1> QED BY <1>1, SupervisorInvariant, PTL

(* The exit status tells of every cleanup error of every job that was not  *)
(* given up on, and of a program that failed.                              *)
THEOREM ExitStatusIsHonest == Spec => []ExitIsHonest
<1>1. IInv => ExitIsHonest
  <2> SUFFICES ASSUME IInv, Returned PROVE ExitIsHonest
    BY DEF ExitIsHonest
  <2>1. ~cleanupErr /\ ~StartIsLost => ~unclean
    BY EndedJobIsClean DEF IInv, OperationInv
  <2>2. (unclean => ExitStatus = 1 \/ StartIsLost) /\ (crashed => ExitStatus # 0)
    BY <2>1 DEF ExitStatus, SignalCodes
  <2> QED BY <2>2 DEF ExitIsHonest
<1> QED BY <1>1, SupervisorInvariant, PTL
=============================================================================
