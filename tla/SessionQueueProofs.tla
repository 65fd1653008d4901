------------------------- MODULE SessionQueueProofs -------------------------
(***************************************************************************)
(* The queue and the batch of a session: that they implement               *)
(* OperationQueue, that no entry is in them twice, that the counters of a  *)
(* batch add up, and that what is reported as done was done.               *)
(*                                                                         *)
(* Three invariants, each inductive together with IInv and the one before  *)
(* it: QueueInv relates the queue to the dialogs that feed it, BatchInv the*)
(* counters to the work in flight, ClaimInv the status line to the world.  *)
(***************************************************************************)
EXTENDS SessionProofs

(* The reload that ends a run; what keeps a run going.                     *)
HasReload == loading /\ loadPurpose = "afterOperation"
HasWork == startPending \/ jobPending \/ HasReload

(* Nothing waits without a run, nor behind the reload that ends it; no     *)
(* other load is under way during a run.                                   *)
QueueHasRun == ~JobRunning => queue = <<>> /\ batchTotal = 0
ReloadIsLast == loading /\ JobRunning => HasReload /\ queue = <<>>

(* A dialog that is open asks for work that neither runs nor waits, a      *)
(* batch dialog for each package once.                                     *)
DialogIsFresh ==
  mode = "confirm" /\ confirmation # NoPkg => ~PendingOperation(confirmVerb, confirmation)
BatchIsDistinct ==
  \A i, j \in DOMAIN batchConfirmation : batchConfirmation[i] = batchConfirmation[j] => i = j

QueueInv ==
  QueueHasRun /\ ReloadIsLast /\ DialogIsFresh /\ BatchIsDistinct /\ NoDuplicateWork

(* Only a run without a batch can be added to; a run that is not being     *)
(* quit still has work that will end it.                                   *)
DialogWithoutBatch == mode = "confirm" => batchTotal = 0
QuittingIsClosing == mode = "quitting" => closing
RunHasWork == JobRunning /\ ~closing => HasWork

(* The load under way is of the kind on screen, and reloads both kinds     *)
(* exactly when it ends a batch.                                           *)
LoadOfScreen ==
  \A c \in lists :
    /\ c.kind = kind
    /\ c.fleet <=> (c.purpose = "afterOperation" /\ batchTotal > 0)

(* Done, running and waiting packages of a batch are those confirmed; a    *)
(* success is recorded when the job reports and counted when it is heard.  *)
InFlight == IF startPending \/ jobPending THEN 1 ELSE 0
Unheard == IF jobPhase = "finished" /\ jobResult = "ok" THEN 1 ELSE 0
Accounted ==
  batchTotal > 0 /\ HasWork =>
    /\ batchTotal = batchCompleted + Len(queue) + InFlight
    /\ Len(succeeded) = batchCompleted + Unheard

BatchInv == DialogWithoutBatch /\ QuittingIsClosing /\ RunHasWork /\ LoadOfScreen /\ Accounted

----------------------------------------------------------------------------
(* What the job, the loads and the queue depend on.                        *)
runState == <<operation, verb, queue, startPending, jobPending, jobPhase, jobResult, jobEntry,
              loading, loadPurpose, lists, kind, succeeded>>

(* A step that leaves the run alone: it may close a dialog, drop a batch   *)
(* that was not started, or begin to quit.                                 *)
Quiet ==
  /\ UNCHANGED runState
  /\ mode' = "confirm" =>
       /\ mode = "confirm" /\ confirmation' \in {confirmation, NoPkg}
       /\ confirmVerb' = confirmVerb
  /\ batchConfirmation' \in {batchConfirmation, <<>>}
  /\ UNCHANGED batchVars \/ (~JobRunning /\ batchTotal' = 0)
  /\ closing => closing'
  /\ mode' = "quitting" => mode = "quitting" \/ closing'

Loud ==
  \/ SwitchKind \/ Refresh \/ LoadStep
  \/ ConfirmOperation("uninstall") \/ ConfirmOperation("upgrade") \/ ConfirmUpgradeAll
  \/ EnqueueConfirmed \/ StartConfirmed \/ StartBatch
  \/ JobStarted \/ JobStartFailed \/ ResultStep
  \/ StartFails \/ StartSucceeds \/ JobEnd

(* Every step is one of a few handlers that move the run, or leaves it     *)
(* alone.                                                                  *)
LEMMA StepsOfRun == ASSUME IInv, [Next]_vars PROVE Quiet \/ Loud
<1>1. CASE Browse \/ StatusKey \/ Reorder \/ EnterSearch \/ SearchKey
  <2>1. OperationUntouched /\ RestUntouched /\ UNCHANGED <<loadVars, kind>>
    BY <1>1 DEF Browse, StatusKey, Reorder, EnterSearch, SearchKey, LoadUntouched, loadVars
  <2>2. mode' = mode \/ mode' \in {"search", "normal"}
    BY <1>1 DEF Browse, StatusKey, Reorder, EnterSearch, SearchKey
  <2> QED BY <2>1, <2>2 DEF Quiet, runState, OperationUntouched, RestUntouched, runVars, batchVars,
                  holdVars, jobVars, loadVars, dialogVars, worldVars
<1>2. CASE SizesStep \/ InfoCompleted
  <2>1. OperationUntouched /\ RestUntouched /\ UNCHANGED <<loadVars, kind, mode>>
    BY <1>2 DEF SizesStep, SizesSuperseded, SizesWhileQuitting, SizesFailed, SizesMeasured,
                InfoCompleted, LoadUntouched
  <2> QED BY <2>1 DEF Quiet, runState, OperationUntouched, RestUntouched, runVars, batchVars,
                  holdVars, jobVars, loadVars, dialogVars, worldVars
<1>3. CASE DismissConfirmation
  <2>1. /\ InventoryUntouched /\ OthersUntouched /\ UNCHANGED <<confirmVerb, runVars, holdVars>>
        /\ UNCHANGED <<jobVars, worldVars>> /\ mode' = Resume /\ batchConfirmation' = <<>>
    BY <1>3 DEF DismissConfirmation, ClearBatch
  <2>2. UNCHANGED batchVars \/ (~JobRunning /\ batchTotal' = 0)
    BY <1>3 DEF DismissConfirmation, ClearBatch, IInv, Lifecycle, BatchAwaitsNoJob
  <2> QED BY <2>1, <2>2 DEF Quiet, runState, Resume, InventoryUntouched, OthersUntouched, runVars,
                  holdVars, jobVars, loadVars, worldVars
<1>4. CASE EditPassword \/ SubmitPassword \/ EscapePassword
  <2>1. /\ InventoryUntouched /\ OthersUntouched
        /\ UNCHANGED <<operation, verb, queue, holdVars, jobPhase, jobResult, jobEntry, worldVars,
                       dialogVars, batchVars>>
    BY <1>4 DEF EditPassword, SubmitPassword, EscapePassword, JobButLatch, runVars, jobVars
  <2>2. mode' = mode \/ mode' = "operation"
    BY <1>4 DEF EditPassword, SubmitPassword, EscapePassword
  <2> QED BY <2>1, <2>2 DEF Quiet, runState, InventoryUntouched, OthersUntouched, holdVars,
                  loadVars, worldVars, dialogVars
<1>5. CASE IgnoreEvent \/ RejectRequest \/ OpenPassword
  <2>1. /\ InventoryUntouched /\ OthersUntouched
        /\ UNCHANGED <<operation, verb, queue, holdVars, jobPhase, jobResult, jobEntry, worldVars,
                       batchConfirmation, batchVars>>
    BY <1>5 DEF IgnoreEvent, RejectRequest, OpenPassword, runVars, jobVars, dialogVars
  <2>2. \/ UNCHANGED <<mode, dialogVars>>
        \/ mode' \in {"operation", "password"}
    BY <1>5 DEF IgnoreEvent, RejectRequest, OpenPassword
  <2> QED BY <2>1, <2>2 DEF Quiet, runState, InventoryUntouched, OthersUntouched, holdVars,
                  loadVars, worldVars, dialogVars
<1>6. CASE RequestPassword \/ FailAuthentication \/ RequestTimesOut
  <2>1. UIUntouched /\ UNCHANGED <<jobPhase, jobResult, jobEntry, worldVars>>
    BY <1>6 DEF RequestPassword, FailAuthentication, RequestTimesOut
  <2> QED BY <2>1 DEF Quiet, runState, UIUntouched, InventoryUntouched, OthersUntouched, holdVars,
                  loadVars, worldVars, dialogVars, runVars, batchVars
<1>7. CASE TrustKey \/ TrustStep
  <2>1. OutsideUntouched
    BY <1>7 DEF TrustKey, ReviewTrust, AbandonTrust, StartTrust, TrustStep, DropStaleTrust,
                TrustWhileQuitting, DetailsArrive, TrustFails, TrustSucceeds
  <2>2. mode' = mode \/ mode' \in {"normal", "trust"}
    BY <1>7 DEF TrustKey, ReviewTrust, AbandonTrust, StartTrust, TrustStep, DropStaleTrust,
                TrustWhileQuitting, DetailsArrive, TrustFails, TrustSucceeds, CancelTrust
  <2> QED BY <2>1, <2>2 DEF Quiet, runState, OutsideUntouched, runVars, batchVars, holdVars,
                  jobVars, loadVars, dialogVars
<1>8. ASSUME NEW t \in Terms, Resize(t) PROVE Quiet
  <2>1. /\ UNCHANGED <<operation, verb, queue, holdVars, jobPhase, jobResult, jobEntry, loadVars,
                       kind, worldVars, confirmVerb, quitVars>>
        /\ confirmation' \in {confirmation, NoPkg}
    BY <1>8 DEF Resize, JobButLatch
  <2>2. mode' = mode \/ mode' \in {"normal", "operation"}
    BY <1>8 DEF Resize, ResizedMode, Resume, CancelTrust
  <2>3. CASE BatchGone(t)
    BY <1>8, <2>1, <2>2, <2>3
       DEF Resize, ClearBatch, BatchGone, Quiet, runState, holdVars, loadVars, worldVars, quitVars,
           IInv, Lifecycle, BatchAwaitsNoJob
  <2>4. CASE ~BatchGone(t)
    BY <1>8, <2>1, <2>2, <2>4
       DEF Resize, Quiet, runState, holdVars, loadVars, worldVars, quitVars
  <2> QED BY <2>3, <2>4
<1>9. ASSUME NEW code, BeginQuit(code) PROVE Quiet
  <2>1. /\ UNCHANGED <<kind, loadVars, dialogVars, runVars, batchVars, holdVars, worldVars>>
        /\ UNCHANGED <<jobPhase, jobResult, jobEntry>>
    BY <1>9 DEF BeginQuit, JobButLatch
  <2>2. \/ UNCHANGED <<mode, closing>>
        \/ mode' = "quitting" /\ closing' = TRUE
    BY <1>9 DEF BeginQuit, EnterQuit
  <2> QED BY <2>1, <2>2 DEF Quiet, runState, loadVars, dialogVars, runVars, batchVars, holdVars,
                  worldVars
<1>10. CASE UNCHANGED vars
  <2>1. /\ UNCHANGED <<mode, kind, loadVars, dialogVars, runVars, batchVars, holdVars, worldVars>>
        /\ UNCHANGED <<jobVars, quitVars>>
    BY <1>10 DEF vars, screenVars
  <2> QED BY <2>1 DEF Quiet, runState, loadVars, dialogVars, runVars, batchVars, holdVars,
                  worldVars, jobVars, quitVars
<1> QED BY <1>1, <1>2, <1>3, <1>4, <1>5, <1>6, <1>7, <1>8, <1>9, <1>10
        DEF Next, Loud, InventoryKey, OperationKey, JobMessage, JobStep, Interrupt, Terminate,
            QuitKey, Terminated

----------------------------------------------------------------------------
(* Sequences without repetition.                                           *)
Distinct(s) == \A i, j \in DOMAIN s : s[i] = s[j] => i = j

LEMMA AppendIsDistinct ==
  ASSUME NEW S, NEW s \in Seq(S), NEW e \in S, Distinct(s), \A i \in DOMAIN s : s[i] # e
  PROVE  Distinct(Append(s, e))
<1>1. DOMAIN s = 1..Len(s) /\ Len(s) \in Nat
  BY LenProperties
<1>2. /\ DOMAIN Append(s, e) = 1..(Len(s) + 1)
      /\ \A i \in 1..Len(s) : Append(s, e)[i] = s[i]
      /\ Append(s, e)[Len(s) + 1] = e
  OBVIOUS
<1>3. ASSUME NEW i \in 1..(Len(s) + 1), NEW j \in 1..(Len(s) + 1),
             Append(s, e)[i] = Append(s, e)[j]
      PROVE  i = j
  <2>1. CASE i \in 1..Len(s) /\ j \in 1..Len(s)
    BY <1>1, <1>2, <1>3, <2>1 DEF Distinct
  <2>2. CASE i \in 1..Len(s) /\ j = Len(s) + 1
    BY <1>1, <1>2, <1>3, <2>2
  <2>3. CASE i = Len(s) + 1 /\ j \in 1..Len(s)
    BY <1>1, <1>2, <1>3, <2>3
  <2> QED BY <1>1, <2>1, <2>2, <2>3
<1> QED BY <1>2, <1>3 DEF Distinct

LEMMA TailIsDistinct ==
  ASSUME NEW S, NEW s \in Seq(S), s # <<>>, Distinct(s)
  PROVE  Distinct(Tail(s)) /\ \A i \in DOMAIN Tail(s) : Tail(s)[i] # Head(s)
<1>1. DOMAIN s = 1..Len(s) /\ Len(s) \in Nat \ {0} /\ Head(s) = s[1]
  BY LenProperties, EmptySeq
<1>2. /\ DOMAIN Tail(s) = 1..(Len(s) - 1)
      /\ \A i \in 1..(Len(s) - 1) : Tail(s)[i] = s[i + 1]
  BY HeadTailProperties, LenProperties
<1>3. \A i \in 1..(Len(s) - 1) : i + 1 \in 1..Len(s) /\ i + 1 # 1
  BY <1>1
<1> QED BY <1>1, <1>2, <1>3 DEF Distinct

----------------------------------------------------------------------------
(* The queue and the dialogs that feed it.                                 *)
LEMMA QueueFrame ==
  ASSUME QueueInv, UNCHANGED <<operation, verb, queue>>,
         loading' /\ JobRunning => loading /\ UNCHANGED loadPurpose,
         ~JobRunning => batchTotal' \in {batchTotal, 0},
         batchConfirmation' \in {batchConfirmation, <<>>},
         mode' = "confirm" =>
           /\ mode = "confirm" /\ confirmation' \in {confirmation, NoPkg}
           /\ confirmVerb' = confirmVerb
  PROVE  QueueInv'
<1>1. QueueHasRun' /\ ReloadIsLast'
  BY DEF QueueInv, QueueHasRun, ReloadIsLast, HasReload, JobRunning
<1>2. DialogIsFresh'
  BY DEF QueueInv, DialogIsFresh, PendingOperation, JobRunning
<1>3. BatchIsDistinct'
  BY DEF QueueInv, BatchIsDistinct
<1>4. NoDuplicateWork'
  BY DEF QueueInv, NoDuplicateWork, Queue!NoDuplicates, JobRunning
<1> QED BY <1>1, <1>2, <1>3, <1>4 DEF QueueInv

(* A run that ends leaves nothing behind.                                  *)
LEMMA RunEndsQueue ==
  ASSUME QueueInv, operation' = NoPkg, queue' = <<>>, batchTotal' = 0, mode' # "confirm",
         batchConfirmation' \in {batchConfirmation, <<>>}
  PROVE  QueueInv'
<1>1. QueueHasRun' /\ ReloadIsLast' /\ DialogIsFresh'
  BY DEF QueueHasRun, ReloadIsLast, DialogIsFresh, JobRunning
<1>2. BatchIsDistinct'
  BY DEF QueueInv, BatchIsDistinct
<1>3. NoDuplicateWork'
  BY DEF NoDuplicateWork, Queue!NoDuplicates
<1> QED BY <1>1, <1>2, <1>3 DEF QueueInv

(* An entry becomes the running operation; what waits behind it repeats    *)
(* neither it nor itself.                                                  *)
LEMMA RunStartsQueue ==
  ASSUME ~loading', mode' = "operation", batchConfirmation' \in {batchConfirmation, <<>>},
         QueueInv, NEW entry \in Entry, operation' = entry.pkg, verb' = entry.verb,
         Distinct(queue'), \A i \in DOMAIN queue' : queue'[i] # entry
  PROVE  QueueInv'
<1>1. operation' # NoPkg /\ entry = [verb |-> verb', pkg |-> operation']
  BY PkgsAssumption DEF Entry, PkgsAssumption
<1>2. QueueHasRun' /\ ReloadIsLast' /\ DialogIsFresh'
  BY <1>1 DEF QueueHasRun, ReloadIsLast, DialogIsFresh, JobRunning
<1>3. BatchIsDistinct'
  BY DEF QueueInv, BatchIsDistinct
<1>4. NoDuplicateWork'
  BY <1>1 DEF NoDuplicateWork, Queue!NoDuplicates, Distinct, JobRunning
<1> QED BY <1>2, <1>3, <1>4 DEF QueueInv

LEMMA LoadsKeepQueue ==
  ASSUME IInv, QueueInv, LoadOfScreen, SwitchKind \/ Refresh \/ LoadStep PROVE QueueInv'
<1>1. CASE SwitchKind \/ Refresh
  <2>1. /\ ~JobRunning /\ OperationUntouched /\ RestUntouched
        /\ mode' \in {"normal", "operation"}
    BY <1>1 DEF SwitchKind, Refresh, NormalKey, KeyboardOpen
  <2> QED BY <2>1, QueueFrame DEF OperationUntouched, RestUntouched, runVars, batchVars, dialogVars
<1>2. CASE LoadStep
  <2> PICK c \in lists :
        LoadWhileQuitting(c) \/ LoadCancelled(c) \/ LoadFailed(c) \/ LoadSucceeded(c)
    BY <1>2 DEF LoadStep
  <2>1. ~loading' /\ verb' = verb /\ c.purpose = loadPurpose /\ loading
    BY DEF LoadWhileQuitting, LoadCancelled, LoadFailed, LoadSucceeded, TakeLoad, JobUntouched,
           IInv, Lifecycle, LoadIsAlone
  <2>2. CASE LoadWhileQuitting(c)
    BY <2>1, <2>2, QueueFrame DEF LoadWhileQuitting, RestUntouched, batchVars, dialogVars
  <2>3. CASE LoadCancelled(c) \/ (LoadFailed(c) /\ c.purpose = "afterOperation")
    <3>1. FinishOperation
      BY <2>3 DEF LoadCancelled, LoadFailed
    <3> QED BY <3>1, RunEndsQueue DEF FinishOperation, DropQueue, ClearBatch
  <2>4. CASE LoadFailed(c) /\ c.purpose # "afterOperation"
    BY <2>1, <2>4, QueueFrame DEF LoadFailed, batchVars
  <2>5. CASE LoadSucceeded(c) /\ c.purpose # "afterOperation"
    BY <2>1, <2>5, QueueFrame DEF LoadSucceeded, ClearBatch, batchVars
  <2>6. CASE LoadSucceeded(c) /\ c.purpose = "afterOperation"
    <3>1. queue = <<>> /\ operation' = NoPkg /\ mode' = "normal" /\ queue' = queue
      BY <2>1, <2>6 DEF LoadSucceeded, IInv, Lifecycle, LoadIsAlone, QueueInv, ReloadIsLast
    <3>2. batchTotal' = 0 /\ batchConfirmation' \in {batchConfirmation, <<>>}
      <4>1. CASE c.fleet
        BY <2>6, <4>1 DEF LoadSucceeded, ClearBatch
      <4>2. CASE ~c.fleet
        <5>1. batchTotal = 0
          BY <2>6, <4>2 DEF LoadOfScreen, IInv, TypeOK, RunType
        <5> QED BY <2>6, <4>2, <5>1 DEF LoadSucceeded, batchVars
      <4> QED BY <4>1, <4>2
    <3> QED BY <3>1, <3>2, RunEndsQueue
  <2> QED BY <2>2, <2>3, <2>4, <2>5, <2>6
<1> QED BY <1>1, <1>2

LEMMA DialogsKeepQueue ==
  ASSUME IInv, QueueInv,
         \/ ConfirmOperation("uninstall") \/ ConfirmOperation("upgrade")
         \/ ConfirmUpgradeAll \/ EnqueueConfirmed
  PROVE  QueueInv'
<1>1. ASSUME NEW op, ConfirmOperation(op) PROVE QueueInv'
  <2>1. PICK r \in rows :
          \/ UNCHANGED <<mode, dialogVars>>
          \/ /\ ~PendingOperation(op, r.name) /\ mode' = "confirm"
             /\ confirmation' = r.name /\ confirmVerb' = op /\ batchConfirmation' = <<>>
    BY <1>1 DEF ConfirmOperation
  <2>2. /\ UNCHANGED <<operation, verb, queue, loading, loadPurpose, batchTotal>>
    BY <1>1 DEF ConfirmOperation, InventoryUntouched, runVars, loadVars, batchVars
  <2>3. CASE UNCHANGED <<mode, dialogVars>>
    BY <2>2, <2>3, QueueFrame DEF dialogVars
  <2>4. CASE /\ ~PendingOperation(op, r.name) /\ mode' = "confirm"
             /\ confirmation' = r.name /\ confirmVerb' = op /\ batchConfirmation' = <<>>
    <3>1. QueueHasRun' /\ ReloadIsLast' /\ NoDuplicateWork'
      BY <2>2 DEF QueueInv, QueueHasRun, ReloadIsLast, HasReload, NoDuplicateWork,
                  Queue!NoDuplicates, JobRunning
    <3>2. DialogIsFresh' /\ BatchIsDistinct'
      BY <2>2, <2>4 DEF DialogIsFresh, PendingOperation, BatchIsDistinct, JobRunning
    <3> QED BY <3>1, <3>2 DEF QueueInv
  <2> QED BY <2>1, <2>3, <2>4
<1>2. CASE ConfirmUpgradeAll
  <2>1. /\ UNCHANGED <<operation, verb, queue, loading, loadPurpose>> /\ ~JobRunning
        /\ batchTotal' \in {batchTotal, 0}
    BY <1>2 DEF ConfirmUpgradeAll, InventoryUntouched, runVars, loadVars, batchVars, ClearBatch
  <2>2. \/ UNCHANGED <<mode, dialogVars>>
        \/ UNCHANGED mode /\ confirmation' = NoPkg /\ batchConfirmation' = <<>>
        \/ confirmation' = NoPkg /\ \E S : batchConfirmation' \in Enumerations(S)
    BY <1>2 DEF ConfirmUpgradeAll, ClearBatch
  <2>3. QueueHasRun' /\ ReloadIsLast' /\ NoDuplicateWork'
    BY <2>1 DEF QueueInv, QueueHasRun, ReloadIsLast, HasReload, NoDuplicateWork,
                Queue!NoDuplicates, JobRunning
  <2>4. DialogIsFresh'
    BY <2>1, <2>2 DEF QueueInv, DialogIsFresh, PendingOperation, JobRunning, dialogVars
  <2>5. BatchIsDistinct'
    <3>1. CASE batchConfirmation' \in {batchConfirmation, <<>>}
      BY <3>1 DEF QueueInv, BatchIsDistinct
    <3>2. ASSUME NEW S, batchConfirmation' \in Enumerations(S) PROVE BatchIsDistinct'
      BY <3>2, Zenon DEF BatchIsDistinct, Enumerations
    <3> QED BY <2>2, <3>1, <3>2 DEF dialogVars
  <2> QED BY <2>3, <2>4, <2>5 DEF QueueInv
<1>3. CASE EnqueueConfirmed
  <2>1. /\ queue' = Append(queue, Confirmed) /\ JobRunning /\ ~loading
        /\ UNCHANGED <<operation, verb, loading, batchConfirmation>> /\ mode' = "operation"
    BY <1>3 DEF EnqueueConfirmed, Enqueue, KeyboardOpen, InventoryUntouched, loadVars
  <2>2. Confirmed \in Entry /\ queue \in Seq(Entry)
    BY <1>3 DEF EnqueueConfirmed, Confirmed, Entry, IInv, TypeOK, DialogType, RunType, OptPkg
  <2>3. /\ \A i \in DOMAIN queue : queue[i] # Confirmed
        /\ Confirmed # [verb |-> verb, pkg |-> operation]
    BY <1>3 DEF EnqueueConfirmed, QueueInv, DialogIsFresh, PendingOperation, Confirmed
  <2>4. Distinct(queue')
    BY <2>1, <2>2, <2>3, AppendIsDistinct
       DEF QueueInv, NoDuplicateWork, Queue!NoDuplicates, Distinct
  <2>5. \A i \in DOMAIN queue' : queue'[i] # [verb |-> verb, pkg |-> operation]
    <3>1. \A i \in DOMAIN queue : queue[i] # [verb |-> verb, pkg |-> operation]
      BY <2>1 DEF QueueInv, NoDuplicateWork, Queue!NoDuplicates
    <3>2. DOMAIN queue = 1..Len(queue) /\ Len(queue) \in Nat
      BY <2>2, LenProperties
    <3>3. /\ DOMAIN queue' = 1..(Len(queue) + 1)
          /\ \A i \in 1..Len(queue) : queue'[i] = queue[i]
          /\ queue'[Len(queue) + 1] = Confirmed
      BY <2>1, <2>2
    <3>4. \A i \in 1..(Len(queue) + 1) : i \in 1..Len(queue) \/ i = Len(queue) + 1
      BY <3>2
    <3> QED BY <2>3, <3>1, <3>2, <3>3, <3>4
  <2>6. [verb |-> verb, pkg |-> operation] \in Entry
    BY <2>1 DEF IInv, TypeOK, RunType, JobRunning, OptPkg, Entry
  <2> QED BY <2>1, <2>4, <2>5, <2>6, RunStartsQueue
<1> QED BY <1>1, <1>2, <1>3

(* The entries that wait behind the first package of a batch.              *)
LEMMA BatchBecomesQueue ==
  ASSUME IInv, BatchIsDistinct, StartBatch
  PROVE  /\ [verb |-> "upgrade", pkg |-> batchConfirmation[1]] \in Entry
         /\ Len(batchConfirmation) \in Nat \ {0}
         /\ queue' \in Seq(Entry) /\ Len(queue') = Len(batchConfirmation) - 1
         /\ Distinct(queue')
         /\ \A i \in DOMAIN queue' :
              queue'[i] # [verb |-> "upgrade", pkg |-> batchConfirmation[1]]
<1> DEFINE n == Len(batchConfirmation)
           E(i) == [verb |-> "upgrade", pkg |-> batchConfirmation[i]]
<1>1. /\ batchConfirmation # <<>> /\ batchConfirmation \in Seq(Pkgs)
      /\ queue' = [i \in 1..(n - 1) |-> E(i + 1)]
  BY DEF StartBatch, UpgradeAllFits, IInv, TypeOK, DialogType
<1>2. n \in Nat \ {0} /\ DOMAIN batchConfirmation = 1..n
  BY <1>1, EmptySeq, LenProperties
<1>3. \A i \in 1..n : batchConfirmation[i] \in Pkgs
  BY <1>1, ElementOfSeq
<1>4. \A i \in 1..n : E(i) \in Entry
  BY <1>3 DEF Entry, Verbs
<1>5. \A i \in 1..(n - 1) : i + 1 \in 1..n /\ i + 1 # 1
  BY <1>2
<1>6. queue' \in [1..(n - 1) -> Entry]
  BY <1>1, <1>4, <1>5
<1>7. queue' \in Seq(Entry) /\ Len(queue') = n - 1 /\ DOMAIN queue' = 1..(n - 1)
  <2>1. n - 1 \in Nat
    BY <1>2
  <2>2. queue' \in Seq(Entry)
    BY <1>6, <2>1, SeqDef
  <2>3. DOMAIN queue' = 1..(n - 1)
    BY <1>6
  <2>4. DOMAIN queue' = 1..Len(queue') /\ Len(queue') \in Nat
    BY <2>2, LenProperties
  <2> QED BY <2>1, <2>2, <2>3, <2>4
<1>8. \A i, j \in 1..n : E(i) = E(j) => i = j
  BY <1>2 DEF BatchIsDistinct
<1>9. \A i \in 1..(n - 1) : queue'[i] = E(i + 1)
  BY <1>1
<1>10. ASSUME NEW i \in 1..(n - 1), NEW j \in 1..(n - 1), queue'[i] = queue'[j] PROVE i = j
  <2>1. E(i + 1) = E(j + 1)
    BY <1>9, <1>10
  <2> HIDE DEF E
  <2>2. i + 1 = j + 1
    BY <1>5, <1>8, <2>1
  <2> QED BY <1>2, <2>2
<1>11. ASSUME NEW i \in 1..(n - 1) PROVE queue'[i] # E(1)
  <2>1. 1 \in 1..n /\ i + 1 \in 1..n /\ i + 1 # 1
    BY <1>2, <1>5
  <2>2. queue'[i] = E(i + 1)
    BY <1>9
  <2> HIDE DEF E
  <2> QED BY <1>8, <2>1, <2>2
<1>12. E(1) \in Entry
  BY <1>2, <1>4
<1> QED BY <1>2, <1>7, <1>10, <1>11, <1>12 DEF Distinct

LEMMA StartsKeepQueue ==
  ASSUME IInv, QueueInv, StartConfirmed \/ StartBatch \/ ResultStartsNext PROVE QueueInv'
<1>1. CASE StartConfirmed
  <2>1. /\ queue' = <<>> /\ ~loading' /\ StartUninstall(Confirmed)
        /\ batchConfirmation' = batchConfirmation
    BY <1>1 DEF StartConfirmed, KeyboardOpen, InventoryUntouched, loadVars, QueueInv, QueueHasRun
  <2>2. Confirmed \in Entry
    BY <1>1 DEF StartConfirmed, Confirmed, Entry, IInv, TypeOK, DialogType, OptPkg
  <2> QED BY <2>1, <2>2, RunStartsQueue DEF StartUninstall, Distinct
<1>2. CASE StartBatch
  <2>1. /\ ~loading' /\ batchConfirmation' = <<>>
        /\ StartUninstall([verb |-> "upgrade", pkg |-> batchConfirmation[1]])
    BY <1>2 DEF StartBatch, KeyboardOpen, InventoryUntouched, loadVars
  <2> QED BY <1>2, <2>1, BatchBecomesQueue, RunStartsQueue DEF StartUninstall, QueueInv
<1>3. CASE ResultStartsNext
  <2>1. /\ queue # <<>> /\ queue' = Tail(queue) /\ StartUninstall(Head(queue))
        /\ UNCHANGED <<batchConfirmation, loading>> /\ jobPending
    BY <1>3 DEF ResultStartsNext, TakeSuccess, TakeResult, InventoryUntouched, loadVars, dialogVars
  <2>2. queue \in Seq(Entry) /\ ~loading
    BY <2>1 DEF IInv, TypeOK, RunType, Lifecycle, LoadIsAlone
  <2>3. Head(queue) \in Entry
    BY <2>1, <2>2, HeadTailProperties
  <2>4. Distinct(Tail(queue)) /\ \A i \in DOMAIN Tail(queue) : Tail(queue)[i] # Head(queue)
    BY <2>1, <2>2, TailIsDistinct
       DEF QueueInv, NoDuplicateWork, Queue!NoDuplicates, Distinct
  <2> QED BY <2>1, <2>2, <2>3, <2>4, RunStartsQueue DEF StartUninstall
<1> QED BY <1>1, <1>2, <1>3

LEMMA JobKeepsQueue ==
  ASSUME IInv, QueueInv,
         \/ JobStarted \/ JobStartFailed \/ (ResultStep /\ ~ResultStartsNext)
         \/ StartFails \/ StartSucceeds \/ JobEnd
  PROVE  QueueInv'
<1>1. CASE JobStarted \/ StartFails \/ StartSucceeds \/ JobEnd
  <2>1. UNCHANGED <<mode, dialogVars, runVars, batchVars, loadVars>>
    BY <1>1 DEF JobStarted, StartFails, StartSucceeds, JobEnd, JobFinishes, UIUntouched,
                InventoryUntouched
  <2> QED BY <2>1, QueueFrame DEF dialogVars, runVars, batchVars, loadVars
<1>2. CASE JobStartFailed
  <2>1. CASE mode = "quitting"
    BY <1>2, <2>1, QueueFrame DEF JobStartFailed, InventoryUntouched, batchVars, loadVars
  <2>2. CASE mode # "quitting"
    BY <1>2, <2>2, RunEndsQueue DEF JobStartFailed, DropQueue, ClearBatch
  <2> QED BY <2>1, <2>2
<1>3. CASE ResultWhileQuitting
  BY <1>3, QueueFrame DEF ResultWhileQuitting, InventoryUntouched, dialogVars, runVars, batchVars,
                          loadVars
<1>4. CASE ResultFailed \/ ResultQueueUnsafe
  BY <1>4, RunEndsQueue
     DEF ResultFailed, ResultQueueUnsafe, FinishOperation, DropQueue, ClearBatch
<1>5. ASSUME TakeResult PROVE JobRunning /\ ~loading /\ jobPending
  BY <1>5 DEF TakeResult, IInv, Lifecycle, LoadIsAlone, JobHasOperation
<1>6. CASE ResultCleanupFailed
  <2>1. /\ UNCHANGED <<operation, verb, loading>> /\ mode' = "quitting" /\ queue' = <<>>
        /\ batchConfirmation' = <<>> /\ JobRunning /\ ~loading
    BY <1>5, <1>6 DEF ResultCleanupFailed, EnterQuit, DropQueue, ClearBatch, InventoryUntouched,
                      loadVars
  <2>2. QueueHasRun' /\ ReloadIsLast' /\ DialogIsFresh' /\ BatchIsDistinct'
    BY <2>1 DEF QueueHasRun, ReloadIsLast, DialogIsFresh, BatchIsDistinct, JobRunning
  <2>3. NoDuplicateWork'
    BY <2>1 DEF NoDuplicateWork, Queue!NoDuplicates
  <2> QED BY <2>2, <2>3 DEF QueueInv
<1>7. CASE ResultSelfUninstalled
  BY <1>5, <1>7, QueueFrame
     DEF ResultSelfUninstalled, TakeSuccess, EnterQuit, InventoryUntouched, dialogVars, runVars,
         loadVars
<1>8. CASE ResultReloads
  <2>1. /\ UNCHANGED <<operation, verb, queue, batchConfirmation>> /\ mode' = "operation"
        /\ queue = <<>> /\ loadPurpose' = "afterOperation" /\ JobRunning
    BY <1>5, <1>8 DEF ResultReloads, TakeSuccess, StartLoad, dialogVars, runVars
  <2>2. QueueHasRun' /\ ReloadIsLast' /\ DialogIsFresh'
    BY <2>1 DEF QueueHasRun, ReloadIsLast, HasReload, DialogIsFresh, JobRunning
  <2>3. BatchIsDistinct' /\ NoDuplicateWork'
    BY <2>1 DEF QueueInv, BatchIsDistinct, NoDuplicateWork, Queue!NoDuplicates
  <2> QED BY <2>2, <2>3 DEF QueueInv
<1> QED BY <1>1, <1>2, <1>3, <1>4, <1>6, <1>7, <1>8 DEF ResultStep

LEMMA NextKeepsQueue ==
  ASSUME IInv, QueueInv, LoadOfScreen, [Next]_vars PROVE QueueInv'
<1>1. CASE Quiet
  BY <1>1, QueueFrame DEF Quiet, runState, batchVars
<1> QED BY <1>1, StepsOfRun, LoadsKeepQueue, DialogsKeepQueue, StartsKeepQueue, JobKeepsQueue
        DEF Loud

----------------------------------------------------------------------------
(* The counters of a batch and the work in flight.                         *)
LEMMA QuietKeepsBatch == ASSUME IInv, QueueInv, BatchInv, Quiet PROVE BatchInv'
<1>1. batchTotal' = batchTotal
  BY DEF Quiet, QueueInv, QueueHasRun, batchVars
<1>2. batchTotal > 0 => batchCompleted' = batchCompleted
  BY DEF Quiet, QueueInv, QueueHasRun, batchVars, IInv, TypeOK, RunType
<1>3. DialogWithoutBatch' /\ QuittingIsClosing' /\ RunHasWork'
  BY <1>1 DEF Quiet, runState, BatchInv, DialogWithoutBatch, QuittingIsClosing, RunHasWork,
              JobRunning, HasWork, HasReload
<1>4. LoadOfScreen'
  BY <1>1 DEF Quiet, runState, BatchInv, LoadOfScreen
<1>5. Accounted'
  BY <1>1, <1>2 DEF Quiet, runState, BatchInv, Accounted, HasWork, HasReload, InFlight, Unheard
<1> QED BY <1>3, <1>4, <1>5 DEF BatchInv

(* Without a batch there is nothing to count, and no dialog to keep shut.  *)
LEMMA NoBatchToCount ==
  ASSUME batchTotal' = 0, closing' = closing, BatchInv,
         mode' = "quitting" => mode = "quitting",
         JobRunning' => HasWork' \/ (JobRunning /\ (HasWork => HasWork')) \/ closing,
         \A c \in lists' : c.kind = kind' /\ ~c.fleet
  PROVE  BatchInv'
<1>1. DialogWithoutBatch' /\ QuittingIsClosing' /\ RunHasWork'
  BY DEF BatchInv, DialogWithoutBatch, QuittingIsClosing, RunHasWork
<1>2. LoadOfScreen' /\ Accounted'
  BY DEF LoadOfScreen, Accounted
<1> QED BY <1>1, <1>2 DEF BatchInv

LEMMA NoLoadNoLists == ASSUME IInv, ~loading PROVE lists = {}
BY DEF IInv, Lifecycle, LoadIsAlone

LEMMA LoadsKeepBatch ==
  ASSUME IInv, QueueInv, BatchInv, SwitchKind \/ Refresh \/ LoadStep PROVE BatchInv'
<1>1. CASE SwitchKind
  <2>1. /\ ~JobRunning /\ OperationUntouched /\ RestUntouched /\ lists = {}
        /\ mode' = "normal"
        /\ lists' \in {lists, lists \cup {[kind |-> kind', purpose |-> "switch", fleet |-> FALSE]}}
    BY <1>1, NoLoadNoLists DEF SwitchKind, KeyboardOpen, StartLoad, loadVars
  <2>2. batchTotal' = 0 /\ closing' = closing /\ ~JobRunning'
    BY <2>1 DEF QueueInv, QueueHasRun, OperationUntouched, RestUntouched, runVars, batchVars,
                JobRunning
  <2> QED BY <2>1, <2>2, NoBatchToCount
<1>2. CASE Refresh
  <2>1. /\ ~JobRunning /\ OperationUntouched /\ RestUntouched /\ lists = {}
        /\ mode' = mode /\ kind' = kind
        /\ lists' = lists \cup {[kind |-> kind, purpose |-> "refresh", fleet |-> FALSE]}
    BY <1>2, NoLoadNoLists DEF Refresh, NormalKey, KeyboardOpen, StartLoad
  <2>2. batchTotal' = 0 /\ closing' = closing /\ ~JobRunning'
    BY <2>1 DEF QueueInv, QueueHasRun, OperationUntouched, RestUntouched, runVars, batchVars,
                JobRunning
  <2> QED BY <2>1, <2>2, NoBatchToCount
<1>3. CASE LoadStep
  <2> PICK c \in lists :
        LoadWhileQuitting(c) \/ LoadCancelled(c) \/ LoadFailed(c) \/ LoadSucceeded(c)
    BY <1>3 DEF LoadStep
  <2>1. /\ loading /\ c.purpose = loadPurpose /\ ~loading' /\ lists' = {} /\ closing' = closing
        /\ UNCHANGED <<startPending, jobPending>> /\ ~startPending /\ ~jobPending
    BY DEF LoadWhileQuitting, LoadCancelled, LoadFailed, LoadSucceeded, TakeLoad, JobUntouched,
           holdVars, RestUntouched, IInv, Lifecycle, LoadIsAlone
  <2>2. LoadOfScreen' /\ Accounted'
    BY <2>1 DEF LoadOfScreen, Accounted, HasWork, HasReload
  <2>3. DialogWithoutBatch'
    <3>1. /\ mode' = "confirm" => mode = "confirm"
          /\ batchTotal' \in {batchTotal, 0}
      BY DEF LoadWhileQuitting, LoadCancelled, LoadFailed, LoadSucceeded, FinishOperation,
             ClearBatch, batchVars
    <3> QED BY <3>1 DEF BatchInv, DialogWithoutBatch
  <2>4. QuittingIsClosing'
    <3>1. mode' = "quitting" => mode = "quitting"
      BY DEF LoadWhileQuitting, LoadCancelled, LoadFailed, LoadSucceeded, FinishOperation
    <3> QED BY <2>1, <3>1 DEF BatchInv, QuittingIsClosing
  <2>5. RunHasWork'
    <3>1. mode = "quitting" \/ ~JobRunning'
      <4>1. CASE c.purpose = "afterOperation"
        BY <4>1 DEF LoadWhileQuitting, LoadCancelled, LoadFailed, LoadSucceeded, FinishOperation,
                    JobRunning
      <4>2. CASE c.purpose # "afterOperation"
        <5>1. ~JobRunning
          BY <2>1, <4>2 DEF QueueInv, ReloadIsLast, HasReload
        <5> QED BY <4>2, <5>1 DEF LoadWhileQuitting, LoadCancelled, LoadFailed, LoadSucceeded,
                                  ReloadCancelled, JobRunning
      <4> QED BY <4>1, <4>2
    <3> QED BY <2>1, <3>1 DEF BatchInv, QuittingIsClosing, RunHasWork
  <2> QED BY <2>2, <2>3, <2>4, <2>5 DEF BatchInv
<1> QED BY <1>1, <1>2, <1>3

LEMMA DialogsKeepBatch ==
  ASSUME IInv, QueueInv, BatchInv,
         \/ ConfirmOperation("uninstall") \/ ConfirmOperation("upgrade")
         \/ ConfirmUpgradeAll \/ EnqueueConfirmed
  PROVE  BatchInv'
<1>1. /\ InventoryUntouched /\ OthersUntouched /\ lists = {}
      /\ UNCHANGED <<operation, holdVars>> /\ mode' # "quitting"
  BY NoLoadNoLists DEF ConfirmOperation, ConfirmUpgradeAll, EnqueueConfirmed, NormalKey,
                       KeyboardOpen, runVars
<1>2. batchTotal' = 0
  <2>1. CASE ConfirmOperation("uninstall") \/ ConfirmOperation("upgrade")
    BY <2>1 DEF ConfirmOperation, batchVars
  <2>2. CASE ConfirmUpgradeAll
    BY <2>2 DEF ConfirmUpgradeAll, ClearBatch, batchVars, QueueInv, QueueHasRun
  <2>3. CASE EnqueueConfirmed
    BY <2>3 DEF EnqueueConfirmed, batchVars, BatchInv, DialogWithoutBatch
  <2> QED BY <2>1, <2>2, <2>3
<1>3. UNCHANGED <<loading, loadPurpose, startPending, jobPending, closing>> /\ lists' = {}
  BY <1>1 DEF InventoryUntouched, OthersUntouched, loadVars, holdVars
<1> QED BY <1>1, <1>2, <1>3, NoBatchToCount DEF JobRunning, HasWork, HasReload

LEMMA StartsKeepBatch ==
  ASSUME IInv, QueueInv, BatchInv, StartConfirmed \/ StartBatch \/ ResultStartsNext
  PROVE  BatchInv'
<1>1. /\ startPending' = TRUE /\ mode' = "operation" /\ closing' = closing /\ kind' = kind
      /\ jobPhase' = "starting" /\ lists' = lists
  BY DEF StartConfirmed, StartBatch, ResultStartsNext, StartUninstall, InventoryUntouched,
         OthersUntouched, loadVars
<1>2. lists = {}
  BY NoLoadNoLists DEF StartConfirmed, StartBatch, ResultStartsNext, KeyboardOpen, TakeSuccess,
                       TakeResult, IInv, Lifecycle, LoadIsAlone
<1>3. DialogWithoutBatch' /\ QuittingIsClosing' /\ RunHasWork' /\ LoadOfScreen'
  BY <1>1, <1>2 DEF DialogWithoutBatch, QuittingIsClosing, RunHasWork, HasWork, LoadOfScreen
<1>4. InFlight' = 1 /\ Unheard' = 0
  BY <1>1 DEF InFlight, Unheard
<1>5. Accounted'
  <2>1. CASE StartConfirmed
    <3>1. batchTotal' = 0
      BY <2>1 DEF StartConfirmed, QueueInv, QueueHasRun, batchVars
    <3> QED BY <3>1 DEF Accounted
  <2>2. CASE StartBatch
    <3>1. /\ batchTotal' = Len(batchConfirmation) /\ batchCompleted' = 0 /\ succeeded' = <<>>
      BY <2>2 DEF StartBatch
    <3>2. Len(batchConfirmation) \in Nat /\ Len(queue') = Len(batchConfirmation) - 1
      BY <2>2, BatchBecomesQueue DEF QueueInv
    <3> QED BY <1>4, <3>1, <3>2 DEF Accounted
  <2>3. CASE ResultStartsNext
    <3>1. /\ jobPending /\ jobPhase = "finished" /\ jobResult = "ok" /\ queue # <<>>
          /\ queue' = Tail(queue) /\ CountSuccess /\ succeeded' = succeeded
      BY <2>3 DEF ResultStartsNext, TakeSuccess, TakeResult, worldVars
    <3>2. /\ batchTotal \in Nat /\ batchCompleted \in Nat
          /\ Len(queue) \in Nat /\ Len(queue') = Len(queue) - 1
      BY <3>1, HeadTailProperties, LenProperties DEF IInv, TypeOK, RunType
    <3>3. InFlight = 1 /\ Unheard = 1 /\ HasWork
      BY <3>1 DEF InFlight, Unheard, HasWork
    <3>4. CASE batchTotal > 0
      <4>1. /\ batchTotal = batchCompleted + Len(queue) + 1
            /\ Len(succeeded) = batchCompleted + 1
        BY <3>3, <3>4 DEF BatchInv, Accounted
      <4>2. batchTotal' = batchTotal /\ batchCompleted' = batchCompleted + 1
        BY <3>1, <3>4 DEF CountSuccess
      <4>3. /\ batchTotal' = batchCompleted' + Len(queue') + 1
            /\ Len(succeeded') = batchCompleted' + 0
        BY <3>1, <3>2, <4>1, <4>2
      <4> QED BY <1>4, <4>3 DEF Accounted
    <3>5. CASE ~(batchTotal > 0)
      BY <3>1, <3>5 DEF CountSuccess, Accounted
    <3> QED BY <3>4, <3>5
  <2> QED BY <2>1, <2>2, <2>3
<1> QED BY <1>3, <1>5 DEF BatchInv

(* What brew was started with was confirmed.                               *)
LEMMA JobEntryIsEntry == ASSUME IInv, jobPhase \in {"live", "finished"} PROVE jobEntry \in Entry
<1>1. jobEntry = [verb |-> verb, pkg |-> operation] /\ operation # NoPkg
  BY DEF IInv, Lifecycle, HandlesFollowJob, JobHasOperation, JobIsTheOperation, JobRunning
<1> QED BY <1>1 DEF IInv, TypeOK, RunType, OptPkg, Entry

(* The job's own steps and the messages that hand it over.                 *)
LEMMA JobKeepsBatch ==
  ASSUME IInv, QueueInv, BatchInv,
         JobStarted \/ JobStartFailed \/ StartFails \/ StartSucceeds \/ JobEnd
  PROVE  BatchInv'
<1>1. CASE JobStartFailed
  <2>1. /\ closing' = closing /\ startPending' = FALSE /\ startMsg = "failed"
        /\ UNCHANGED <<kind, lists, jobPending, loading>>
    BY <1>1 DEF JobStartFailed, InventoryUntouched, OthersUntouched, loadVars
  <2>2. lists = {} /\ ~loading /\ ~jobPending
    BY <2>1 DEF IInv, Lifecycle, HandlesFollowJob, LoadIsAlone
  <2>3. ~HasWork'
    BY <2>1, <2>2 DEF HasWork, HasReload
  <2>4. Accounted' /\ LoadOfScreen'
    BY <2>1, <2>2, <2>3 DEF Accounted, LoadOfScreen
  <2>5. \/ mode = "quitting" /\ mode' = "quitting"
        \/ mode' = "normal" /\ operation' = NoPkg
    BY <1>1 DEF JobStartFailed
  <2>6. DialogWithoutBatch' /\ QuittingIsClosing' /\ RunHasWork'
    BY <2>1, <2>5 DEF BatchInv, DialogWithoutBatch, QuittingIsClosing, RunHasWork, JobRunning
  <2> QED BY <2>4, <2>6 DEF BatchInv
<1>2. CASE JobStarted \/ StartFails \/ StartSucceeds \/ JobEnd
  <2>1. UNCHANGED <<mode, closing, kind, operation, queue, batchTotal, batchCompleted,
                    loading, loadPurpose, lists>>
    BY <1>2 DEF JobStarted, StartFails, StartSucceeds, JobEnd, JobFinishes, UIUntouched,
                InventoryUntouched, OthersUntouched, runVars, batchVars, loadVars
  <2>2. (startPending \/ jobPending) = (startPending' \/ jobPending')
    <3>1. CASE JobStarted
      BY <3>1 DEF JobStarted, IInv, Lifecycle, HandlesFollowJob
    <3>2. CASE StartFails \/ StartSucceeds \/ JobEnd
      BY <3>2 DEF StartFails, StartSucceeds, JobEnd, JobFinishes, UIUntouched, holdVars
    <3> QED BY <1>2, <3>1, <3>2
  <2>3. DialogWithoutBatch' /\ QuittingIsClosing' /\ RunHasWork' /\ LoadOfScreen'
    BY <2>1, <2>2 DEF BatchInv, DialogWithoutBatch, QuittingIsClosing, RunHasWork, LoadOfScreen,
                      JobRunning, HasWork, HasReload
  <2>4. \/ succeeded' = succeeded /\ Unheard' = Unheard
        \/ Len(succeeded') = Len(succeeded) + 1 /\ Unheard = 0 /\ Unheard' = 1
    <3>1. CASE JobStarted \/ StartFails \/ StartSucceeds
      BY <3>1 DEF JobStarted, StartFails, StartSucceeds, worldVars, Unheard
    <3>2. ASSUME NEW result \in Results, JobFinishes(result)
          PROVE  \/ succeeded' = succeeded /\ Unheard' = Unheard
                 \/ Len(succeeded') = Len(succeeded) + 1 /\ Unheard = 0 /\ Unheard' = 1
      <4>1. jobPhase = "live" /\ jobPhase' = "finished" /\ jobResult' = result
        BY <3>2 DEF JobFinishes
      <4>2. CASE result = "ok"
        <5>1. succeeded' = Append(succeeded, jobEntry) /\ Unheard' = 1 /\ Unheard = 0
          BY <3>2, <4>1, <4>2 DEF JobFinishes, Unheard
        <5>2. jobEntry \in Entry /\ succeeded \in Seq(Entry)
          BY <4>1, JobEntryIsEntry DEF IInv, TypeOK, WorldType
        <5> QED BY <5>1, <5>2, AppendProperties
      <4>3. CASE result # "ok"
        BY <3>2, <4>1, <4>3 DEF JobFinishes, Unheard
      <4> QED BY <4>2, <4>3
    <3> QED BY <1>2, <3>1, <3>2 DEF JobEnd
  <2>5. Accounted'
    <3>1. HasWork' = HasWork /\ InFlight' = InFlight
      BY <2>1, <2>2 DEF HasWork, HasReload, InFlight
    <3>2. ASSUME batchTotal > 0, HasWork PROVE Len(succeeded') = batchCompleted + Unheard'
      <4>1. Len(succeeded) = batchCompleted + Unheard /\ batchCompleted \in Nat
        BY <3>2 DEF BatchInv, Accounted, IInv, TypeOK, RunType
      <4> QED BY <2>4, <4>1
    <3> QED BY <2>1, <3>1, <3>2 DEF BatchInv, Accounted
  <2> QED BY <2>3, <2>5 DEF BatchInv
<1> QED BY <1>1, <1>2

(* A result that starts nothing leaves no job, and a reload or an end.     *)
LEMMA ResultsKeepBatch ==
  ASSUME IInv, QueueInv, BatchInv, ResultStep, ~ResultStartsNext PROVE BatchInv'
<1>1. /\ jobPending /\ jobPhase = "finished" /\ ~startPending /\ ~loading /\ lists = {}
      /\ ~jobPending' /\ succeeded' = succeeded
  BY DEF ResultStep, ResultWhileQuitting, ResultCleanupFailed, ResultFailed,
         ResultSelfUninstalled, ResultQueueUnsafe, ResultReloads, TakeSuccess, TakeResult,
         worldVars, IInv, Lifecycle, HandlesFollowJob, LoadIsAlone
<1>2. startPending' = startPending /\ jobPhase' = "idle"
  BY DEF ResultStep, ResultWhileQuitting, ResultCleanupFailed, ResultFailed,
         ResultSelfUninstalled, ResultQueueUnsafe, ResultReloads, JobGone
<1>3. CASE ~ResultReloads
  <2>1. InventoryUntouched
    BY <1>3 DEF ResultStep, ResultWhileQuitting, ResultCleanupFailed, ResultFailed,
                ResultSelfUninstalled, ResultQueueUnsafe
  <2>2. lists' = {} /\ ~HasWork'
    BY <1>1, <1>2, <2>1 DEF InventoryUntouched, loadVars, HasWork, HasReload
  <2>3. LoadOfScreen' /\ Accounted'
    BY <2>2 DEF LoadOfScreen, Accounted
  <2>4. \/ mode' = "quitting" /\ closing'
        \/ mode' = "normal" /\ ~JobRunning'
    BY <1>3 DEF ResultStep, ResultWhileQuitting, ResultCleanupFailed, ResultFailed,
                ResultSelfUninstalled, ResultQueueUnsafe, EnterQuit, FinishOperation, JobRunning,
                BatchInv, QuittingIsClosing
  <2>5. DialogWithoutBatch' /\ QuittingIsClosing' /\ RunHasWork'
    BY <2>4 DEF DialogWithoutBatch, QuittingIsClosing, RunHasWork
  <2> QED BY <2>3, <2>5 DEF BatchInv
<1>4. CASE ResultReloads
  <2>1. /\ queue = <<>> /\ queue' = queue /\ mode' = "operation" /\ kind' = kind
        /\ StartLoad(kind, "afterOperation", batchTotal > 0) /\ CountSuccess /\ jobResult = "ok"
    BY <1>4 DEF ResultReloads, TakeSuccess, runVars
  <2> DEFINE c == [kind |-> kind, purpose |-> "afterOperation", fleet |-> batchTotal > 0]
  <2>2. /\ lists' = {c} /\ loading' = TRUE /\ loadPurpose' = "afterOperation"
        /\ batchTotal' = batchTotal
    BY <1>1, <2>1 DEF StartLoad, CountSuccess
  <2>3. LoadOfScreen'
    <3>1. c.kind = kind /\ c.purpose = "afterOperation" /\ (c.fleet <=> batchTotal > 0)
      OBVIOUS
    <3> HIDE DEF c
    <3> QED BY <2>1, <2>2, <3>1 DEF LoadOfScreen
  <2>4. DialogWithoutBatch' /\ QuittingIsClosing' /\ RunHasWork'
    BY <2>1, <2>2 DEF DialogWithoutBatch, QuittingIsClosing, RunHasWork, HasWork, HasReload
  <2>5. Accounted'
    <3>1. InFlight = 1 /\ Unheard = 1 /\ HasWork /\ InFlight' = 0 /\ Unheard' = 0
      BY <1>1, <1>2, <2>1 DEF InFlight, Unheard, HasWork
    <3>2. Len(queue) = 0 /\ batchCompleted \in Nat
      BY <2>1 DEF IInv, TypeOK, RunType
    <3>3. ASSUME batchTotal > 0
          PROVE  /\ batchTotal' = batchCompleted' + Len(queue') + 0
                 /\ Len(succeeded') = batchCompleted' + 0
      <4>1. batchTotal = batchCompleted + Len(queue) + 1 /\ Len(succeeded) = batchCompleted + 1
        BY <3>1, <3>3 DEF BatchInv, Accounted
      <4>2. batchCompleted' = batchCompleted + 1
        BY <2>1, <3>3 DEF CountSuccess
      <4> QED BY <1>1, <2>1, <2>2, <3>2, <4>1, <4>2
    <3> QED BY <2>2, <3>1, <3>3 DEF Accounted
  <2> QED BY <2>3, <2>4, <2>5 DEF BatchInv
<1> QED BY <1>3, <1>4

LEMMA NextKeepsBatch ==
  ASSUME IInv, QueueInv, BatchInv, [Next]_vars PROVE BatchInv'
BY StepsOfRun, QuietKeepsBatch, LoadsKeepBatch, DialogsKeepBatch, StartsKeepBatch, JobKeepsBatch,
   ResultsKeepBatch
   DEF Loud

(* The two hold together: what waits is counted, what is counted waits.    *)
RunInv == IInv /\ QueueInv /\ BatchInv

LEMMA InitRun == Init => QueueInv /\ BatchInv
<1> SUFFICES ASSUME NEW s \in Snapshots, InitFrom(Seed(s)) PROVE QueueInv /\ BatchInv
  BY DEF Init
<1>1. QueueHasRun /\ ReloadIsLast /\ DialogIsFresh /\ BatchIsDistinct
  BY DEF InitFrom, QueueHasRun, ReloadIsLast, DialogIsFresh, BatchIsDistinct, JobRunning
<1>2. NoDuplicateWork
  BY DEF InitFrom, NoDuplicateWork, Queue!NoDuplicates
<1>3. DialogWithoutBatch /\ QuittingIsClosing /\ RunHasWork
  BY DEF InitFrom, DialogWithoutBatch, QuittingIsClosing, RunHasWork, JobRunning
<1>4. LoadOfScreen
  <2>1. lists = {[kind |-> "cask", purpose |-> loadPurpose, fleet |-> FALSE]} /\ kind = "cask"
        /\ loadPurpose # "afterOperation"
    BY DEF InitFrom, FirstPurpose
  <2> QED BY <2>1 DEF LoadOfScreen
<1>5. Accounted
  BY DEF InitFrom, Accounted
<1> QED BY <1>1, <1>2, <1>3, <1>4, <1>5 DEF QueueInv, BatchInv

(* The inductive invariant of the queue and of its counters.               *)
THEOREM RunInvariant == Spec => []RunInv
<1>1. Init => RunInv
  BY InitTypes, InitLives, InitRun DEF RunInv, IInv
<1>2. RunInv /\ [Next]_vars => RunInv'
  <2>1. ASSUME RunInv, [Next]_vars PROVE RunInv'
    BY <2>1, NextTypes, NextLives, NextKeepsQueue, NextKeepsBatch DEF RunInv, IInv, BatchInv
  <2> QED BY <2>1
<1> QED BY <1>1, <1>2, PTL DEF Spec

(* No verb is confirmed twice for one package, whatever runs meanwhile:    *)
(* pendingOperation refuses at the key, and nothing that becomes pending   *)
(* while a dialog is open is what the dialog asks for.                     *)
THEOREM WorkIsNeverDuplicated == Spec => []NoDuplicateWork
<1>1. RunInv => NoDuplicateWork
  BY DEF RunInv, QueueInv
<1> QED BY <1>1, RunInvariant, PTL

(* The batch counters shown while an upgrade-all runs add up: until a quit *)
(* begins, done, running and waiting packages are those confirmed, and     *)
(* what is counted as done did succeed.                                    *)
THEOREM BatchesAddUp == Spec => []BatchAccounting
<1>1. ASSUME RunInv PROVE BatchAccounting
  <2>1. SUFFICES ASSUME batchTotal > 0, ~closing
                 PROVE  /\ batchTotal = batchCompleted + Len(queue)
                                          + (IF jobPending \/ startPending THEN 1 ELSE 0)
                        /\ batchCompleted <= Len(succeeded)
    BY DEF BatchAccounting
  <2>2. JobRunning
    BY <1>1, <2>1 DEF RunInv, QueueInv, QueueHasRun
  <2>3. HasWork
    BY <1>1, <2>1, <2>2 DEF RunInv, BatchInv, RunHasWork
  <2>4. /\ batchTotal = batchCompleted + Len(queue) + InFlight
        /\ Len(succeeded) = batchCompleted + Unheard
    BY <1>1, <2>1, <2>3 DEF RunInv, BatchInv, Accounted
  <2>5. batchCompleted \in Nat
    BY <1>1 DEF RunInv, IInv, TypeOK, RunType
  <2> QED BY <2>4, <2>5 DEF InFlight, Unheard
<1> QED BY <1>1, RunInvariant, PTL

----------------------------------------------------------------------------
(* The refinement of OperationQueue.  Running names the mapped operation.  *)
Running == IF JobRunning THEN [verb |-> verb, pkg |-> operation] ELSE NoEntry

LEMMA QueueStutters ==
  ASSUME UNCHANGED <<operation, verb, queue>>, RunPhase' = RunPhase
  PROVE  UNCHANGED Queue!vars
BY DEF Queue!vars, JobRunning

(* The phases, by the handles of the job.                                  *)
LEMMA PhaseIs ==
  ASSUME JobRunning
  PROVE  /\ jobPhase = "finished" /\ jobPending =>
              RunPhase = IF jobResult = "ok" THEN "succeeded" ELSE "failed"
         /\ (startPending \/ jobPending) /\ ~(jobPhase = "finished" /\ jobPending) =>
              RunPhase = "running"
         /\ ~startPending /\ ~jobPending => RunPhase = "over"
BY DEF RunPhase

LEMMA QuietSteps == ASSUME Quiet PROVE UNCHANGED Queue!vars
<1>1. RunPhase' = RunPhase
  BY DEF Quiet, runState, RunPhase, JobRunning
<1> QED BY <1>1, QueueStutters DEF Quiet, runState

(* The run ends.                                                           *)
LEMMA EndsRefine ==
  ASSUME JobRunning, operation' = NoPkg, queue' = <<>> PROVE Queue!End
<1>1. RunPhase # "idle" /\ RunPhase' = "idle"
  BY DEF RunPhase, JobRunning
<1> QED BY <1>1 DEF Queue!End, JobRunning

LEMMA LoadsRefine ==
  ASSUME RunInv, SwitchKind \/ Refresh \/ LoadStep PROVE Queue!Next \/ UNCHANGED Queue!vars
<1>1. CASE SwitchKind \/ Refresh
  <2>1. UNCHANGED <<operation, verb, queue, startPending, jobPending, jobPhase, jobResult>>
    BY <1>1 DEF SwitchKind, Refresh, OperationUntouched, runVars, holdVars, jobVars
  <2>2. RunPhase' = RunPhase
    BY <2>1 DEF RunPhase, JobRunning
  <2> QED BY <2>1, <2>2, QueueStutters
<1>2. CASE LoadStep
  <2> PICK c \in lists :
        LoadWhileQuitting(c) \/ LoadCancelled(c) \/ LoadFailed(c) \/ LoadSucceeded(c)
    BY <1>2 DEF LoadStep
  <2>1. /\ UNCHANGED <<verb, startPending, jobPending, jobPhase, jobResult>>
        /\ c.purpose = loadPurpose /\ loading
    BY DEF LoadWhileQuitting, LoadCancelled, LoadFailed, LoadSucceeded, TakeLoad, JobUntouched,
           holdVars, jobVars, RunInv, IInv, Lifecycle, LoadIsAlone
  <2>2. CASE UNCHANGED <<operation, queue>>
    <3>1. RunPhase' = RunPhase
      BY <2>1, <2>2 DEF RunPhase, JobRunning
    <3> QED BY <2>1, <2>2, <3>1, QueueStutters
  <2>3. CASE ~UNCHANGED <<operation, queue>>
    <3>1. c.purpose = "afterOperation"
      BY <2>3 DEF LoadWhileQuitting, LoadCancelled, LoadFailed, LoadSucceeded, ReloadCancelled
    <3>2. JobRunning /\ queue = <<>>
      BY <2>1, <3>1 DEF RunInv, IInv, Lifecycle, LoadIsAlone, QueueInv, ReloadIsLast
    <3>3. operation' = NoPkg /\ queue' = <<>>
      BY <2>3, <3>1, <3>2 DEF LoadWhileQuitting, LoadCancelled, LoadFailed, LoadSucceeded,
                              FinishOperation, DropQueue
    <3> QED BY <3>2, <3>3, EndsRefine DEF Queue!Next
  <2> QED BY <2>2, <2>3
<1> QED BY <1>1, <1>2

LEMMA DialogsRefine ==
  ASSUME RunInv,
         \/ ConfirmOperation("uninstall") \/ ConfirmOperation("upgrade")
         \/ ConfirmUpgradeAll \/ EnqueueConfirmed
  PROVE  Queue!Next \/ UNCHANGED Queue!vars
<1>1. UNCHANGED <<operation, verb, startPending, jobPending, jobPhase, jobResult>>
  BY DEF ConfirmOperation, ConfirmUpgradeAll, EnqueueConfirmed, Enqueue, runVars, holdVars, jobVars
<1>2. RunPhase' = RunPhase
  BY <1>1 DEF RunPhase, JobRunning
<1>3. CASE ~EnqueueConfirmed
  <2>1. queue' = queue
    BY <1>3 DEF ConfirmOperation, ConfirmUpgradeAll, runVars
  <2> QED BY <1>1, <1>2, <2>1, QueueStutters
<1>4. CASE EnqueueConfirmed
  <2>1. queue' = Append(queue, Confirmed) /\ Confirmed \in Entry
    BY <1>4 DEF EnqueueConfirmed, Enqueue, Confirmed, Entry, RunInv, IInv, TypeOK, DialogType,
                OptPkg
  <2>2. RunPhase # "idle"
    BY <1>4 DEF EnqueueConfirmed, RunPhase
  <2>3. UNCHANGED Running
    BY <1>1 DEF Running, JobRunning
  <2>4. Queue!Add
    BY <1>2, <2>1, <2>2, <2>3 DEF Queue!Add, Running
  <2> QED BY <2>4 DEF Queue!Next
<1> QED BY <1>3, <1>4

LEMMA StartsRefine ==
  ASSUME RunInv, RunInv', StartConfirmed \/ StartBatch \/ ResultStartsNext
  PROVE  Queue!Next
<1>1. /\ startPending' = TRUE /\ jobPhase' = "starting" /\ queue' \in Seq(Entry)
  BY DEF StartConfirmed, StartBatch, ResultStartsNext, StartUninstall, RunInv, IInv, TypeOK, RunType
<1>2. JobRunning' /\ [verb |-> verb', pkg |-> operation'] \in Entry
  BY <1>1 DEF RunInv, IInv, TypeOK, RunType, Lifecycle, JobHasOperation, JobRunning, OptPkg, Entry
<1>3. RunPhase' = "running"
  BY <1>1, <1>2 DEF RunPhase
<1>4. CASE StartConfirmed \/ StartBatch
  <2>1. ~JobRunning
    BY <1>4 DEF StartConfirmed, StartBatch, UpgradeAllFits, RunInv, IInv, Lifecycle,
                BatchAwaitsNoJob
  <2>2. RunPhase = "idle"
    BY <2>1 DEF RunPhase
  <2>3. Queue!Begin
    BY <1>1, <1>2, <1>3, <2>2 DEF Queue!Begin
  <2> QED BY <2>3 DEF Queue!Next
<1>5. CASE ResultStartsNext
  <2>1. /\ jobPending /\ jobPhase = "finished" /\ jobResult = "ok" /\ queue # <<>>
        /\ queue' = Tail(queue) /\ operation' = Head(queue).pkg /\ verb' = Head(queue).verb
    BY <1>5 DEF ResultStartsNext, TakeSuccess, TakeResult, StartUninstall
  <2>2. Head(queue) \in Entry
    BY <2>1, HeadTailProperties DEF RunInv, IInv, TypeOK, RunType
  <2>3. Head(queue) = [verb |-> verb', pkg |-> operation']
    BY <2>1, <2>2 DEF Entry
  <2>4. RunPhase = "succeeded"
    BY <2>1 DEF RunPhase, RunInv, IInv, Lifecycle, JobHasOperation
  <2>5. Queue!Advance
    BY <1>2, <1>3, <2>1, <2>3, <2>4 DEF Queue!Advance
  <2> QED BY <2>5 DEF Queue!Next
<1> QED BY <1>4, <1>5

LEMMA JobRefines ==
  ASSUME RunInv, JobStarted \/ JobStartFailed \/ StartFails \/ StartSucceeds \/ JobEnd
  PROVE  Queue!Next \/ UNCHANGED Queue!vars
<1> USE DEF RunInv, IInv
<1>1. CASE JobStartFailed
  <2>1. JobRunning /\ startPending /\ ~jobPending
    BY <1>1 DEF JobStartFailed, TypeOK, JobType, Lifecycle, HandlesFollowJob, JobHasOperation
  <2>2. CASE mode = "quitting"
    <3>1. /\ UNCHANGED <<operation, verb, queue, jobPending>> /\ startPending' = FALSE
      BY <1>1, <2>2 DEF JobStartFailed
    <3>2. RunPhase = "running" /\ RunPhase' = "over"
      BY <2>1, <3>1 DEF RunPhase, JobRunning
    <3>3. Queue!Conclude
      BY <3>1, <3>2 DEF Queue!Conclude, JobRunning
    <3> QED BY <3>3 DEF Queue!Next
  <2>3. CASE mode # "quitting"
    BY <1>1, <2>1, <2>3, EndsRefine DEF JobStartFailed, DropQueue, Queue!Next
  <2> QED BY <2>2, <2>3
<1>2. CASE JobStarted \/ StartFails \/ StartSucceeds \/ JobEnd
  <2>1. UNCHANGED <<operation, verb, queue>>
    BY <1>2 DEF JobStarted, StartFails, StartSucceeds, JobEnd, JobFinishes, UIUntouched, runVars
  <2>2. JobRunning /\ JobRunning' /\ RunPhase = "running"
    <3>1. /\ startPending \/ jobPending
          /\ ~(jobPhase = "finished" /\ jobPending)
      BY <1>2 DEF JobStarted, StartFails, StartSucceeds, JobEnd, JobFinishes, TypeOK, JobType,
                  Lifecycle, HandlesFollowJob
    <3> QED BY <2>1, <3>1 DEF Lifecycle, JobHasOperation, RunPhase, JobRunning
  <2>3. RunPhase' \in {"running", "succeeded", "failed"}
    <3>1. startPending' \/ jobPending'
      BY <1>2 DEF JobStarted, StartFails, StartSucceeds, JobEnd, JobFinishes, UIUntouched, holdVars,
                  Lifecycle, HandlesFollowJob
    <3> QED BY <2>2, <3>1 DEF RunPhase, JobRunning
  <2>4. CASE RunPhase' = "running"
    BY <2>1, <2>2, <2>4, QueueStutters
  <2>5. CASE RunPhase' \in {"succeeded", "failed"}
    <3>1. Queue!Report
      BY <2>1, <2>2, <2>5 DEF Queue!Report, JobRunning
    <3> QED BY <3>1 DEF Queue!Next
  <2> QED BY <2>3, <2>4, <2>5
<1> QED BY <1>1, <1>2

LEMMA ResultsRefine ==
  ASSUME RunInv, ResultStep, ~ResultStartsNext PROVE Queue!Next
<1> USE DEF RunInv, IInv
<1>1. /\ jobPending /\ jobPhase = "finished" /\ ~startPending /\ JobRunning
      /\ ~jobPending'
  BY DEF ResultStep, ResultWhileQuitting, ResultCleanupFailed, ResultFailed,
         ResultSelfUninstalled, ResultQueueUnsafe, ResultReloads, TakeSuccess, TakeResult,
         Lifecycle, HandlesFollowJob, JobHasOperation
<1>2. RunPhase \in {"succeeded", "failed"}
  BY <1>1 DEF RunPhase
<1>3. CASE ResultFailed \/ ResultQueueUnsafe
  <2>1. operation' = NoPkg /\ queue' = <<>>
    BY <1>3 DEF ResultFailed, ResultQueueUnsafe, FinishOperation, DropQueue
  <2> QED BY <1>1, <2>1, EndsRefine DEF Queue!Next
<1>4. CASE ResultWhileQuitting \/ ResultCleanupFailed \/ ResultSelfUninstalled \/ ResultReloads
  <2>1. /\ UNCHANGED <<operation, verb, startPending>> /\ queue' \in {queue, <<>>}
    BY <1>4 DEF ResultWhileQuitting, ResultCleanupFailed, ResultSelfUninstalled, ResultReloads,
                DropQueue, runVars
  <2>2. RunPhase' = "over"
    BY <1>1, <2>1 DEF RunPhase, JobRunning
  <2>3. Queue!Conclude
    BY <1>2, <2>1, <2>2 DEF Queue!Conclude, JobRunning
  <2> QED BY <2>3 DEF Queue!Next
<1> QED BY <1>3, <1>4 DEF ResultStep

(* The session implements OperationQueue: confirmed entries run one at a   *)
(* time and in order, one starts only behind a success, and every other    *)
(* end - a failure, a cancellation, a quit, a dialog that no longer fits - *)
(* drops what waits (model.go, handleJobResult and dropQueue).             *)
THEOREM SessionImplementsQueue == Spec => ImplementsQueue
<1>1. Init => Queue!Init
  BY DEF Init, InitFrom, Queue!Init, RunPhase, JobRunning
<1>2. RunInv /\ RunInv' /\ [Next]_vars => [Queue!Next]_(Queue!vars)
  <2> SUFFICES ASSUME RunInv, RunInv', [Next]_vars PROVE Queue!Next \/ UNCHANGED Queue!vars
    OBVIOUS
  <2>1. CASE Quiet
    BY <2>1, QuietSteps
  <2> QED BY <2>1, StepsOfRun, LoadsRefine, DialogsRefine, StartsRefine, JobRefines,
             ResultsRefine
          DEF Loud, RunInv
<1> QED BY <1>1, <1>2, RunInvariant, PTL DEF Spec, ImplementsQueue

----------------------------------------------------------------------------
(* What is reported as done was done.                                      *)
(* A job that reported success is in the history, and so is the operation  *)
(* a reload will report; whatever is in the history changed the world.     *)
SuccessIsRecorded ==
  /\ jobPhase = "finished" /\ jobResult = "ok" => InSeq(jobEntry, succeeded)
  /\ HasReload => InSeq([verb |-> verb, pkg |-> operation], succeeded)
SuccessIsDone ==
  \A i \in DOMAIN succeeded :
    /\ succeeded[i].verb = "uninstall" => succeeded[i].pkg \notin installed
    /\ succeeded[i].verb = "upgrade" => succeeded[i].pkg \notin outdated

(* A claim is up only while nothing runs, and the retained list, which any *)
(* key may bring back to the pane, bears it out as the pane does.          *)
ClaimWaits == claim # NoClaim => ~JobRunning
Bears(list) ==
  /\ claim.entry # NoEntry =>
       /\ claim.entry.verb = "uninstall" => claim.entry.pkg \notin Names(list)
       /\ claim.entry.verb = "upgrade" =>
            \A r \in list : r.name = claim.entry.pkg => ~r.offered
  /\ claim.total > 0 =>
       \A r \in list : r.offered => ~InSeq([verb |-> "upgrade", pkg |-> r.name], succeeded)
ClaimIsRetained == kind \in cached => Bears(listCache[kind])

ClaimInv ==
  SuccessIsRecorded /\ SuccessIsDone /\ ClaimWaits /\ ClaimIsRetained /\ ClaimIsTrue

(* Only a job changes what is installed or offered, and only with a        *)
(* success does the history grow.                                          *)
LEMMA WorldSteps ==
  ASSUME [Next]_vars
  PROVE  \/ UNCHANGED <<installed, outdated>> /\ succeeded' \in {succeeded, <<>>}
         \/ JobEnd
<1>1. CASE InventoryKey \/ SizesStep \/ InfoCompleted
  <2>1. RestUntouched
    BY <1>1 DEF InventoryKey, Browse, StatusKey, Reorder, EnterSearch, SearchKey, SwitchKind,
                Refresh, SizesStep, SizesSuperseded, SizesWhileQuitting, SizesFailed,
                SizesMeasured, InfoCompleted
  <2> QED BY <2>1 DEF RestUntouched, worldVars
<1>2. CASE OperationKey
  BY <1>2 DEF OperationKey, ConfirmOperation, ConfirmUpgradeAll, DismissConfirmation,
              EnqueueConfirmed, StartConfirmed, StartBatch, EditPassword, SubmitPassword,
              EscapePassword, worldVars
<1>3. CASE LoadStep
  BY <1>3 DEF LoadStep, LoadWhileQuitting, LoadCancelled, LoadFailed, LoadSucceeded, RestUntouched,
              worldVars
<1>4. CASE TrustKey \/ TrustStep
  <2>1. OutsideUntouched
    BY <1>4 DEF TrustKey, ReviewTrust, AbandonTrust, StartTrust, TrustStep, DropStaleTrust,
                TrustWhileQuitting, DetailsArrive, TrustFails, TrustSucceeds
  <2> QED BY <2>1 DEF OutsideUntouched
<1>5. CASE JobMessage
  BY <1>5 DEF JobMessage, JobStarted, JobStartFailed, IgnoreEvent, RejectRequest, OpenPassword,
              ResultStep, ResultWhileQuitting, ResultCleanupFailed, ResultFailed,
              ResultSelfUninstalled, ResultQueueUnsafe, ResultStartsNext, ResultReloads,
              TakeSuccess, TakeResult, worldVars
<1>6. CASE JobStep
  BY <1>6 DEF JobStep, StartFails, StartSucceeds, RequestPassword, FailAuthentication,
              RequestTimesOut, worldVars
<1>7. CASE \E t \in Terms : Resize(t)
  BY <1>7 DEF Resize, worldVars
<1>8. CASE Interrupt \/ Terminate \/ QuitKey
  BY <1>8 DEF Interrupt, Terminate, QuitKey, BeginQuit, worldVars
<1>9. CASE UNCHANGED vars
  BY <1>9 DEF vars, worldVars
<1> QED BY <1>1, <1>2, <1>3, <1>4, <1>5, <1>6, <1>7, <1>8, <1>9 DEF Next, Terminated

(* What Append adds to a history.                                          *)
LEMMA AppendRecords ==
  ASSUME NEW s \in Seq(Entry), NEW e \in Entry
  PROVE  /\ InSeq(e, Append(s, e))
         /\ \A d : InSeq(d, s) => InSeq(d, Append(s, e))
         /\ \A i \in DOMAIN Append(s, e) : Append(s, e)[i] = e \/ InSeq(Append(s, e)[i], s)
<1>1. DOMAIN s = 1..Len(s) /\ Len(s) \in Nat
  BY LenProperties
<1>2. /\ DOMAIN Append(s, e) = 1..(Len(s) + 1)
      /\ \A i \in 1..Len(s) : Append(s, e)[i] = s[i]
      /\ Append(s, e)[Len(s) + 1] = e
  OBVIOUS
<1>3. Len(s) + 1 \in DOMAIN Append(s, e) /\ \A i \in DOMAIN s : i \in DOMAIN Append(s, e)
  BY <1>1, <1>2
<1>4. \A i \in 1..(Len(s) + 1) : i \in 1..Len(s) \/ i = Len(s) + 1
  BY <1>1
<1> QED BY <1>1, <1>2, <1>3, <1>4 DEF InSeq

LEMMA NextKeepsDone ==
  ASSUME IInv, SuccessIsDone, [Next]_vars PROVE SuccessIsDone'
<1>1. CASE UNCHANGED <<installed, outdated>> /\ succeeded' \in {succeeded, <<>>}
  BY <1>1 DEF SuccessIsDone
<1>2. ASSUME NEW result \in Results, JobFinishes(result) PROVE SuccessIsDone'
  <2>1. installed' \subseteq installed /\ outdated' \subseteq outdated
    BY <1>2 DEF JobFinishes, Apply
  <2>2. CASE result # "ok"
    BY <1>2, <2>1, <2>2 DEF JobFinishes, SuccessIsDone
  <2>3. CASE result = "ok"
    <3>1. succeeded' = Append(succeeded, jobEntry) /\ Apply(jobEntry) /\ jobPhase = "live"
      BY <1>2, <2>3 DEF JobFinishes
    <3>2. jobEntry \in Entry /\ succeeded \in Seq(Entry)
      BY <3>1, JobEntryIsEntry DEF IInv, TypeOK, WorldType
    <3>3. /\ jobEntry.verb = "uninstall" => jobEntry.pkg \notin installed'
          /\ jobEntry.verb = "upgrade" => jobEntry.pkg \notin outdated'
      BY <3>1 DEF Apply
    <3>4. \A i \in DOMAIN succeeded' : succeeded'[i] = jobEntry \/ InSeq(succeeded'[i], succeeded)
      BY <3>1, <3>2, AppendRecords
    <3> QED BY <2>1, <3>3, <3>4 DEF SuccessIsDone, InSeq
  <2> QED BY <2>2, <2>3
<1> QED BY <1>1, <1>2, WorldSteps DEF JobEnd

LEMMA NextKeepsRecord ==
  ASSUME RunInv, SuccessIsRecorded, [Next]_vars PROVE SuccessIsRecorded'
<1> USE DEF RunInv, IInv
<1>1. CASE Quiet
  BY <1>1 DEF Quiet, runState, SuccessIsRecorded, HasReload
<1>2. CASE SwitchKind \/ Refresh \/ LoadStep
  <2>1. UNCHANGED <<jobPhase, jobResult, jobEntry, succeeded>>
    BY <1>2 DEF SwitchKind, Refresh, LoadStep, LoadWhileQuitting, LoadCancelled, LoadFailed,
                LoadSucceeded, OperationUntouched, RestUntouched, JobUntouched, jobVars, worldVars
  <2>2. ~HasReload'
    <3>1. CASE LoadStep
      BY <3>1 DEF LoadStep, LoadWhileQuitting, LoadCancelled, LoadFailed, LoadSucceeded, TakeLoad,
                  HasReload
    <3>2. CASE SwitchKind
      BY <3>2 DEF SwitchKind, KeyboardOpen, StartLoad, HasReload, loadVars
    <3>3. CASE Refresh
      BY <3>3 DEF Refresh, StartLoad, HasReload
    <3> QED BY <1>2, <3>1, <3>2, <3>3
  <2> QED BY <2>1, <2>2 DEF SuccessIsRecorded
<1>3. CASE \/ ConfirmOperation("uninstall") \/ ConfirmOperation("upgrade")
           \/ ConfirmUpgradeAll \/ EnqueueConfirmed
  <2>1. /\ UNCHANGED <<jobVars, worldVars, verb, operation, loadVars>>
    BY <1>3 DEF ConfirmOperation, ConfirmUpgradeAll, EnqueueConfirmed, Enqueue, runVars,
                InventoryUntouched
  <2> QED BY <2>1 DEF SuccessIsRecorded, HasReload, jobVars, worldVars, loadVars
<1>4. CASE StartConfirmed \/ StartBatch \/ ResultStartsNext
  <2>1. jobPhase' = "starting" /\ ~loading'
    BY <1>4 DEF StartConfirmed, StartBatch, ResultStartsNext, StartUninstall, KeyboardOpen,
                TakeSuccess, TakeResult, InventoryUntouched, loadVars, Lifecycle, LoadIsAlone
  <2> QED BY <2>1 DEF SuccessIsRecorded, HasReload
<1>5. CASE JobStarted \/ JobStartFailed \/ StartFails \/ StartSucceeds
  <2>1. ~loading' /\ succeeded' = succeeded
    BY <1>5 DEF JobStarted, JobStartFailed, StartFails, StartSucceeds, UIUntouched, worldVars,
                InventoryUntouched, loadVars, Lifecycle, HandlesFollowJob, LoadIsAlone
  <2>2. \/ UNCHANGED <<jobPhase, jobResult, jobEntry>>
        \/ jobPhase' # "finished"
    BY <1>5 DEF JobStarted, JobStartFailed, StartFails, StartSucceeds
  <2> QED BY <2>1, <2>2 DEF SuccessIsRecorded, HasReload
<1>6. ASSUME NEW result \in Results, JobFinishes(result) PROVE SuccessIsRecorded'
  <2>1. ~loading' /\ jobPhase = "live" /\ jobResult' = result /\ jobEntry' = jobEntry
    BY <1>6 DEF JobFinishes, UIUntouched, InventoryUntouched, loadVars, Lifecycle,
                HandlesFollowJob, LoadIsAlone
  <2>2. result = "ok" => InSeq(jobEntry, succeeded')
    BY <1>6, <2>1, JobEntryIsEntry, AppendRecords DEF JobFinishes, TypeOK, WorldType
  <2>3. result = "ok" => InSeq(jobEntry', succeeded')
    BY <2>1, <2>2 DEF InSeq
  <2> QED BY <2>1, <2>3 DEF SuccessIsRecorded, HasReload
<1>7. CASE ResultStep /\ ~ResultStartsNext /\ ~ResultReloads
  <2>1. jobPhase' = "idle" /\ ~loading'
    BY <1>7 DEF ResultStep, ResultWhileQuitting, ResultCleanupFailed, ResultFailed,
                ResultSelfUninstalled, ResultQueueUnsafe, TakeSuccess, TakeResult, JobGone,
                InventoryUntouched, loadVars, Lifecycle, LoadIsAlone
  <2> QED BY <2>1 DEF SuccessIsRecorded, HasReload
<1>8. CASE ResultReloads
  <2>1. /\ jobPhase = "finished" /\ jobResult = "ok" /\ jobPhase' = "idle"
        /\ UNCHANGED <<succeeded, verb, operation>>
    BY <1>8 DEF ResultReloads, TakeSuccess, TakeResult, JobGone, worldVars, runVars
  <2>2. InSeq([verb |-> verb, pkg |-> operation], succeeded)
    BY <2>1 DEF SuccessIsRecorded, Lifecycle, JobIsTheOperation
  <2> QED BY <2>1, <2>2 DEF SuccessIsRecorded, InSeq
<1> QED BY <1>1, <1>2, <1>3, <1>4, <1>5, <1>6, <1>7, <1>8, StepsOfRun DEF Loud, JobEnd

(* What a step does to the claim and to what bears it out: it withdraws    *)
(* the claim, leaves it above a list that still bears it out, or makes one *)
(* of the operation or batch a reload has just ended.                      *)
ClaimStep ==
  \/ claim' = NoClaim
  \/ /\ UNCHANGED <<claim, kind, operation>>
     /\ rows' = rows \/ (kind \in cached /\ rows' = listCache[kind])
     /\ cached' = {} \/ UNCHANGED <<cached, listCache>>
     /\ succeeded' = succeeded \/ JobRunning
  \/ \E c \in lists : LoadSucceeded(c) /\ c.purpose = "afterOperation"

LEMMA ClaimSteps == ASSUME IInv, [Next]_vars PROVE ClaimStep
<1>1. CASE InventoryKey
  <2>1. CASE SwitchKind \/ StatusKey \/ Reorder
    BY <2>1 DEF SwitchKind, StatusKey, Reorder, ClaimStep
  <2>2. CASE Browse \/ EnterSearch
    BY <2>2 DEF Browse, EnterSearch, ClaimStep, OperationUntouched, RestUntouched, runVars,
                worldVars
  <2>3. CASE SearchKey
    BY <2>3 DEF SearchKey, ApplyQuery, ClaimStep, OperationUntouched, RestUntouched, runVars,
                worldVars
  <2>4. CASE Refresh
    BY <2>4 DEF Refresh, InvalidateCaches, ClaimStep, OperationUntouched, RestUntouched, runVars,
                worldVars
  <2> QED BY <1>1, <2>1, <2>2, <2>3, <2>4 DEF InventoryKey
<1>2. CASE SizesStep \/ InfoCompleted
  <2>1. OperationUntouched /\ RestUntouched /\ UNCHANGED <<claim, kind, cached, listCache>>
    BY <1>2 DEF SizesStep, SizesSuperseded, SizesWhileQuitting, SizesFailed, SizesMeasured,
                InfoCompleted
  <2>2. rows' = rows \/ (kind \in cached /\ rows' = listCache[kind])
    BY <1>2 DEF SizesStep, SizesSuperseded, SizesWhileQuitting, SizesFailed, SizesMeasured,
                InfoCompleted
  <2> QED BY <2>1, <2>2 DEF ClaimStep, OperationUntouched, RestUntouched, runVars, worldVars
<1>3. CASE LoadStep
  <2> PICK c \in lists :
        LoadWhileQuitting(c) \/ LoadCancelled(c) \/ LoadFailed(c) \/ LoadSucceeded(c)
    BY <1>3 DEF LoadStep
  <2>1. CASE LoadWhileQuitting(c)
    BY <2>1 DEF LoadWhileQuitting, ViewUntouched, RestUntouched, worldVars, ClaimStep
  <2>2. CASE LoadCancelled(c) \/ LoadFailed(c)
    BY <2>2 DEF LoadCancelled, LoadFailed, FinishOperation, ClaimStep
  <2>3. CASE LoadSucceeded(c)
    BY <2>3 DEF LoadSucceeded, LoadClaim, ClaimStep
  <2> QED BY <2>1, <2>2, <2>3
<1>4. CASE OperationKey
  <2>1. claim' = NoClaim \/ claim' = claim
    BY <1>4 DEF OperationKey, ConfirmOperation, ConfirmUpgradeAll, DismissConfirmation,
                EnqueueConfirmed, StartConfirmed, StartBatch, StartUninstall, EditPassword,
                SubmitPassword, EscapePassword
  <2>2. CASE EditPassword \/ SubmitPassword
    BY <2>1, <2>2 DEF EditPassword, SubmitPassword, ClaimStep, InventoryUntouched, viewVars,
                      runVars, worldVars
  <2>3. CASE ~(EditPassword \/ SubmitPassword)
    BY <1>4, <2>3
       DEF OperationKey, ConfirmOperation, ConfirmUpgradeAll, DismissConfirmation,
           EnqueueConfirmed, StartConfirmed, StartBatch, StartUninstall, EscapePassword, ClaimStep
  <2> QED BY <2>2, <2>3
<1>5. CASE TrustKey \/ TrustStep
  <2>1. claim' = NoClaim \/ (claim' = claim /\ RowsUntouched)
    BY <1>5 DEF TrustKey, ReviewTrust, AbandonTrust, StartTrust, TrustStep, DropStaleTrust,
                TrustWhileQuitting, DetailsArrive, TrustFails, TrustSucceeds, CancelTrust
  <2>2. OutsideUntouched
    BY <1>5 DEF TrustKey, ReviewTrust, AbandonTrust, StartTrust, TrustStep, DropStaleTrust,
                TrustWhileQuitting, DetailsArrive, TrustFails, TrustSucceeds
  <2> QED BY <2>1, <2>2 DEF ClaimStep, RowsUntouched, viewVars, OutsideUntouched, runVars
<1>6. CASE JobMessage
  <2>1. CASE JobStarted \/ IgnoreEvent
    BY <2>1 DEF JobStarted, IgnoreEvent, ClaimStep, InventoryUntouched, viewVars, runVars, worldVars
  <2>2. CASE JobStartFailed
    BY <2>2 DEF JobStartFailed, ClaimStep, InventoryUntouched, viewVars, worldVars
  <2>3. CASE RejectRequest \/ OpenPassword
    BY <2>3 DEF RejectRequest, OpenPassword, ClaimStep, InventoryUntouched, viewVars, runVars,
                worldVars
  <2>4. CASE ResultWhileQuitting
    BY <2>4 DEF ResultWhileQuitting, TakeResult, ClaimStep, InventoryUntouched, viewVars, runVars,
                worldVars
  <2>5. CASE ResultReloads
    BY <2>5 DEF ResultReloads, TakeSuccess, TakeResult, InvalidateCaches, ClaimStep, runVars,
                worldVars
  <2>6. CASE ResultStep /\ ~ResultWhileQuitting /\ ~ResultReloads
    BY <2>6 DEF ResultStep, ResultCleanupFailed, ResultFailed, ResultSelfUninstalled,
                ResultQueueUnsafe, ResultStartsNext, FinishOperation, EnterQuit, StartUninstall,
                ClaimStep
  <2> QED BY <1>6, <2>1, <2>2, <2>3, <2>4, <2>5, <2>6 DEF JobMessage
<1>7. CASE JobStep
  <2>1. UIUntouched
    BY <1>7 DEF JobStep, JobEnd, StartFails, StartSucceeds, RequestPassword, FailAuthentication,
                RequestTimesOut, JobFinishes
  <2>2. succeeded' = succeeded \/ JobRunning
    BY <1>7 DEF JobStep, JobEnd, StartFails, StartSucceeds, RequestPassword, FailAuthentication,
                RequestTimesOut, JobFinishes, worldVars, IInv, Lifecycle, HandlesFollowJob,
                JobHasOperation
  <2> QED BY <2>1, <2>2 DEF UIUntouched, InventoryUntouched, viewVars, runVars, ClaimStep
<1>8. CASE \E t \in Terms : Resize(t)
  BY <1>8 DEF Resize, CancelTrust, ClaimStep, viewVars, worldVars
<1>9. CASE Interrupt \/ Terminate \/ QuitKey
  BY <1>9 DEF Interrupt, Terminate, QuitKey, BeginQuit, EnterQuit, ClaimStep, viewVars, runVars,
              worldVars
<1>10. CASE UNCHANGED vars
  BY <1>10 DEF vars, screenVars, ClaimStep, viewVars, runVars, worldVars
<1> QED BY <1>1, <1>2, <1>3, <1>4, <1>5, <1>6, <1>7, <1>8, <1>9, <1>10 DEF Next, Terminated

(* A list of what is installed shows no package the history uninstalled    *)
(* and no offer it took, whatever its reads missed.                        *)
LEMMA ListingBears ==
  ASSUME SuccessIsDone, NEW k, NEW offers \in Reads(outdated), NEW marks,
         NEW r \in Listing(k, offers, marks)
  PROVE  /\ ~InSeq([verb |-> "uninstall", pkg |-> r.name], succeeded)
         /\ r.offered => ~InSeq([verb |-> "upgrade", pkg |-> r.name], succeeded)
<1>1. r.name \in installed /\ (r.offered => r.name \in offers)
  <2>1. PICK p \in installed :
          r = [name |-> p, offered |-> p \in offers, untrusted |-> p \in marks]
    BY DEF Listing
  <2>2. r.name = p /\ (r.offered <=> p \in offers)
    BY <2>1, Zenon
  <2> QED BY <2>2
<1>2. offers \subseteq outdated
  BY DEF Reads
<1>3. \A v, p : InSeq([verb |-> v, pkg |-> p], succeeded) =>
        (v = "uninstall" => p \notin installed) /\ (v = "upgrade" => p \notin outdated)
  BY DEF SuccessIsDone, InSeq
<1> QED BY <1>1, <1>2, <1>3

(* The one load that reports success.                                      *)
LEMMA ReloadClaims ==
  ASSUME RunInv, ClaimInv, NEW c \in lists, LoadSucceeded(c), c.purpose = "afterOperation"
  PROVE  ClaimWaits' /\ ClaimIsRetained' /\ ClaimIsTrue'
<1> USE DEF RunInv, IInv
<1>1. /\ ~JobRunning' /\ claim' = LoadClaim(c) /\ succeeded' = succeeded /\ kind' = kind
      /\ c.kind = kind /\ rows' = listCache'[kind]
  BY DEF LoadSucceeded, JobRunning, worldVars, BatchInv, LoadOfScreen
<1>2. HasReload /\ JobRunning /\ ~startPending /\ ~jobPending /\ queue = <<>>
  BY DEF Lifecycle, LoadIsAlone, HasReload, QueueInv, ReloadIsLast
<1>3. PICK offers \in Reads(outdated), marks \in Reads(untrusted) : Retain(c, offers, marks)
  BY DEF LoadSucceeded
<1>4. rows' = Listing(kind, offers, marks)
  BY <1>1, <1>3 DEF Retain, TypeOK, ScreenType
<1>5. \A r \in rows' :
        /\ ~InSeq([verb |-> "uninstall", pkg |-> r.name], succeeded)
        /\ r.offered => ~InSeq([verb |-> "upgrade", pkg |-> r.name], succeeded)
  BY <1>4, ListingBears DEF ClaimInv
<1>6. [verb |-> verb, pkg |-> operation] \in Entry
  BY <1>2 DEF TypeOK, RunType, JobRunning, OptPkg, Entry
<1>7. /\ claim'.entry # NoEntry =>
           /\ claim'.entry \in Entry /\ claim'.total = 0
           /\ InSeq(claim'.entry, succeeded)
      /\ claim'.total > 0 => claim'.entry = NoEntry /\ claim'.total = Len(succeeded)
  <2>1. CASE c.fleet
    <3>1. batchTotal > 0 /\ claim' = [entry |-> NoEntry, total |-> batchTotal]
      BY <1>1, <2>1 DEF LoadClaim, BatchInv, LoadOfScreen
    <3>2. InFlight = 0 /\ Unheard = 0 /\ HasWork /\ Len(queue) = 0
      <4>1. jobPhase # "finished"
        BY <1>2 DEF Lifecycle, HandlesFollowJob, LoadIsAlone, HasReload
      <4> QED BY <1>2, <4>1 DEF InFlight, Unheard, HasWork
    <3>3. batchTotal = batchCompleted + 0 + 0 /\ Len(succeeded) = batchCompleted + 0
      BY <3>1, <3>2 DEF BatchInv, Accounted
    <3>4. batchTotal = Len(succeeded)
      BY <3>3 DEF TypeOK, RunType
    <3> QED BY <3>1, <3>4
  <2>2. CASE ~c.fleet
    <3>1. claim' = [entry |-> [verb |-> verb, pkg |-> operation], total |-> 0]
      BY <1>1, <2>2 DEF LoadClaim
    <3>2. InSeq([verb |-> verb, pkg |-> operation], succeeded)
      BY <1>2 DEF ClaimInv, SuccessIsRecorded
    <3> QED BY <1>6, <3>1, <3>2
  <2> QED BY <2>1, <2>2
<1>8. /\ claim'.entry # NoEntry =>
           /\ claim'.entry.verb = "uninstall" => claim'.entry.pkg \notin Names(rows')
           /\ claim'.entry.verb = "upgrade" =>
                \A r \in rows' : r.name = claim'.entry.pkg => ~r.offered
      /\ claim'.total > 0 =>
           \A r \in rows' : r.offered => ~InSeq([verb |-> "upgrade", pkg |-> r.name], succeeded)
  <2>1. ASSUME claim'.entry # NoEntry
        PROVE  claim'.entry = [verb |-> claim'.entry.verb, pkg |-> claim'.entry.pkg]
    BY <1>7, <2>1 DEF Entry
  <2> QED BY <1>5, <1>7, <2>1 DEF Names
<1>9. Bears(rows)'
  BY <1>1, <1>8 DEF Bears, Names, InSeq
<1>10. ClaimIsTrue'
  BY <1>1, <1>7, <1>8 DEF ClaimIsTrue, InSeq, Names
<1>11. ClaimIsRetained'
  BY <1>1, <1>9 DEF ClaimIsRetained, Bears, InSeq, Names
<1> QED BY <1>1, <1>10, <1>11 DEF ClaimWaits

LEMMA NextKeepsClaim ==
  ASSUME RunInv, ClaimInv, [Next]_vars PROVE ClaimInv'
<1>1. SuccessIsDone' /\ SuccessIsRecorded'
  BY NextKeepsDone, NextKeepsRecord DEF RunInv, ClaimInv
<1>2. ClaimWaits' /\ ClaimIsRetained' /\ ClaimIsTrue'
  <2>1. CASE claim' = NoClaim
    <3>1. claim'.entry = NoEntry /\ ~(claim'.total > 0)
      BY <2>1 DEF NoClaim
    <3> QED BY <2>1, <3>1 DEF ClaimWaits, ClaimIsRetained, Bears, ClaimIsTrue
  <2>2. CASE /\ UNCHANGED <<claim, kind, operation>>
             /\ rows' = rows \/ (kind \in cached /\ rows' = listCache[kind])
             /\ cached' = {} \/ UNCHANGED <<cached, listCache>>
             /\ succeeded' = succeeded \/ JobRunning
    <3>1. CASE claim = NoClaim
      BY <2>1, <2>2, <3>1
    <3>2. CASE claim # NoClaim
      <4>1. succeeded' = succeeded /\ ~JobRunning'
        BY <2>2, <3>2 DEF ClaimInv, ClaimWaits, JobRunning
      <4>2. ClaimIsRetained'
        BY <2>2, <4>1 DEF ClaimInv, ClaimIsRetained, Bears, Names, InSeq
      <4>3. ClaimIsTrue'
        <5>1. CASE rows' = rows
          BY <2>2, <4>1, <5>1 DEF ClaimInv, ClaimIsTrue, Names, InSeq
        <5>2. CASE kind \in cached /\ rows' = listCache[kind]
          BY <2>2, <4>1, <5>2 DEF ClaimInv, ClaimIsRetained, Bears, ClaimIsTrue, Names, InSeq
        <5> QED BY <2>2, <5>1, <5>2
      <4> QED BY <4>1, <4>2, <4>3 DEF ClaimWaits
    <3> QED BY <3>1, <3>2
  <2>3. CASE \E c \in lists : LoadSucceeded(c) /\ c.purpose = "afterOperation"
    BY <2>3, ReloadClaims
  <2> QED BY <2>1, <2>2, <2>3, ClaimSteps DEF ClaimStep, RunInv
<1> QED BY <1>1, <1>2 DEF ClaimInv

LEMMA InitClaim == Init => ClaimInv
<1> SUFFICES ASSUME NEW s \in Snapshots, InitFrom(Seed(s)) PROVE ClaimInv
  BY DEF Init
<1>1. claim = NoClaim /\ succeeded = <<>> /\ jobPhase = "idle" /\ ~HasReload
  BY DEF InitFrom, HasReload, FirstPurpose
<1>2. claim.entry = NoEntry /\ ~(claim.total > 0)
  BY <1>1 DEF NoClaim
<1> QED BY <1>1, <1>2 DEF ClaimInv, SuccessIsRecorded, SuccessIsDone, ClaimWaits, ClaimIsRetained,
                         Bears, ClaimIsTrue

(* The status line reports as completed only what succeeded, and only over *)
(* a list that shows it, whichever of its reads failed and whatever key    *)
(* brought the list back (handleListResult, handleFleetResult).            *)
THEOREM ClaimsAreTrue == Spec => []ClaimIsTrue
<1>1. Init => ClaimInv
  BY InitClaim
<1>2. RunInv /\ ClaimInv /\ [Next]_vars => ClaimInv'
  <2>1. ASSUME RunInv, ClaimInv, [Next]_vars PROVE ClaimInv'
    BY <2>1, NextKeepsClaim
  <2> QED BY <2>1
<1>3. ClaimInv => ClaimIsTrue
  BY DEF ClaimInv
<1> QED BY <1>1, <1>2, <1>3, RunInvariant, PTL DEF Spec
=============================================================================
