-------------------------- MODULE SessionProperties --------------------------
(***************************************************************************)
(* What a session promises.  Each property relates steps of several        *)
(* parties: the user, the terminal, the commands and the privileged job.   *)
(***************************************************************************)
EXTENDS Session

InSeq(e, s) == \E i \in DOMAIN s : s[i] = e
Names(list) == {r.name : r \in list}

------------------------------ (* operations *) ------------------------------
(* At most one brew mutates at a time: a new operation is committed only   *)
(* when no job starts, runs or awaits its report (model.go, "one job at a  *)
(* time is the invariant").                                                *)
SerialMutation ==
  [][operationID' # operationID => jobPhase \in {"idle", "finished"} /\ ~startPending]_vars

(* No list is read while a job can change what it reads: nothing loads     *)
(* between Start and the job's result (updateNormal's jobRunning guards).  *)
NoReadDuringMutation == jobPhase \in {"starting", "live"} => lists = {}

(* What brew was started with is the operation on screen, although Start   *)
(* reads m.verb in its own goroutine, and until its result is handled.     *)
JobIsTheOperation ==
  jobPhase \in {"live", "finished"} => jobEntry = [verb |-> verb, pkg |-> operation]

(* The batch neither gains nor loses a package: those done, the one that   *)
(* runs and those that wait are the ones confirmed, and those counted as   *)
(* done did succeed.                                                       *)
BatchAccounting ==
  batchTotal > 0 /\ ~closing =>
    /\ batchTotal = batchCompleted + Len(queue) + (IF jobPending \/ startPending THEN 1 ELSE 0)
    /\ batchCompleted <= Len(succeeded)

(* The queue of the session implements OperationQueue.                     *)
RunPhase ==
  IF ~JobRunning THEN "idle"
  ELSE IF jobPhase = "finished" /\ jobPending
       THEN (IF jobResult = "ok" THEN "succeeded" ELSE "failed")
  ELSE IF startPending \/ jobPending THEN "running"
  ELSE "over"
Queue == INSTANCE OperationQueue WITH
  Entries <- Entry, None <- NoEntry,
  phase <- RunPhase,
  running <- IF JobRunning THEN [verb |-> verb, pkg |-> operation] ELSE NoEntry,
  waiting <- queue
ImplementsQueue == Queue!Init /\ [][Queue!Next]_(Queue!vars)

(* No verb waits twice for one package, or behind itself, whatever was     *)
(* confirmed while which job ran (pendingOperation).                       *)
NoDuplicateWork == Queue!NoDuplicates

(* The screen and the job agree.  An open password dialog has a job to     *)
(* answer to, and a run in progress holds the screen in a mode whose       *)
(* events it accepts: any other would turn brew's password prompt into a   *)
(* cancelled operation (jobRunning's comment).                             *)
ModeMatchesRun ==
  /\ JobRunning => mode \in {"operation", "confirm", "password", "quitting"}
  /\ mode \in {"operation", "password"} => JobRunning
  /\ mode = "password" => jobHeld

(* What was typed exists only while its dialog is open: every way out of   *)
(* the dialog wipes the field and forgets the request.                     *)
PasswordContained == input = "typed" \/ passwordRequest # 0 => mode = "password"

(* Once the user or the terminal has cancelled a run, no further entry of  *)
(* it starts (dropQueue's comment, README).                                *)
NothingStartsAfterCancel ==
  [][operationID' # operationID /\ JobRunning => cancelReason = "none"]_vars

------------------------------ (* inventory *) -------------------------------
(* At most one list load is in flight, so loading, its purpose and its     *)
(* selection always describe the load that will answer.                    *)
SingleLoad ==
  /\ Cardinality(lists) <= 1
  /\ ~exited => (loading <=> lists # {})
  /\ \A c \in lists : c.purpose = loadPurpose

(* The pane shows the retained list of the kind it names, if one is        *)
(* retained.                                                               *)
PaneShowsRetained == kind \in cached => rows = listCache[kind]

(* Once no load is under way, a retained list misses nothing that is       *)
(* installed.  (Of a session that starts without a snapshot: the list of   *)
(* the other kind in a snapshot is not loaded at startup.)                 *)
RetainedIsComplete ==
  ~loading => \A k \in cached : {p \in installed : KindOf[p] = k} \subseteq Names(listCache[k])

(* The status line reports as completed only what succeeded, and only      *)
(* above a list that already shows it.                                     *)
ClaimIsTrue ==
  /\ claim.entry # NoEntry =>
       /\ InSeq(claim.entry, succeeded)
       /\ claim.entry.verb = "uninstall" => claim.entry.pkg \notin Names(rows)
       /\ claim.entry.verb = "upgrade" =>
            \A r \in rows : r.name = claim.entry.pkg => ~r.offered
  /\ claim.total > 0 =>
       /\ claim.total = Len(succeeded)
       /\ \A r \in rows : r.offered => ~InSeq([verb |-> "upgrade", pkg |-> r.name], succeeded)

(* Retention never outlives a committed change: when no operation runs, no *)
(* retained list still holds a package an operation of the last run        *)
(* uninstalled, or the offer it took (SPEC section 8).                     *)
CommittedIsForgotten ==
  ~JobRunning /\ ~closing =>
    \A k \in cached : \A r \in listCache[k] :
      /\ ~InSeq([verb |-> "uninstall", pkg |-> r.name], succeeded)
      /\ r.offered => ~InSeq([verb |-> "upgrade", pkg |-> r.name], succeeded)

(* The snapshot file follows retention: what is retained and was loaded or *)
(* edited is on disk in the same form.                                     *)
SnapshotFollows ==
  Persist => \A k \in cached : k \in disk.kinds /\ disk.lists[k] = listCache[k]

-------------------------------- (* trust *) ---------------------------------
(* No package is shown as trusted that Homebrew does not trust: the mark   *)
(* goes only after `brew trust` succeeded for that very package, stale and *)
(* abandoned commands included.                                            *)
TrustedRowsAreTrusted ==
  \A k \in cached : \A r \in listCache[k] : ~r.untrusted => r.name \notin untrusted

(* `brew trust` runs only for the package under review, and only after its *)
(* provenance was shown.                                                   *)
TrustFollowsReview ==
  /\ \A c \in trusts : c.current /\ c.what = "trust" =>
       c.pkg = trustPackage /\ trustLoaded /\ mode \in {"trust", "quitting"}
  /\ trustPending <=> \E c \in trusts : c.current
  /\ mode = "trust" => trustPackage # NoPkg /\ ~JobRunning

(* A granted trust takes the mark off one row and changes nothing else the *)
(* pane lists (SPEC section 4).                                            *)
TrustClearsOnlyTheMark ==
  [][mode = "trust" /\ trusting /\ ~trusting' => Names(rows') = Names(rows)]_vars

--------------------------------- (* quit *) ---------------------------------
(* When the program ends, nothing the model tracks still runs.             *)
QuitLeavesNothing ==
  exited =>
    /\ jobPhase = "idle" /\ startMsg = "none"
    /\ lists = {} /\ "current" \notin sizes /\ ~infoPending
    /\ \A c \in trusts : ~c.current

(* A cleanup that failed is never reported as anything but exit code 1.    *)
CleanupFailureReported == exited /\ cleanupErr => quitExitCode = 1

(* Quitting is not taken back (SPEC section 13).                           *)
QuitIsFinal == [][mode = "quitting" => mode' = "quitting"]_vars

-------------------------------- (* liveness *) ------------------------------
(* A quit completes, whatever was in flight when it was asked for.         *)
QuitCompletes == mode = "quitting" ~> exited

(* An operation that is being cancelled ends, or waits for nothing but the *)
(* list that reports what it did all the same, a `brew list` that nobody   *)
(* cancels.                                                                *)
ReloadsAfter == loading /\ loadPurpose = "afterOperation"
CancelCompletes ==
  (JobRunning /\ cancelReason # "none") ~> (~JobRunning \/ ReloadsAfter \/ exited)

(* A password dialog does not wait for an answer forever.                  *)
PasswordDialogCloses == mode = "password" ~> mode # "password"

-------------------------------- (* contracts *) -----------------------------
(* Of the information loader the session sees what its contract promises:  *)
(* one lookup at most, and none that starts once the supervisor shut down  *)
(* (selectInfo; Supervisor.cancel).  InfoLoader keeps that contract.       *)
Loader == INSTANCE LoaderContract WITH pending <- infoPending, stopped <- closing
ImplementsLoader == Loader!Spec

(* Of the privileged job it sees one job of the contract after the other,  *)
(* and none after one that ended uncleanly (handleJobResult drops the      *)
(* queue and quits).  A job exists from the moment Start runs; what an     *)
(* unclean one left, and its request, outlive its message.                 *)
Endings == [ended: {TRUE}, cleanupErr: BOOLEAN]
Unended == [ended |-> FALSE]
JobState ==
  IF jobPhase \in {"live", "finished"} \/ cleanupErr THEN "started"
  ELSE IF startMsg = "failed" THEN "failed" ELSE "starting"
JobRemains == jobPhase \in {"starting", "live"} \/ cleanupErr
JobAsks == IF jobPhase = "live" \/ cleanupErr THEN jobRequest ELSE 0
JobOutcome ==
  IF jobPhase = "finished" \/ cleanupErr
  THEN [ended |-> TRUE, cleanupErr |-> cleanupErr]
  ELSE Unended
Jobs == INSTANCE JobSeries WITH
  Requests <- 1..MaxRequests, NoRequest <- 0, Results <- Endings, NoResult <- Unended,
  phase <- JobState, remains <- JobRemains, asked <- 1..requests, open <- JobAsks,
  outcome <- JobOutcome
ImplementsJobs == Jobs!SeriesSpec

(* Nothing is started after a job whose cleanup failed, even when the quit *)
(* it asked for is taken back.                                             *)
NothingFollowsFailedCleanup ==
  [][startPending' /\ ~startPending => ~cleanupErr]_vars
=============================================================================
