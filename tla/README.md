# lazybrew in TLA+

lazybrew is a terminal user interface for Homebrew: it lists installed casks and
formulae, shows information about them, and uninstalls, upgrades and trusts them,
asking for the administrator password itself when Homebrew needs it. This directory
holds TLA+ modules of it, TLC configurations, and proofs checked by TLAPS. Paths
below are relative to the repository; `model.go` is `internal/ui/model.go`.

    tlc -config SessionQueue.cfg MCSession      # Session*.cfg, and the four of section 5
    tlc -config SessionInventory.cfg MCInventory
    tlc -config InfoLoader.cfg InfoLoader
    tlc -config PrivilegedJob.cfg MCPrivilegedJob
    tlc -config Supervisor.cfg Supervisor
    tlapm SessionProofs.tla; tlapm SessionQueueProofs.tla; tlapm SessionViewProofs.tla
    tlapm InfoLoaderProofs.tla; tlapm PrivilegedJobProofs.tla
    tlapm SupervisorProofs.tla; tlapm VersionDistanceProofs.tla
    tlapm PeerVerificationProofs.tla

## 1. Inventory of the system

| Part | Code | State it keeps | Operations |
|---|---|---|---|
| Lists and kinds | `model.go` 772-1046, 1570-1904 | kind, rows shown, lists retained per kind, query, sort order, the load in flight | cursor, search, sort and filter keys, kind switch, refresh, list and fleet results |
| Operations and queue | `model.go` 878-966, 1048-1103, 1330-1568 | the dialog, the running operation and verb, queue, batch counters, cancel reason | confirm, enqueue, start, start answers, job result, finish |
| Password dialog | `model.go` 1264-1328, 1427-1461 | field, request ID | request arrives, edit, submit, escape, wipe |
| Trust review | `model.go` 1105-1262 | package under review, provenance, error, command ID | review, provenance result, trust, trust result, abandon |
| Resize and quit | `model.go` 2104-2195 | terminal size, quitting mode, exit code | resize, begin and finish a quit |
| Size pass | `model.go` 1741-1819, `internal/brew/sizes.go` | sizes, pass ID | start, result |
| Supervisor | `model.go` 81-326, `cmd/lazybrew/main.go` | a cancel and a completion handle per command, the job, closing, cleanup error, exit code | register, clear, cancel all, cleanup after the loop |
| Snapshot file | `internal/ui/snapshot.go` | retained lists and sizes on disk | load at start, save |
| Information loader | `internal/info/loader.go` | generation, cache, current, active, pending, stopped | Select, Refresh, Complete, Cancel |
| Privileged job | `internal/privileged/privileged.go` | child, process group, endpoint, active request, cancelled/failed/timed out, result | Start, accept, handle a connection, respond, cancel, cleanup, Wait |
| Askpass protocol | `internal/privileged/protocol.go` | frames, private directory | helper exchange, endpoint creation and removal |
| Peer verification | `internal/privileged/peer_darwin.go` | process evidence | acquire, verify, recheck |
| Homebrew adapter | `internal/brew` | none | list, outdated, untrusted, info, trust, command resolution, version distance |
| Query, settings, theme, view, info text, logging | `internal/ui`, `internal/info/format.go`, `internal/logging` | a settings file | pure functions and I/O |

**How they interact.** `Update` is the only writer of the model and handles one
message at a time. Everything slow is a `tea.Cmd`: a goroutine that runs a Homebrew
process and returns one message, which may be handled any time later and in any order
with the others. IDs in the messages tell a current result from a superseded one. The
privileged job lives beside the loop in several goroutines; the model reaches it through
the `privileged.Job` interface, and an unbuffered channel brings its password requests.
The Supervisor is shared by `Update`, by those goroutines and by `main`, under a mutex.

**What is hard.** Results in any order, and handlers that depend on the mode they
arrive in; a job that starts, asks, ends or fails under whatever dialog the user has
open; cancellation that races success; resizes that close dialogs and cancel
operations; a quit that must await everything in flight; caches whose validity depends
on what happened since; a queue whose entries fail one by one. `PROJECT.json`
lists these hazards at their lines.

**What makes each part correct.** One brew at a time, the confirmed one, on the
package confirmed, and nothing after a cancel (operations); the pane equals what is
retained, which misses nothing and never outlives a change (lists); the field is
empty outside its dialog (password); no row shown as trusted that is not (trust); a quit
is final, completes and leaves nothing behind (quit, supervisor); one lookup at a time
and no stale text (loader); exactly one result, in bounded time, and no process or file
left (job); only the authentic helper gets the password (protocol, verification).

## 2. Modules

    SessionState  <-  SessionSteps  <-  Inventory, Operations, TrustReview
                                              \        |        /
                                                    Session  <-  SessionProperties  <-  MCSession
                                                       |               |
                                                       |       OperationQueue, LoaderContract,
                                                       |       JobSeries (INSTANCE)
                                                       |
                              SessionProofs  <-  SessionQueueProofs  <-  SessionViewProofs

    LoaderContract  <- (implements) -  InfoLoader  <-  InfoLoaderProofs

    JobSeries  ->  JobContract  <- (implements) -  PrivilegedJob  <-  PrivilegedJobProofs
                       |                                |
                       | (INSTANCE)               PeerJudgement  ->  PeerVerification
                  Supervisor                        |         |
                       |                 MCPrivilegedJob   PeerVerificationProofs
                  SupervisorProofs

    MCInventory  ->  MCSession, VersionDistance  <-  VersionDistanceProofs

* **SessionState** declares the state of one session: the fields of `model`, what the
  Supervisor shares, the commands in flight, the job as its interface shows it, and what
  lives outside the process (installed, outdated and untrusted packages, the snapshot
  file). `TypeOK` is split into one part per group of fields.
* **SessionSteps** has one operator per helper of `model.go`, under its name:
  `FinishOperation`, `DropQueue`, `WipePassword`, `InvalidateCaches`, `StartUninstall`...
* **Inventory** models the browsing half of `Update` (keys, list, size and information
  results), **Operations** the destructive half and the job, **TrustReview** the trust
  review. One action per handler or per outcome of a handler.
* **Session** adds what cuts across all three, `resize`, `beginQuit`, `New` and `Init`,
  and composes them into `Next`.
* **OperationQueue** is the abstract specification of the queue: entries run one at a
  time in the order confirmed, a waiting entry starts only as the successor of one that
  succeeded, and every other end drops what waits. Session is checked and proved to implement it
  (`ImplementsQueue`) under a mapping that reads the phase of the run off the job.
* **SessionProperties** states what a session promises; **MCSession** gives the
  constants their values.
* **InfoLoader** models `loader.go` completely and on its own. **LoaderContract** is what the session may
  rely on in it: one command at most, none started after `Cancel`. The loader is proved to keep it
  (`LoaderKeepsContract`), and what the session sees of the loader, `infoPending`, to be a run of it (`SessionUsesLoader`).

* **PrivilegedJob** models `privileged.go`: Start, `acceptLoop`, one `handleConnection` per
  connection, `waitChild`, `finish` with the stages of `cleanup`, each with a program counter, and
  beside them the interface, the Homebrew child and the askpass helpers of `protocol.go`.
* **JobContract** is what the `Job` and `Runner` interfaces promise: Start yields a job or nothing,
  one password request is open at a time, there is one result, and a result without a cleanup error
  means that nothing of the job is left. PrivilegedJob implements it (`ImplementsContract`, checked
  and proved).
* **JobSeries** is a session's jobs, one after the other: each is a job of JobContract, and the next begins only when the one before
  failed to start or ended cleanly. Session, which has its own shorter view of the job, is proved to be one (`SessionRunsJobs`).
* **Supervisor** models the `Supervisor` of `model.go`, its `Cleanup`, and `run()` of `cmd/lazybrew`, with as much of `Update`
  as calls it: the modes open and quitting, the quit that a resize takes back, and what is pending.
  Its jobs are an instance of JobContract, so what it shows rests on the contract and not on the
  details of the job: the two modules compose through it.
* **PeerVerification** has the pure part of `peer_darwin.go`: the walk from the peer to the tracked
  child, each link read from the process table of that moment, the second reading, and the decision. **PeerJudgement** puts it into
  the job: a handler that verifies its peer goes on or refuses as the evidence of some history of the process table says.
  **MCPrivilegedJob** gives the histories.
* **VersionDistance** has the pure part of `version.go` and of the outdated threshold. It touches no state: it is proved about, and
  **MCInventory** states the same of short versions as an assumption, which TLC evaluates before SessionInventory.

### Correspondence with the code

* *Selection.* Query, sort order and cursor are abstracted: any row of `rows` can be
  the selected one. Fields that only format (version, size, dependency) are absent.
* *IDs.* `loadID` is gone because `SingleLoad` shows that only one load is ever in
  flight; size and trust IDs are reduced to "current" and "superseded"; an operation keeps
  its number, and a password event carries it.
* *Reads.* A list command's result is read from the world when its message is handled,
  not when the process ran. Nothing changes the world in between
  (`NoReadDuringMutation`), except a late `brew trust`, which only takes marks away.
  A failed outdated or untrusted read yields unmarked rows, as in `loadPackages`; a fleet
  load reads both kinds or fails.
* *The job.* `jobPhase` goes idle, starting, live, finished. `RequestPassword` needs
  `eventWaiter`, because the events channel is unbuffered. `m.verb` is read when Start
  runs, in the goroutine, exactly as the code does. A result other than success may come
  before or after brew did its work. Cancellation is a latch; a resize that can only cancel
  the start context (`m.job` is still nil) may lose against a child that ended first.
* *Fit checks.* `confirmationFits`, `upgradeAllFits` and `trustReviewFits` become
  constants that say which packages and modals fit which terminal size.
* *Ends.* `tea.Quit` is the end of the session. What `main` does afterwards is in Supervisor.
* *Steps of the job.* A step runs from one point at which another goroutine can notice it to the next.
  `Cancel` and `failAuthentication` set a flag under the mutex, cancel the context and close the listener
  in a row; the model does the three at once. `RespondPassword` is three steps (claim, write, free the
  slot), and Update stays inside it meanwhile. The exchange of a connection is `live` and `active` as in
  the code; `request` and `reply` remember what was verified, shown and answered.
* *Cleanup.* The remaining time is not counted. Every wait may succeed or give up, at any moment, so all
  combinations of passed deadlines are covered. A signal to the group that fails shows only in an error that
  is reported anyway; one to the direct child does not fail. `problem` is "some error was collected".
* *Processes.* sudo runs its helpers one after the other. A helper whose sudo has died makes no new
  connection. `knownProcessesGone` asks once; a survivor or a process not yet reaped is an error.
* *Supervisor.* Two kinds of read commands are told apart: a list, of which there is one at a time, and a size
  pass, which may supersede the one before it; trust and lookup handles follow the same two patterns. Each
  critical section is a step, each await its own. `late` is the expiry of the twenty seconds of `main`, `Crash` an
  error of the Bubble Tea program at any moment. `Unquit` is the resize of section 5: it may end an operation nobody has cancelled
  or a dialog, and gives the model an ordinary mode while `closing` stays set. Which dialogs and sizes allow it is not modelled, so
  it may happen in any quit, and what follows may begin anything: it is cancelled at once and gets no handle (`disowned`, `opDisowned`).
  `QuitMsg` is a message of its own, so that a resize may come between `finishQuit` and the end.
* *Evidence.* A process is its parent, its group, and a shape: this program, a sudo with or without `-A`, a
  process that hides its arguments, another one, or one that cannot be read. The loaded path, the code identity and
  the socket's user stand behind "this program". A history is a table and, per process, the reading before which it exits; launchd adopts
  its children, and nothing of it can be read. Each link of the walk is a reading, and so are the three at its end: peer, sudo and child
  are read again, the links between are not. That a process number is given to another process meanwhile is left out.
* *Versions.* A version is its dotted parts and what follows the underscore; `MaxInt` stands for the largest
  int64, and a part beyond it is no number. Signs are read, as `strconv.ParseInt` reads them.
* Operators ending in `Flawed` are used by nothing: each is the form a plausible bug
  would give the definition it precedes, and shows that a property notices it.

## 3. Runs

| Run | Instance | What it shows |
|---|---|---|
| SessionQueue | two casks, three operations, two password requests, one size | `TypeOK`; `SerialMutation`; `NoDuplicateWork`; `JobIsTheOperation`; `ModeMatchesRun`; `PasswordContained` |
| SessionResize | two outdated casks, four sizes, queue and upgrade-all, two operations, one request | `ImplementsQueue`; `BatchAccounting`; `ClaimIsTrue`; `NoReadDuringMutation`; `NothingFollowsFailedCleanup` |
| SessionInventory | a cask and a formula, failing side reads, lookups, one uninstall | `PaneShowsRetained`; `RetainedIsComplete` |
| SessionTrust | two untrusted casks, four sizes, empty or seeded start, snapshot written | `TrustedRowsAreTrusted`; `TrustFollowsReview`; `TrustClearsOnlyTheMark`; `SingleLoad`; `SnapshotFollows` |
| SessionQuit | two casks, one of them lazybrew, everything in flight, fairness | `QuitLeavesNothing`; `CleanupFailureReported`; `QuitIsFinal`; `QuitCompletes`; `CancelCompletes`; `PasswordDialogCloses` |
| InfoLoader | three packages, two refreshes | `TypeOK`; `OneCommand`; `NeverStale`; `LoadingIsLoading`; `SelectionAnswered` |
| PrivilegedJob | two askpass helpers; process tables of four processes, up to two of which exit | `TypeOK`; `RequestIsServed`; `SuccessIsReal`; `SilentCleanup`; `ImplementsContract`; `WorkersEnd`; `OnlyHelpersAreServed`; `HelperIsServed` |
| Supervisor | two operations, a list, two size passes, every way to end, a quit taken back | `CleanupIsComplete`; `LeftoversAreCancelled`; `ExitIsHonest` |

The last two, in words. *PrivilegedJob*: however answer, limit, escape, quit, a vanished peer and the
child's end interleave, the request that can be answered is the one its handler serves and the slot is never
left to a handler that has gone (`RequestIsServed`); no cleanup error means nothing is left (`SilentCleanup`); once the context is
cancelled all workers end, although the interface may have stopped receiving (`WorkersEnd`). `SuccessIsReal` is about the step that makes
the result final: what it reports as Homebrew's own, a success or its error, is that of a job no `Cancel`, refused helper or limit had
stopped, not even during the cleanup. The context given to `Start` is no such stop: if it is cancelled and the child has ended with success,
`finish` may see the child first (`privileged.go` 351) and reports the success, which is what the child did.

`OnlyHelpersAreServed`: over every ancestry, grouping and shape of four processes, and over any one or two of a helper's processes that exit
between any two readings, nobody reaches the password dialog but this job's helper, still there, with its sudo and the child, when it was
read again. The reference (`Ours`, `Kept`) knows no walk: it looks at the set of ancestors and at the times of the exits. A link between sudo
and the child may be gone by then and its children adopted; the code does not look again, and such a peer counts as a helper that was
`disturbed`. `HelperIsServed`: one that nothing happens to is let through, at the limit of the walk too, unless the job has been
cancelled. One that is `disturbed` may be refused.

*Supervisor*: after a Cleanup without error nothing runs but a superseded read that was cancelled, and what began under a Supervisor
that a taken-back quit had closed, if the program ended while it was still awaited; whatever outlives
the program has been told to stop; an unclean job of this or an earlier operation makes the exit status 1, and a crash is
never a success. The exceptions for a taken-back quit are in the properties themselves (`StartIsLost`, `ReadIsLost`): `finishQuit`
waits for what is pending whether it has a handle or not, so they concern a program that failed, or one whose `QuitMsg` was overtaken
by a resize and a new start.
*NothingFollowsFailedCleanup*: a resize can take back the quit that a failed cleanup asked for, and the operation on screen still
keeps every later start away.

**Bounds and why they are enough.** `MaxOps` bounds how many operations are confirmed:
three are a running entry, its successor and one behind that. `MaxRequests` is the number of
password prompts: with two, one arrives while the dialog of another is open or just gone.
Two packages give two different entries, and one package with both verbs gives two more.
The terminal sizes are the four classes the code can tell apart here: before the first size
message, too small to draw, room for the dialogs of one package only, room for everything.
Three packages in the loader are current, active and pending; two refreshes make a result
two generations old. Two helpers are an exchange and sudo's retry, which may meet before the first is over; the
proofs cover any number. Four processes are the helper, the child and two that may stand between them, one of
which is sudo; the code's limit of 64 links is `Limits`, here 3 and 4, so that chains fall on both sides of it. Two operations put
a job behind the handle of an ended one, which is what the flag of a recorded result can confuse; two size passes are
one and the one it supersedes; of lists there is one at a time, and one is enough to be lost. The exits of two of a helper's processes
fall before, between and after all of its readings. `Keys` keeps each run to the keys its question needs, so that everything
that may interleave does. Counters (operations, requests, generations) are bounded by
guards and by nothing else; no run uses a state constraint. Deadlock is checked in every
run of the session and the loader: a session can always receive a key or ends in `Terminated`. A job and the program
itself do end, so it is not in PrivilegedJob and Supervisor.

**A property can hold in one run and fail in another.** `QuitIsFinal` holds on one terminal
size and is refuted with resizes; so is `PasswordContained`. `RetainedIsComplete` is checked for
sessions without a snapshot, `TrustClearsOnlyTheMark` for sessions without an operation.
Section 5 says why. The theorems of section 4 draw the line: what holds in every session is proved
without hypotheses, and each of these under a named one (`Undisturbed`, `Steady`, `Calm`, `FirstSession`, or
`ReadsAnswer` with `SnapshotsAreCautious`) that leaves out the step which breaks it.

**Fairness** (`FairSpec`). Nothing is assumed of the user, nor of a brew or a du nobody cancels: `startList`, `startSizes`, the trust
commands and the loader run them under a context without a deadline, and one that hangs keeps the model waiting. Weak fairness is on the
results of list, size, information and trust commands once `closing` holds, that is once the Supervisor has cancelled them: a
cancelled command is killed, its pipes are abandoned after a delay, and Bubble Tea delivers its message. It is on the handling of what the job
says (`JobMessage`), on Start's answer, which waits for no brew, and on `RequestTimesOut`: `handleConnection` arms a
five-minute timer. And on the end of a *cancelled* job: `cleanup` escalates from SIGTERM to SIGKILL within its deadline.
So `CancelCompletes` says that a cancelled operation ends or waits for nothing but the list that reports what it did all the same, which
nobody has cancelled. That a load ends is not stated: the code does not see to it.

The loader is the same: its fairness is of the lookup of a loader that was stopped (`stopped /\ CompleteAny`).
`SelectionAnswered` is conditional: *if* no lookup hangs (`NoneHangs`, for each request infinitely often not running), a
selection that stays gets its text, through supersession, refresh and cache; the finitely many refreshes are `MaxGeneration`.

In PrivilegedJob each goroutine is scheduled: Start, the accept loop, every handler, `waitChild`, `finish` and Update. The
handlers' timers and deadlines expire, which is why their steps may be taken at any time. A child that was sent SIGKILL ends. Nothing
is assumed of the keys, of the helpers, or of a child left alone; `WorkersEnd` needs none of it. Supervisor has safety properties
only and no fairness.

## 4. Proofs

**Session** (`SessionProofs`, `SessionQueueProofs`, `SessionViewProofs`), for any packages, any terminal sizes and fit
tables, any snapshots, any number of operations and requests. The inductive invariant is
`IInv == TypeOK /\ Lifecycle`. None of the properties is inductive alone: that no load overlaps a
job depends on where loads and jobs can start, and this on what the handles say. `Lifecycle`
adds exactly that:

* `HandlesFollowJob`: `startPending`, `jobHeld` and `jobPending` as functions of the job's phase;
* `JobHasOperation`: a start or a job belongs to an operation, so `jobRunning` guards cover it;
* `LoadIsAlone`: one load at most, described by `loading` and its purpose, and under an operation
  only the reload that ends it, when no job is left;
* `BatchAwaitsNoJob`: an open upgrade-all dialog is never over a running job;
* `JobIsTheOperation`: itself a conjunct.

`SessionProofs` proves first that every action preserves the types, one lemma per group of
handlers, and then that it preserves the lifecycle, from five lemmas about the only steps
that can disturb it (a load starts or ends, an operation starts, a job ends, a quiet step). From
`SessionInvariant` follow `SessionTypeCorrect`, `ReadsNeverOverlapMutation`,
`LoadsNeverOverlap`, `JobStaysTheOperation`, and `MutationsNeverOverlap`, an action property.

**The queue** (`SessionQueueProofs`). On top of `IInv`, `RunInv` adds two invariants:

* `QueueInv`: nothing waits without a run or behind the reload that ends it; a dialog that is open asks for work that neither runs
  nor waits, and a batch dialog for each package once; no work twice. `NoDuplicateWork` needs the dialogs, because an entry is
  appended without a second look at the queue: what the dialog asked for when it opened must still be new when it is confirmed;
* `BatchInv`: what is confirmed is what is done, runs and waits, and the history has one success more than the counter exactly while a
  result is unheard. `BatchAccounting` needs that a batch cannot be added to, that a run that is not being quit has work left to end
  it, and that only the reload of a batch reads both kinds.

`StepsOfRun` splits every step into those that leave the run alone (`Quiet`) and a dozen that do not (`Loud`); each lemma treats one
kind. From `RunInvariant` follow `WorkIsNeverDuplicated`, `BatchesAddUp` and `SessionImplementsQueue`, the refinement:
every quiet step stutters and every loud one is a step of OperationQueue under the mapping. `ClaimsAreTrue` has an invariant of
its own, `ClaimInv`: a success is in the history from the moment the job reports, the history is true of the world, and the retained list
bears the claim out as the pane does, because a display key may bring that list back while the claim is up.

**The view and the end** (`SessionViewProofs`).

* `ExitInvariant`: `sizesPending` and `trustPending` say exactly which command is current. `finishQuit` trusts these flags, and
  without it an exit could leave a command behind. `QuitLeavesNothingBehind`, `CleanupFailuresAreReported`.
* `SnapshotIsRetained`: every step that adds to what is retained writes it down.
* `ModeInvariant`: a run on screen runs, a password dialog has a job that can be answered, a review is over a pane nothing loads.
* `PaneIsRetainedList`, from `PaneInv`: what is not retained has no list, and what is loading is not retained yet.
* `ShownTrustIsReal`, from `MarksAreKept`: stated of every list, so that it also covers one that is retained by the edit alone.
* `OnlyResizeUnquits`: in any session nothing but a resize takes a quit back. ResizeUnquits shows that one does.
* `OrderlyInvariant`: as long as no resize drops a dialog that another mode left behind, or a run that is being quit, a trust command has
  its review on screen, a run one of the modes that accept its events, and a closed dialog a wiped field. The condition is one on steps
  (`Undisturbed`), and each of the resizes it admits is shown to be one of four harmless kinds (`OrderlyResize`). From it
  `QuitsAreFinal`, `ModesMatchRuns`, `PasswordsAreContained`.
* `BrowsingInvariant`: on any terminal but without operations, a dialog is closed by the key or resize that ends it, so it is never open
  beside a review, a load or another dialog. With either, `TrustHasReview` and, if no resize cancels a reload, `PaneInvariant`: between
  loads the pane is empty or the retained list, and a review is of a row of it. From it `TrustTakesOnlyTheMark` and, for a first session, `RetainedListsAreComplete`.

The hypotheses, and what goes wrong without them:

| Hypothesis | Says | Without it |
|---|---|---|
| `Undisturbed` | no resize drops a dialog another mode left behind, or a run that is being quit | such a resize takes back a quit, leaves a password in its field, or moves the mode under a run (ResizeUnquits, PasswordSurvivesResize, section 5) |
| `Steady` | `Undisturbed`, or no operations (`MaxOps = 0`) | a dialog left behind by a failed start drops the review of a running `brew trust` (section 5) |
| `Calm` | `Undisturbed` and no reload cancelled by a resize, or no operations | a cancelled reload leaves rows with no retained list, and trusting one of them empties the pane (section 5) |
| `FirstSession` | no snapshot was read | a startup load that fails empties the pane over a list that stays retained; a package installed since is missing from an old list |
| `ReadsAnswer` | no read of the untrusted packages fails | `loadPackages` shows its rows unmarked |
| `SnapshotsAreCautious` | no snapshot lacks a mark the world has | the snapshot of a world that has changed is shown as it was |

The first three speak of the steps a session takes and not of its constants, so that a terminal of any sizes meets them until the step in
question. Each follows from a constant condition: `RoomyIsCalm` proves that all three hold in every session of a terminal with room for
every dialog (`Roomy`). SessionQueue, SessionInventory and SessionQuit are `Roomy`; SessionTrust has no operations, four sizes and one cautious
snapshot; SessionInventory is a `FirstSession`. So the hypotheses of each theorem are met by the run that checks its property.

**The session on its contracts** (end of `SessionViewProofs`). `SessionUsesLoader`: every step starts a lookup, takes its answer, stops the
loader, or leaves `infoPending` alone (`LookupSteps`). `SessionRunsJobs`: under the mapping of SessionProperties every step is a step of
JobSeries or stutters. It needs `JobsInv`: a job that has not begun has asked nothing, one that ended has its result, and after a failed
cleanup the operation stays on screen, which is what keeps every later start away: no handler looks at the cleanup error. The same invariant
gives `NothingAfterFailedCleanup`: although a resize may take back the quit, no operation follows.

**InfoLoader** (`InfoLoaderProofs`), for any set of packages and any number of refreshes:
`LoaderTypeCorrect`, `AtMostOneCommand`, `TextNeverStale`, `LoadingAlwaysRequested`. The
strengthening says that cached texts are of the current generation, that an idle loader has
nothing pending, and what the text on screen is. `LoaderKeepsContract` is the refinement of LoaderContract.

**PrivilegedJob** (`PrivilegedJobProofs`), for any set of askpass helpers: `JobTypeCorrect`, `SlotFollowsOwner`,
`SuccessIsHomebrews`, `CleanupIsHonest` and `JobKeepsContract`. The inductive invariant `IInv` has four parts:

* the types;
* `ExchangeInv`: `RequestIsServed`, and what makes it inductive: a handler at work holds the slot or was answered, what was
  verified and what was shown agree with where the handler is, and a connection in the accept loop's hand is nobody else's;
* `CleanupInv`: which stages of Start, `waitChild` and `finish` go together, that the endpoint's files exist until the end, that
  what a stage of the cleanup observed still holds (an empty group stays empty, ended workers stay ended), and that a clean result was
  final only with all of it;
* `Received`: the interface hears of requests only once Start has returned.

`JobKeepsContract` is the refinement: every step is a step of JobContract or leaves its variables alone. Most steps change none of
them but `remains`, which after the end can only become false (`RemainsOnlyShrinks`); the others are Start's, the showing and the
withdrawal of a request, and the result. It is why Supervisor may use the contract in the job's place.

**Supervisor** (`SupervisorProofs`), for any number of operations and of commands: `SupervisorTypes`, `CleanupLeavesNothing`,
`LeftoversWereCancelled` and `ExitStatusIsHonest`. Beside the types, `IInv` (`SupervisorInvariant`) says:

* `OperationInv`: a start that runs has its handle, unless it began under a closed Supervisor and was cancelled then; a job has its
  goroutine and its handle from the moment `setJob` registered it; a
  goroutine past `finishJob` has counted its job's cleanup error; and an interface that can start an operation has none behind it
  that ended, or may yet end, uncleanly. The last is why an unclean end is always the current operation's (`UncleanIsCurrent`);
* `ReadsInv`: commands are numbered in order, and only the latest of a kind is pending; its handle is that of the one pending, unless
  one of its kind began under a closed Supervisor; one that runs without a handle was cancelled, and is superseded or still pending;
* `Told`: what has a handle was cancelled once the Supervisor is closed;
* `CleanerInv`: what each stage of Cleanup has cancelled and awaited. That the job is read again only matters because a start awaited
  in between may have registered one; after that no start is left to register another (`Awaited`).

The job appears only as JobContract, so that these theorems hold of the real one by `JobKeepsContract`.

**VersionDistance** (`VersionDistanceProofs`), for versions of any length: `ThresholdHidesNoUpdate`, from two lemmas about the
distance, that it is symmetric and that the larger of two steps bounds both together; and `TrailingZerosAreIgnored`, because a missing
segment is read as the zero that stands there. No run has a property of the versions: there is no state to relate them to.

**PeerVerification** (`PeerVerificationProofs`): `VerificationIsExact`, for every finite process table, every limit of the walk and any exits between
its readings. The argument has two halves. *While nobody exits* (`FrozenIsExact`) the walk and the set of ancestors it is judged by, both
recursive functions, are compared with the *ascent* from the peer, the sequence of parents up to the tracked child or launchd: the walk is a
readable stretch of it that meets nobody twice, and the set is all it meets. Within as many steps as there are processes the ascent has met
everything it ever meets, because one that repeats a process before the child never reaches it. *While processes exit* a
walk that reaches the child is the walk of the table as it stood at the beginning, link by link (`ReadEarlier`,
`WalkFades`): an adopted process leads to launchd and never to the child, so each link it reports was already there. Its three last readings
then place the exits of peer, sudo and child behind themselves (`AcceptedIsKept`). The inductions are over numbers and need no theorem with an
operator parameter: a set of naturals that is not empty has a least element (`LeastNumber`, from the well-foundedness of `<`), and
`Induction`, `IntervalInduction` and `Recursion` (a recursive function over an interval exists) are stated with sets and functions.

With it the composed job: `JudgedJobIsJob` (its steps are steps of PrivilegedJob, so every theorem above holds of it), `OthersAreNeverServed`, by
an invariant over the handlers and what their peers are, and `HelpersAreServed`, which needs more than the verification: no
request may hold the slot when a helper is accepted, and that is part of `ExchangeInv`.

The assumptions are the named `ASSUME`s of SessionState, InfoLoader, PrivilegedJob, Supervisor, PeerVerification and VersionDistance: the nil values
are not packages, connections, results, processes or numbers, packages and processes are finite, tables have the shape their comments say.

Only model-checked: the liveness properties (`QuitCompletes`, `CancelCompletes`, `PasswordDialogCloses`,
`SelectionAnswered`, `WorkersEnd`), which rest on fairness and ENABLED. Every other property of a passing run is stated by a theorem.

## 5. Where the code and its documentation disagree

Four runs each check one property that a comment or document states, and TLC refutes it.

* **ResizeUnquits** (`QuitIsFinal`). `beginQuit` keeps an open confirmation. When the terminal
  then shrinks, `resize` closes it and sets the mode to normal or operation, even out of
  quitting: the quit is forgotten, under a supervisor that cancels whatever starts.
* **StartsAfterCancel** (`NothingStartsAfterCancel`). The job has succeeded, its result is not
  handled yet; a resize cancels the run, another makes room again; `handleJobResult` starts the
  next entry without looking at `cancelReason`.
* **PasswordSurvivesResize** (`PasswordContained`). A job ends under an open enqueue dialog and the
  next entry starts: the confirmation stays pending without a dialog. A password dialog opens and is
  typed into; a narrower terminal makes `resize` drop the forgotten confirmation and leave the password
  dialog, without wiping its field.
* **CommittedRetained** (`CommittedIsForgotten`). A queue whose first entry uninstalled a package and
  whose second failed ends without `invalidateCaches`: the package stays listed until a refresh.

Further disagreements of the same kind, which the modules exhibit and no run states:

* a confirmation outlives its dialog when a job ends under it (`model.go` 1449-1450 says "a half-confirmed
  destructive entry must never survive a mode hijack");
* a dialog that a failed start leaves behind may outlive the next trust review's opening: a resize then drops it and sets the mode to
  normal under the review, whose command stays current; an operation can be started, and when the review's details arrive and do not fit,
  `cancelTrust` sets the mode to normal under the running job, whose password request is then rejected and the job cancelled (`model.go` 697-709,
  "every key that could ... leave modeOperation is dead");
* a size pass superseded by a refresh is cancelled but awaited by nobody, its handle being overwritten
  (`SPEC.md` criterion 24);
* what begins after a resize took back a quit is cancelled at once but gets no handle: if the program then fails, `Cleanup` returns without
  an error while a load, a size pass or a start may still be ending (`StartIsLost` and `ReadIsLost` in Supervisor; `SPEC.md` section 13, "the
  caller invokes the same cancellations and boundedly awaits those completion handles");
* a size result between a refresh and its list writes a snapshot without lists (`snapshot.go` 82-84,
  "Only call sites holding fresh data call it");
* the kind that is not loaded at startup is served from the old snapshot until a refresh
  (`snapshot.go` 14-16, "the startup loads still run and replace it");
* after a reload that a resize cancelled, the rows on screen have no retained list; trusting one of them
  retains, persists and shows an empty list (`SPEC.md` section 4);
* an escape in the password dialog can end as an authentication failure and not as a cancellation, when another helper is being
  read or verified at that moment or its peer check notices the helper's death first (`SPEC.md` section 4, "eventually show
  `Uninstall cancelled`");
* sudo's next askpass is refused, and the operation fails, while neither `RespondPassword` nor the handler has yet freed the slot of
  the answered connection (`SPEC.md` section 10, Retry, "If sudo invokes askpass again, show a fresh dialog");
* `knownProcessesGone` asks once and takes a process that has ended but is not reaped, or that it may not signal, for a survivor:
  a run that left nothing alive can end with a cleanup error;
* changing the theme saves settings made of the theme alone and drops the threshold of the file (`model.go` 804);
* `parseVersion` reads "+1" and "-1" as segments (`version.go` 30-32, "any segment ... that is not plain digits makes the whole
  pair Unknown").

## 6. Plan

Done: the session, the loader, the privileged job, the supervisor, peer verification and version distance; the contracts between them; every
safety property of the runs proved. Left: algorithms over bounded inputs, the query, `setPackages` and its sort orders, the frame codec,
`BumpOffset`, and what a rewrite of the settings preserves.

## 7. Not modelled, and why

Rendering, themes, formatting of `brew info`, parsing of Homebrew's output, logging: presentation and text, with no
state the properties relate. System calls: how process evidence is obtained, core-dump limits, the permissions of the private
directory. The bytes of a frame and the helper's recognition of itself: formats. Failed or partial writes of the
snapshot: the code ignores them, and the file is then as old as before. The closing of the events channel: the handler ignores
the message. Query, sort orders, settings: see the plan.
