---------------------------- MODULE PrivilegedJob ----------------------------
(***************************************************************************)
(* internal/privileged: one Homebrew mutation in a process group of its    *)
(* own, and the exchange in which sudo's askpass helper obtains the        *)
(* administrator password from the interface.                              *)
(*                                                                         *)
(* The goroutines of the job are processes with a program counter: Start,  *)
(* acceptLoop, one handleConnection per connection, waitChild and finish;  *)
(* so are the interface (internal/ui), the Homebrew child and one helper   *)
(* per connection.  A step runs to the next point at which another process *)
(* can notice it; setting the flags, cancelling the context and closing    *)
(* the listener, which Cancel and failAuthentication do in a row, is one.  *)
(***************************************************************************)
EXTENDS Naturals, FiniteSets

CONSTANTS
  Conns,      \* askpass helpers, and the connection each one makes
  NoConn,     \* no request, no connection
  NoResult    \* the job has not ended

ASSUME ConnsAssumption ==
  /\ NoConn \notin Conns
  /\ Conns \cap {"off", "accepting", "ended", "none", "waiting"} = {}

VARIABLES
  starter,    \* Start
  listening,  \* the endpoint's listener is open
  files,      \* its directory, socket and helper link exist
  ctxDone,    \* the job's context is cancelled
  cancelled, authFailed, authTimedOut,
  acceptor,   \* acceptLoop: off, accepting, the connection in hand, ended
  handler,    \* handleConnection, per connection
  request,    \* per connection: none, verified, shown to the interface
  reply,      \* per connection: none, password, refusal, lost in the writing
  live, active,
  waiter,     \* waitChild
  finisher,   \* finish and cleanup
  groupGone,  \* cleanup's local of that name
  problem,    \* cleanup has collected an error
  result,     \* the result, once it is final
  child,      \* the direct child: none, running, its exit status
  helper,     \* per connection: idle, dialled, sent, ended
  ui,         \* what Update is doing: starting, operating, password, ...
  dialog,     \* the request of the password dialog
  mail,       \* waitJobEvent: none, waiting, or the request it received
  stopped     \* cancelReason is set

Results == [failed: BOOLEAN, cancelled: BOOLEAN, authFailed: BOOLEAN,
            authTimedOut: BOOLEAN, cleanupErr: BOOLEAN]
ASSUME ResultAssumption == NoResult \notin Results

latches == <<cancelled, authFailed, authTimedOut, ctxDone, listening>>
exchange == <<handler, request, reply, live, active>>
finishVars == <<finisher, groupGone, problem, result>>
uiVars == <<ui, dialog, mail, stopped>>
vars == <<starter, files, acceptor, waiter, child, helper, latches, exchange, finishVars, uiVars>>

(* Every variable holds what the code's fields and the processes can be.   *)
TypeOK ==
  /\ starter \in {"setup", "spawn", "arm", "abort", "failed", "started"}
  /\ listening \in BOOLEAN /\ files \in BOOLEAN /\ ctxDone \in BOOLEAN
  /\ cancelled \in BOOLEAN /\ authFailed \in BOOLEAN /\ authTimedOut \in BOOLEAN
  /\ acceptor \in {"off", "accepting", "ended"} \cup Conns
  /\ handler \in [Conns -> {"none", "reading", "verifying", "offering", "waiting",
                            "closing", "ended"}]
  /\ request \in [Conns -> {"none", "verified", "shown"}]
  /\ reply \in [Conns -> {"none", "password", "refusal", "lost"}]
  /\ live \in Conns \cup {NoConn} /\ active \in Conns \cup {NoConn}
  /\ waiter \in {"off", "waiting", "done"}
  /\ finisher \in {"off", "select", "observe", "reap", "regroup", "workers", "close", "done"}
  /\ groupGone \in BOOLEAN /\ problem \in BOOLEAN
  /\ result \in {NoResult} \cup Results
  /\ child \in {"none", "running", "ok", "error"}
  /\ helper \in [Conns -> {"idle", "dialled", "sent", "ended"}]
  /\ ui \in {"starting", "operating", "password", "writing", "settling", "gone"}
  /\ dialog \in Conns \cup {NoConn}
  /\ mail \in {"none", "waiting"} \cup Conns
  /\ stopped \in BOOLEAN

Init ==
  /\ starter = "setup" /\ listening = FALSE /\ files = FALSE
  /\ ctxDone = FALSE /\ cancelled = FALSE /\ authFailed = FALSE /\ authTimedOut = FALSE
  /\ acceptor = "off" /\ handler = [c \in Conns |-> "none"]
  /\ request = [c \in Conns |-> "none"] /\ reply = [c \in Conns |-> "none"]
  /\ live = NoConn /\ active = NoConn
  /\ waiter = "off" /\ finisher = "off" /\ groupGone = FALSE /\ problem = FALSE
  /\ result = NoResult
  /\ child = "none" /\ helper = [c \in Conns |-> "idle"]
  /\ ui = "starting" /\ dialog = NoConn /\ mail = "none" /\ stopped = FALSE

----------------------------------------------------------------------------
(* Workers are acceptLoop, the handlers and waitChild (startWorker);       *)
(* workersDone closes when the last of them has finished.                  *)
WorkersDone ==
  /\ starter \in {"started", "abort"} /\ acceptor = "ended" /\ waiter \in {"off", "done"}
  /\ \A c \in Conns : handler[c] \in {"none", "ended"}

Alive(c) == helper[c] \in {"dialled", "sent"}
GroupEmpty == child # "running" /\ \A c \in Conns : ~Alive(c)
Closed(c) == handler[c] = "ended" \/ reply[c] # "none"

(* Cancel and CancelPassword, failAuthentication.                          *)
Latch == cancelled' = TRUE /\ ctxDone' = TRUE /\ listening' = FALSE
CancelJob == Latch /\ UNCHANGED <<authFailed, authTimedOut>>
FailAuthentication == authFailed' = TRUE /\ Latch /\ UNCHANGED authTimedOut
TimeAuthenticationOut == authTimedOut' = TRUE /\ Latch /\ UNCHANGED authFailed

(* clearAndRespond: only who still finds the request active replies.       *)
ClearAndRefuse(c) ==
  IF active = c THEN active' = NoConn /\ reply' = [reply EXCEPT ![c] = "refusal"]
                ELSE UNCHANGED <<active, reply>>

----------------------------------------------------------------------------
(* Start: endpoint, helper link, environment and command; then the accept  *)
(* loop and the child.  What fails is undone or reported as not undone.    *)
StartFrame == UNCHANGED <<cancelled, authFailed, authTimedOut, exchange, groupGone,
                          problem, result, helper, uiVars>>
Prepare ==
  /\ starter = "setup"
  /\ \/ starter' = "spawn" /\ acceptor' = "accepting" /\ listening' = TRUE /\ files' = TRUE
     \/ starter' = "failed" /\ files' \in BOOLEAN /\ UNCHANGED <<acceptor, listening>>
  /\ UNCHANGED <<ctxDone, waiter, finisher, child>> /\ StartFrame

Spawn ==
  /\ starter = "spawn"
  /\ \/ starter' = "arm" /\ child' = "running" /\ UNCHANGED <<ctxDone, listening>>
     \/ starter' = "abort" /\ ctxDone' = TRUE /\ listening' = FALSE /\ UNCHANGED child
  /\ UNCHANGED <<files, acceptor, waiter, finisher>> /\ StartFrame

Abort ==
  /\ starter = "abort" /\ WorkersDone
  /\ starter' = "failed" /\ files' \in BOOLEAN
  /\ UNCHANGED <<ctxDone, listening, acceptor, waiter, finisher, child>> /\ StartFrame

(* processReady, waitChild, armWorkers, finish.                            *)
Arm ==
  /\ starter = "arm"
  /\ starter' = "started" /\ waiter' = "waiting" /\ finisher' = "select"
  /\ UNCHANGED <<ctxDone, listening, files, acceptor, child>> /\ StartFrame

----------------------------------------------------------------------------
(* acceptLoop.                                                             *)
AcceptFrame == UNCHANGED <<starter, files, waiter, child, helper, request, reply, active,
                           finishVars, uiVars>>
Accept(c) ==
  /\ acceptor = "accepting" /\ listening
  /\ helper[c] # "idle" /\ handler[c] = "none"
  /\ acceptor' = c
  /\ UNCHANGED <<latches, handler, live>> /\ AcceptFrame

AcceptEnds ==
  /\ acceptor = "accepting" /\ ~listening
  /\ acceptor' = "ended"
  /\ UNCHANGED <<latches, handler, live>> /\ AcceptFrame

(* A connection while another is served is closed and fails the job.       *)
Admit(c) ==
  /\ acceptor = c /\ acceptor' = "accepting"
  /\ IF live = NoConn /\ active = NoConn
     THEN live' = c /\ handler' = [handler EXCEPT ![c] = "reading"] /\ UNCHANGED latches
     ELSE /\ handler' = [handler EXCEPT ![c] = "ended"] /\ FailAuthentication
          /\ UNCHANGED live
  /\ AcceptFrame

----------------------------------------------------------------------------
(* handleConnection.                                                       *)
At(c, from, to) == handler[c] = from /\ handler' = [handler EXCEPT ![c] = to]
HandlerFrame == UNCHANGED <<starter, files, acceptor, waiter, child, helper, finishVars>>

(* readRequest: the whole frame and the end of the stream in two seconds.  *)
ReadRequest(c) ==
  /\ helper[c] = "sent" /\ At(c, "reading", "verifying")
  /\ UNCHANGED <<latches, request, reply, live, active, uiVars>> /\ HandlerFrame

ReadFails(c) ==
  /\ helper[c] # "sent" /\ At(c, "reading", "closing") /\ FailAuthentication
  /\ UNCHANGED <<request, reply, live, active, uiVars>> /\ HandlerFrame

(* Evidence is acquired and verified once Start has published the child;   *)
(* a dead peer has none.                                                   *)
Refuse(c) ==
  /\ starter = "started" /\ At(c, "verifying", "closing") /\ FailAuthentication
  /\ reply' = [reply EXCEPT ![c] = "refusal"]
  /\ UNCHANGED <<request, live, active, uiVars>> /\ HandlerFrame

Verify(c) ==
  /\ starter = "started" /\ Alive(c)
  /\ IF cancelled \/ active # NoConn
     THEN /\ At(c, "verifying", "closing") /\ reply' = [reply EXCEPT ![c] = "refusal"]
          /\ UNCHANGED <<request, active>>
     ELSE /\ At(c, "verifying", "offering") /\ active' = c
          /\ request' = [request EXCEPT ![c] = "verified"] /\ UNCHANGED reply
  /\ UNCHANGED <<latches, live, uiVars>> /\ HandlerFrame

(* The event is handed to waitJobEvent; the other arm of the select, and   *)
(* one of the loop's, is the context.                                      *)
Offer(c) ==
  /\ mail = "waiting" /\ mail' = c
  /\ At(c, "offering", "waiting") /\ request' = [request EXCEPT ![c] = "shown"]
  /\ UNCHANGED <<latches, reply, live, active, ui, dialog, stopped>> /\ HandlerFrame

Dropped(c) ==
  /\ ctxDone /\ (At(c, "offering", "closing") \/ At(c, "waiting", "closing"))
  /\ ClearAndRefuse(c)
  /\ UNCHANGED <<latches, request, live, uiVars>> /\ HandlerFrame

(* The timer, the peer check, and r.done.                                  *)
TimesOut(c) ==
  /\ At(c, "waiting", "closing") /\ ClearAndRefuse(c)
  /\ IF active = c THEN TimeAuthenticationOut ELSE UNCHANGED latches
  /\ UNCHANGED <<request, live, uiVars>> /\ HandlerFrame

PeerGone(c) ==
  /\ ~Alive(c) /\ active = c /\ At(c, "waiting", "closing")
  /\ ClearAndRefuse(c) /\ FailAuthentication
  /\ UNCHANGED <<request, live, uiVars>> /\ HandlerFrame

Answered(c) ==
  /\ reply[c] # "none" /\ At(c, "waiting", "closing")
  /\ UNCHANGED <<latches, request, reply, live, active, uiVars>> /\ HandlerFrame

(* The deferred function.                                                  *)
CloseFlawed(c) ==
  /\ At(c, "closing", "ended")
  /\ UNCHANGED <<latches, request, reply, live, active, uiVars>> /\ HandlerFrame
Close(c) ==
  /\ At(c, "closing", "ended") /\ live' = IF live = c THEN NoConn ELSE live
  /\ UNCHANGED <<latches, request, reply, active, uiVars>> /\ HandlerFrame

----------------------------------------------------------------------------
(* waitChild: the child's error is recorded, unless the result is final,   *)
(* and then childDone closes.                                              *)
WaitFrame == UNCHANGED <<starter, files, acceptor, latches, exchange, child, helper, uiVars>>
WaitChildFlawed ==
  /\ waiter = "waiting" /\ child \in {"ok", "error"} /\ waiter' = "done"
  /\ result' = IF result = NoResult THEN result ELSE [result EXCEPT !.failed = child = "error"]
  /\ UNCHANGED <<finisher, groupGone, problem>> /\ WaitFrame
WaitChild ==
  /\ waiter = "waiting" /\ child \in {"ok", "error"} /\ waiter' = "done"
  /\ UNCHANGED finishVars /\ WaitFrame

ChildDone == waiter = "done"

----------------------------------------------------------------------------
(* finish and cleanup.  Waiting gives up when the deadline passes, which   *)
(* it may at any moment.                                                   *)
FinishFrame == UNCHANGED <<starter, acceptor, exchange, waiter, child, helper, uiVars>>
Goto(from, to) == finisher = from /\ finisher' = to

(* The select, the context, the listener, SIGTERM.                         *)
FinishBeginsFlawed ==
  /\ Goto("select", "observe") /\ ctxDone' = TRUE
  /\ \/ ChildDone /\ UNCHANGED cancelled
     \/ ctxDone /\ cancelled' = (cancelled \/ (~authFailed /\ ~authTimedOut))
  /\ UNCHANGED <<authFailed, authTimedOut, listening, files, groupGone, problem, result>>
  /\ FinishFrame
FinishBegins ==
  /\ Goto("select", "observe") /\ ctxDone' = TRUE /\ listening' = FALSE
  /\ \/ ChildDone /\ UNCHANGED cancelled
     \/ ctxDone /\ cancelled' = (cancelled \/ (~authFailed /\ ~authTimedOut))
  /\ UNCHANGED <<authFailed, authTimedOut, files, groupGone, problem, result>> /\ FinishFrame

(* waitGroupGone sees the group empty, or does not within its phase; then  *)
(* SIGKILL goes to a group still there and to the child in any case.  A    *)
(* signal to the group that fails is an error only beside one of those     *)
(* below; one to the child, which is the job's own, does not fail.         *)
Observed == {GroupEmpty, FALSE}
ObserveGroup ==
  /\ Goto("observe", "reap") /\ groupGone' \in Observed
  /\ UNCHANGED <<latches, files, problem, result>> /\ FinishFrame

AwaitChild ==
  /\ \/ ChildDone /\ Goto("reap", IF groupGone THEN "workers" ELSE "regroup") /\ UNCHANGED problem
     \/ Goto("reap", "workers") /\ problem' = TRUE
  /\ UNCHANGED <<latches, files, groupGone, result>> /\ FinishFrame

ObserveAgainFlawed ==
  /\ Goto("regroup", "workers") /\ UNCHANGED problem
  /\ UNCHANGED <<latches, files, groupGone, result>> /\ FinishFrame
ObserveAgain ==
  /\ Goto("regroup", "workers") /\ \E gone \in Observed : problem' = ~gone
  /\ UNCHANGED <<latches, files, groupGone, result>> /\ FinishFrame

AwaitWorkers ==
  /\ Goto("workers", "close")
  /\ (WorkersDone /\ UNCHANGED problem) \/ problem' = TRUE
  /\ UNCHANGED <<latches, files, groupGone, result>> /\ FinishFrame

(* knownProcessesGone, asked once: a verified helper or a sudo above it    *)
(* that lives, or is not reaped yet, is an error.  closeExact removes the  *)
(* endpoint or cannot.  The result becomes final, done closes, and events  *)
(* too if the workers have stopped.                                        *)
Known == {c \in Conns : request[c] # "none"}
OutcomeFlawed(unclean) ==
  LET refused == authFailed \/ authTimedOut
  IN [failed |-> ChildDone /\ child = "error" /\ ~ctxDone,
      cancelled |-> cancelled /\ ~refused,
      authFailed |-> authFailed, authTimedOut |-> authTimedOut, cleanupErr |-> unclean]
Outcome(unclean) ==
  LET refused == authFailed \/ authTimedOut
  IN [failed |-> ChildDone /\ child = "error" /\ ~cancelled /\ ~refused,
      cancelled |-> cancelled /\ ~refused,
      authFailed |-> authFailed, authTimedOut |-> authTimedOut, cleanupErr |-> unclean]
Finalise ==
  /\ Goto("close", "done")
  /\ \E survivor \in BOOLEAN, remains \in BOOLEAN :
       /\ (\E c \in Known : Alive(c)) => survivor
       /\ survivor => Known # {}
       /\ files' = remains /\ result' = Outcome(problem \/ survivor \/ remains)
  /\ problem' = FALSE /\ groupGone' = FALSE
  /\ UNCHANGED latches /\ FinishFrame

----------------------------------------------------------------------------
(* The interface.  Update handles a message at a time and stays inside     *)
(* RespondPassword; waitJobEvent receives on its own.                      *)
UpdateFrame == UNCHANGED <<starter, files, acceptor, waiter, child, helper, finishVars>>
Cancels == CancelJob /\ UNCHANGED exchange
Undisturbed == UNCHANGED <<latches, exchange>>
HasJob == ui \in {"operating", "password"}

JobStarted ==
  /\ ui = "starting" /\ starter = "started" /\ ui' = "operating" /\ mail' = "waiting"
  /\ IF stopped THEN Cancels ELSE Undisturbed
  /\ UNCHANGED <<dialog, stopped>> /\ UpdateFrame

(* handleJobEvent: a second request under the dialog, or one for a run     *)
(* that is being cancelled, cancels the job.                               *)
ShowDialogFlawed ==
  /\ mail \in Conns /\ ui = "operating" /\ ~stopped
  /\ ui' = "password" /\ dialog' = mail /\ mail' = dialog
  /\ Undisturbed /\ UNCHANGED stopped /\ UpdateFrame
ShowDialog ==
  /\ mail \in Conns /\ ui = "operating" /\ ~stopped
  /\ ui' = "password" /\ dialog' = mail /\ mail' = "waiting"
  /\ Undisturbed /\ UNCHANGED stopped /\ UpdateFrame

RefuseEvent ==
  /\ mail \in Conns /\ HasJob /\ (ui = "password" \/ stopped)
  /\ ui' = "operating" /\ dialog' = NoConn /\ stopped' = TRUE /\ mail' = "waiting"
  /\ Cancels /\ UpdateFrame

(* Enter: RespondPassword claims the request, writes, and frees the slot.  *)
Claimable == active = dialog /\ ~cancelled /\ ~ctxDone
Answer ==
  /\ ui = "password"
  /\ IF Claimable
     THEN /\ ui' = "writing" /\ active' = NoConn
          /\ UNCHANGED <<dialog, stopped, latches, handler, request, reply, live>>
     ELSE ui' = "operating" /\ dialog' = NoConn /\ stopped' = TRUE /\ Cancels
  /\ UNCHANGED mail /\ UpdateFrame

Write ==
  /\ ui = "writing" /\ ui' = "settling"
  /\ \E outcome \in {"password", "lost"} :
       /\ reply' = [reply EXCEPT ![dialog] = outcome]
       /\ outcome = "password" => ~Closed(dialog)
       /\ outcome = "lost" => Closed(dialog) \/ ~Alive(dialog)
  /\ UNCHANGED <<latches, handler, request, live, active, dialog, mail, stopped>> /\ UpdateFrame

Settle ==
  /\ ui = "settling" /\ ui' = "operating" /\ dialog' = NoConn
  /\ live' = IF live = dialog THEN NoConn ELSE live
  /\ IF reply[dialog] = "lost" THEN FailAuthentication /\ stopped' = TRUE
                               ELSE UNCHANGED <<latches, stopped>>
  /\ UNCHANGED <<handler, request, reply, active, mail>> /\ UpdateFrame

(* handleJobResult.                                                        *)
JobEnded ==
  /\ HasJob /\ finisher = "done" /\ ui' = "gone" /\ dialog' = NoConn
  /\ Undisturbed /\ UNCHANGED <<mail, stopped>> /\ UpdateFrame

(* Escape in the dialog.  A resize below the operation's dialogs cancels   *)
(* the operation's context, the parent of the job's, and the job if it is  *)
(* known.  A quit does too, and stops receiving.                           *)
Escape ==
  /\ ui = "password" /\ ui' = "operating" /\ dialog' = NoConn /\ stopped' = TRUE
  /\ Cancels /\ UNCHANGED mail /\ UpdateFrame

CancelOperation ==
  /\ ui = "starting" \/ HasJob
  /\ ~stopped /\ stopped' = TRUE
  /\ ui' = (IF HasJob THEN "operating" ELSE ui) /\ dialog' = NoConn
  /\ IF HasJob THEN Cancels
               ELSE ctxDone' = TRUE
                    /\ UNCHANGED <<cancelled, authFailed, authTimedOut, listening, exchange>>
  /\ UNCHANGED mail /\ UpdateFrame

Quit ==
  /\ HasJob /\ ui' = "gone" /\ dialog' = NoConn
  /\ Cancels /\ UNCHANGED <<mail, stopped>> /\ UpdateFrame

----------------------------------------------------------------------------
(* The processes.  sudo runs one helper after the other; a helper may be   *)
(* killed or give up at any point.                                         *)
Outside == UNCHANGED <<starter, files, acceptor, waiter, latches, exchange, finishVars, uiVars>>
Becomes(c, state) == helper' = [helper EXCEPT ![c] = state] /\ UNCHANGED child /\ Outside

ChildExits ==
  /\ child = "running" /\ child' \in {"ok", "error"} /\ UNCHANGED helper /\ Outside

(* helperExchange, once for each attempt of sudo.                          *)
NextHelper == CHOOSE c \in Conns : helper[c] = "idle"
Dial ==
  /\ child = "running" /\ listening /\ \A c \in Conns : ~Alive(c)
  /\ \E c \in Conns : helper[c] = "idle"
  /\ Becomes(NextHelper, "dialled")
Send(c) == helper[c] = "dialled" /\ ~Closed(c) /\ Becomes(c, "sent")
HelperEnds(c) == Alive(c) /\ Becomes(c, "ended")

----------------------------------------------------------------------------
Start == Prepare \/ Spawn \/ Abort \/ Arm
AcceptLoop == AcceptEnds \/ \E c \in Conns : Accept(c) \/ Admit(c)
Judging(c) == Refuse(c) \/ Verify(c)
Serving(c) ==
  \/ ReadRequest(c) \/ ReadFails(c) \/ Offer(c) \/ Dropped(c) \/ TimesOut(c)
  \/ PeerGone(c) \/ Answered(c) \/ Close(c)
Handling(c) == Judging(c) \/ Serving(c)
Finish ==
  FinishBegins \/ ObserveGroup \/ AwaitChild \/ ObserveAgain \/ AwaitWorkers \/ Finalise
Update == JobStarted \/ ShowDialog \/ RefuseEvent \/ Write \/ Settle \/ JobEnded
User == Answer \/ Escape \/ CancelOperation \/ Quit
Processes == ChildExits \/ Dial \/ \E c \in Conns : Send(c) \/ HelperEnds(c)

RestOfJob == Start \/ AcceptLoop \/ WaitChild \/ Finish \/ Update \/ User \/ Processes
Next == RestOfJob \/ \E c \in Conns : Handling(c)

(* The goroutines are scheduled, and their timers and deadlines expire; a  *)
(* child that was sent SIGKILL ends.  Nobody owes a key, a helper or an    *)
(* exit of Homebrew's own.                                                 *)
Killed == finisher \in {"reap", "regroup", "workers", "close", "done"}
Fairness ==
  /\ WF_vars(Start) /\ WF_vars(AcceptEnds \/ \E c \in Conns : Admit(c))
  /\ WF_vars(WaitChild) /\ WF_vars(Finish) /\ WF_vars(Update)
  /\ WF_vars(Killed /\ ChildExits)
  /\ \A c \in Conns : WF_vars(Handling(c))

Spec == Init /\ [][Next]_vars /\ Fairness

----------------------------------------------------------------------------
(* The exchange slot follows its owner: the request that can be answered   *)
(* is the one whose handler waits on the connection in the slot, and the   *)
(* slot is never left to a handler that has gone (privileged.go:481).      *)
RequestIsServed ==
  /\ active # NoConn => live = active /\ handler[active] \in {"offering", "waiting"}
  /\ live # NoConn => handler[live] \notin {"none", "ended"}

(* A result that is Homebrew's own, a success or its error, is that of a   *)
(* job nobody stopped: no Cancel, refused or vanished helper or limit came *)
(* before it was final, not even while the cleanup ran after the child's   *)
(* end (privileged.go:365).  A success is that of a child that was reaped. *)
(* Only the context of the start is no stop: a child that ends before it   *)
(* is noticed keeps its result (privileged.go:351).                        *)
Stopped == cancelled \/ authFailed \/ authTimedOut
Homebrews(r) == ~r.cancelled /\ ~r.authFailed /\ ~r.authTimedOut
SuccessIsReal ==
  [][/\ Stopped => Stopped'
     /\ result = NoResult /\ result' # NoResult /\ Homebrews(result') =>
          /\ ~Stopped
          /\ result'.failed => child = "error"
          /\ ~result'.failed /\ ~result'.cleanupErr => child = "ok" /\ ChildDone]_vars

(* What is left of the job when its cleanup reports no error: nothing.     *)
Remains ==
  \/ files
  \/ child # "none" /\ ~(GroupEmpty /\ ChildDone /\ WorkersDone)
SilentCleanup == result # NoResult /\ ~result.cleanupErr => ~Remains

(* However it is interleaved the job keeps the contract: one open request, *)
(* one result, nothing left and nothing asked after a clean end.           *)
Contract == INSTANCE JobContract WITH
  Requests <- Conns, NoRequest <- NoConn,
  phase <- IF starter \in {"started", "failed"} THEN starter ELSE "starting",
  remains <- Remains,
  asked <- {c \in Conns : request[c] = "shown"},
  open <- IF active # NoConn /\ request[active] = "shown" THEN active ELSE NoConn,
  outcome <- result
ImplementsContract == Contract!Spec

(* Once the job's context is cancelled its workers end by themselves: none *)
(* waits for an interface that no longer receives (privileged.go:415).     *)
WorkersEnd == ctxDone ~> (WorkersDone \/ starter = "failed")
=============================================================================
