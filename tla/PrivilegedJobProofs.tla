------------------------- MODULE PrivilegedJobProofs -------------------------
(***************************************************************************)
(* The safety of the privileged job for any number of askpass helpers: the *)
(* types, the exchange slot, what its results claim, and that it keeps its *)
(* contract (JobContract).  Types come first; the exchange and the cleanup *)
(* have an inductive invariant each.                                       *)
(***************************************************************************)
EXTENDS PrivilegedJob, TLAPS

USE ConnsAssumption, ResultAssumption

----------------------------------------------------------------------------
(* Types.  Each group of actions touches few variables.                    *)
LEMMA InitType == Init => TypeOK
BY DEF Init, TypeOK

LEMMA StartType == TypeOK /\ Start => TypeOK'
<1> SUFFICES ASSUME TypeOK, Start PROVE TypeOK'
  OBVIOUS
<1>1. listening' \in BOOLEAN /\ files' \in BOOLEAN /\ ctxDone' \in BOOLEAN
  BY Zenon DEF Start, Prepare, Spawn, Abort, Arm, TypeOK
<1>2. /\ starter' \in {"spawn", "failed", "arm", "abort", "started"}
      /\ acceptor' \in {"accepting", acceptor} /\ waiter' \in {"waiting", waiter}
      /\ finisher' \in {"select", finisher} /\ child' \in {"running", child}
      /\ StartFrame
  BY DEF Start, Prepare, Spawn, Abort, Arm
<1> QED BY <1>1, <1>2 DEF StartFrame, exchange, uiVars, TypeOK

LEMMA FailType == TypeOK /\ FailAuthentication =>
                  /\ cancelled' \in BOOLEAN /\ authFailed' \in BOOLEAN /\ authTimedOut' \in BOOLEAN
                  /\ ctxDone' \in BOOLEAN /\ listening' \in BOOLEAN
BY DEF FailAuthentication, Latch, TypeOK

LEMMA TimeType == TypeOK /\ (TimeAuthenticationOut \/ UNCHANGED latches) =>
                  /\ cancelled' \in BOOLEAN /\ authFailed' \in BOOLEAN /\ authTimedOut' \in BOOLEAN
                  /\ ctxDone' \in BOOLEAN /\ listening' \in BOOLEAN
<1>1. TypeOK /\ TimeAuthenticationOut => cancelled' \in BOOLEAN /\ authFailed' \in BOOLEAN
        /\ authTimedOut' \in BOOLEAN /\ ctxDone' \in BOOLEAN /\ listening' \in BOOLEAN
  BY DEF TimeAuthenticationOut, Latch, TypeOK
<1>2. TypeOK /\ UNCHANGED latches => cancelled' \in BOOLEAN /\ authFailed' \in BOOLEAN
        /\ authTimedOut' \in BOOLEAN /\ ctxDone' \in BOOLEAN /\ listening' \in BOOLEAN
  BY DEF latches, TypeOK
<1> QED BY <1>1, <1>2

LEMMA AcceptLoopType == TypeOK /\ AcceptLoop => TypeOK'
<1> SUFFICES ASSUME TypeOK, AcceptLoop PROVE TypeOK'
  OBVIOUS
<1>1. CASE AcceptEnds
  BY <1>1 DEF AcceptEnds, AcceptFrame, latches, finishVars, uiVars, TypeOK
<1>2. ASSUME NEW c \in Conns, Accept(c) PROVE TypeOK'
  BY <1>2 DEF Accept, AcceptFrame, latches, finishVars, uiVars, TypeOK
<1>3. ASSUME NEW c \in Conns, Admit(c) PROVE TypeOK'
  BY <1>3, FailType DEF Admit, AcceptFrame, latches, finishVars, uiVars, TypeOK
<1> QED BY <1>1, <1>2, <1>3 DEF AcceptLoop

LEMMA HandlingType == ASSUME TypeOK, NEW c \in Conns, Handling(c) PROVE TypeOK'
<1> USE DEF At, HandlerFrame, finishVars, TypeOK
<1>1. CASE ReadRequest(c)
  BY <1>1 DEF ReadRequest, latches, uiVars
<1>2. CASE ReadFails(c)
  BY <1>2, FailType DEF ReadFails, uiVars
<1>3. CASE Refuse(c)
  BY <1>3, FailType DEF Refuse, uiVars
<1>4. CASE Verify(c)
  BY <1>4 DEF Verify, latches, uiVars
<1>5. CASE Offer(c)
  BY <1>5 DEF Offer, latches
<1>6. CASE Dropped(c)
  BY <1>6 DEF Dropped, ClearAndRefuse, latches, uiVars
<1>7. CASE TimesOut(c)
  BY <1>7, TimeType DEF TimesOut, ClearAndRefuse, uiVars
<1>8. CASE PeerGone(c)
  BY <1>8, FailType DEF PeerGone, ClearAndRefuse, uiVars
<1>9. CASE Answered(c)
  BY <1>9 DEF Answered, latches, uiVars
<1>10. CASE Close(c)
  BY <1>10 DEF Close, latches, uiVars
<1> QED BY <1>1, <1>2, <1>3, <1>4, <1>5, <1>6, <1>7, <1>8, <1>9, <1>10 DEF Handling, Judging, Serving

LEMMA WaitChildType == TypeOK /\ WaitChild => TypeOK'
BY DEF WaitChild, WaitFrame, finishVars, latches, exchange, uiVars, TypeOK

LEMMA OutcomeType == TypeOK => \A unclean \in BOOLEAN : Outcome(unclean) \in Results
BY DEF Outcome, Results, TypeOK

LEMMA FinishType == TypeOK /\ Finish => TypeOK'
<1> SUFFICES ASSUME TypeOK, Finish PROVE TypeOK'
  OBVIOUS
<1>1. /\ cancelled' \in BOOLEAN /\ authFailed' \in BOOLEAN /\ authTimedOut' \in BOOLEAN
      /\ ctxDone' \in BOOLEAN /\ listening' \in BOOLEAN
  <2>1. CASE FinishBegins
    BY <2>1, Zenon DEF FinishBegins, TypeOK
  <2>2. CASE UNCHANGED latches
    BY <2>2 DEF latches, TypeOK
  <2> QED
    BY <2>1, <2>2 DEF Finish, ObserveGroup, AwaitChild, ObserveAgain, AwaitWorkers, Finalise
<1>2. groupGone' \in BOOLEAN /\ problem' \in BOOLEAN /\ files' \in BOOLEAN
  <2>1. CASE FinishBegins \/ AwaitChild \/ AwaitWorkers \/ Finalise
    BY <2>1, Zenon DEF FinishBegins, AwaitChild, AwaitWorkers, Finalise, TypeOK
  <2>2. CASE ObserveGroup \/ ObserveAgain
    BY <2>2 DEF ObserveGroup, ObserveAgain, Observed, GroupEmpty, TypeOK
  <2> QED BY <2>1, <2>2 DEF Finish
<1>3. result' \in {NoResult} \cup Results
  BY OutcomeType DEF Finish, FinishBegins, ObserveGroup, AwaitChild, ObserveAgain, AwaitWorkers,
                     Finalise, TypeOK
<1>4. finisher' \in {"observe", "reap", "regroup", "workers", "close", "done"}
  BY DEF Finish, FinishBegins, ObserveGroup, AwaitChild, ObserveAgain, AwaitWorkers, Finalise, Goto
<1>5. FinishFrame
  BY DEF Finish, FinishBegins, ObserveGroup, AwaitChild, ObserveAgain, AwaitWorkers, Finalise
<1> QED
  BY <1>1, <1>2, <1>3, <1>4, <1>5 DEF FinishFrame, exchange, uiVars, TypeOK

LEMMA UpdateType == TypeOK /\ (Update \/ User) => TypeOK'
<1> SUFFICES ASSUME TypeOK, Update \/ User PROVE TypeOK'
  OBVIOUS
<1>1. /\ cancelled' \in BOOLEAN /\ authFailed' \in BOOLEAN /\ authTimedOut' \in BOOLEAN
      /\ ctxDone' \in BOOLEAN /\ listening' \in BOOLEAN /\ stopped' \in BOOLEAN
  BY Zenon DEF Update, User, JobStarted, ShowDialog, RefuseEvent, Write, Settle, JobEnded,
       Answer, Escape, CancelOperation, Quit, FailAuthentication, Cancels, CancelJob, Latch,
       Undisturbed, latches, TypeOK
<1>2. /\ ui' \in {"operating", "password", "writing", "settling", "gone", ui}
      /\ dialog' \in Conns \cup {NoConn} /\ mail' \in {"none", "waiting"} \cup Conns
  BY DEF Update, User, JobStarted, ShowDialog, RefuseEvent, Write, Settle, JobEnded,
         Answer, Escape, CancelOperation, Quit, TypeOK
<1>3. /\ handler' = handler /\ request' = request
      /\ live' \in {live, NoConn} /\ active' \in {active, NoConn}
      /\ reply' \in [Conns -> {"none", "password", "refusal", "lost"}]
  BY DEF Update, User, JobStarted, ShowDialog, RefuseEvent, Write, Settle, JobEnded, Answer,
         Escape, CancelOperation, Quit, Cancels, Undisturbed, exchange, TypeOK
<1>4. UpdateFrame
  BY DEF Update, User, JobStarted, ShowDialog, RefuseEvent, Write, Settle, JobEnded, Answer,
         Escape, CancelOperation, Quit
<1> QED BY <1>1, <1>2, <1>3, <1>4 DEF UpdateFrame, finishVars, TypeOK

LEMMA ProcessesType == TypeOK /\ Processes => TypeOK'
<1> SUFFICES ASSUME TypeOK, Processes PROVE TypeOK'
  OBVIOUS
<1>1. child' \in {"ok", "error", child}
  BY DEF Processes, ChildExits, Dial, Send, HelperEnds, Becomes
<1>2. helper' \in [Conns -> {"idle", "dialled", "sent", "ended"}]
  BY DEF Processes, ChildExits, Dial, Send, HelperEnds, Becomes, NextHelper, TypeOK
<1>3. Outside
  BY DEF Processes, ChildExits, Dial, Send, HelperEnds, Becomes
<1> QED
  BY <1>1, <1>2, <1>3 DEF Outside, latches, exchange, finishVars, uiVars, TypeOK

LEMMA NextType == TypeOK /\ [Next]_vars => TypeOK'
<1>1. TypeOK /\ UNCHANGED vars => TypeOK'
  BY DEF vars, latches, exchange, finishVars, uiVars, TypeOK
<1> QED
  BY <1>1, StartType, AcceptLoopType, HandlingType, WaitChildType, FinishType, UpdateType,
     ProcessesType DEF Next, RestOfJob

(* The fields of the job and of the interface hold what their declarations *)
(* allow, for any number of helpers.                                       *)
THEOREM JobTypeCorrect == Spec => []TypeOK
BY InitType, NextType, PTL DEF Spec

----------------------------------------------------------------------------
(* The exchange.  A connection is in the slot from its admission until its *)
(* request is claimed, refused or answered; what the interface holds was   *)
(* shown to it; and nobody answers a request that can still be claimed.    *)
InSlot ==
  \A c \in Conns :
    /\ handler[c] \in {"reading", "verifying", "offering"} => live = c
    /\ handler[c] = "offering" => active = c
Requested ==
  \A c \in Conns :
    /\ handler[c] \in {"none", "reading", "verifying"} => request[c] = "none"
    /\ handler[c] = "offering" => request[c] = "verified"
    /\ handler[c] = "waiting" => request[c] = "shown"
Unanswered ==
  \A c \in Conns :
    handler[c] \in {"none", "reading", "verifying", "offering"} \/ active = c
      => reply[c] = "none"
Shown ==
  /\ mail \in Conns => request[mail] = "shown"
  /\ dialog \in Conns => request[dialog] = "shown"
  /\ ui \in {"password", "writing", "settling"} => dialog \in Conns
  /\ ui \in {"writing", "settling"} => active # dialog
InHand == acceptor \in Conns => handler[acceptor] = "none"

ExchangeInv == RequestIsServed /\ InSlot /\ Requested /\ Unanswered /\ Shown /\ InHand

LEMMA ExchangeInit == Init => ExchangeInv
BY DEF Init, ExchangeInv, RequestIsServed, InSlot, Requested, Unanswered, Shown, InHand

LEMMA ExchangeFrame ==
  ASSUME ExchangeInv, UNCHANGED <<exchange, uiVars>>, acceptor' = acceptor \/ acceptor' \notin Conns
  PROVE  ExchangeInv'
BY DEF exchange, uiVars, ExchangeInv, RequestIsServed, InSlot, Requested, Unanswered, Shown, InHand

LEMMA ExchangeElsewhere ==
  ExchangeInv /\ (Start \/ AcceptEnds \/ WaitChild \/ Finish \/ Processes) => ExchangeInv'
<1> SUFFICES ASSUME ExchangeInv, Start \/ AcceptEnds \/ WaitChild \/ Finish \/ Processes
             PROVE  ExchangeInv'
  OBVIOUS
<1>1. CASE Start
  BY <1>1, ExchangeFrame DEF Start, Prepare, Spawn, Abort, Arm, StartFrame
<1>2. CASE AcceptEnds
  BY <1>2, ExchangeFrame DEF AcceptEnds, AcceptFrame, exchange
<1>3. CASE WaitChild
  BY <1>3, ExchangeFrame DEF WaitChild, WaitFrame
<1>4. CASE Finish
  BY <1>4, ExchangeFrame DEF Finish, FinishBegins, ObserveGroup, AwaitChild, ObserveAgain,
                             AwaitWorkers, Finalise, FinishFrame
<1>5. CASE Processes
  BY <1>5, ExchangeFrame DEF Processes, ChildExits, Dial, Send, HelperEnds, Becomes, Outside
<1> QED BY <1>1, <1>2, <1>3, <1>4, <1>5

LEMMA ExchangeAccept ==
  ASSUME TypeOK, ExchangeInv, NEW c \in Conns, Accept(c) \/ Admit(c)
  PROVE  ExchangeInv'
<1> USE DEF AcceptFrame, uiVars, TypeOK, ExchangeInv, RequestIsServed, InSlot, Requested,
            Unanswered, Shown, InHand
<1>1. CASE Accept(c)
  BY <1>1 DEF Accept
<1>2. CASE Admit(c) /\ live = NoConn /\ active = NoConn
  BY <1>2 DEF Admit
<1>3. CASE Admit(c) /\ ~(live = NoConn /\ active = NoConn)
  BY <1>3 DEF Admit
<1> QED BY <1>1, <1>2, <1>3

LEMMA ExchangeHandling ==
  ASSUME TypeOK, ExchangeInv, NEW c \in Conns, Handling(c)
  PROVE  ExchangeInv'
<1> USE DEF At, HandlerFrame, ClearAndRefuse, uiVars, TypeOK, ExchangeInv, RequestIsServed,
            InSlot, Requested, Unanswered, Shown, InHand
<1>1. CASE ReadRequest(c)
  BY <1>1 DEF ReadRequest
<1>2. CASE ReadFails(c)
  BY <1>2 DEF ReadFails
<1>3. CASE Refuse(c)
  BY <1>3 DEF Refuse
<1>4. CASE Verify(c)
  BY <1>4 DEF Verify
<1>5. CASE Offer(c)
  BY <1>5 DEF Offer
<1>6. CASE Dropped(c)
  BY <1>6 DEF Dropped
<1>7. CASE TimesOut(c)
  BY <1>7 DEF TimesOut
<1>8. CASE PeerGone(c)
  BY <1>8 DEF PeerGone
<1>9. CASE Answered(c)
  BY <1>9 DEF Answered
<1>10. CASE Close(c)
  BY <1>10 DEF Close
<1> QED BY <1>1, <1>2, <1>3, <1>4, <1>5, <1>6, <1>7, <1>8, <1>9, <1>10 DEF Handling, Judging, Serving

LEMMA ExchangeInterface ==
  ASSUME TypeOK, ExchangeInv, Update \/ User
  PROVE  ExchangeInv'
<1> USE DEF UpdateFrame, Cancels, Undisturbed, exchange, HasJob, TypeOK, ExchangeInv,
            RequestIsServed, InSlot, Requested, Unanswered, Shown, InHand
<1>1. CASE JobStarted
  BY <1>1 DEF JobStarted
<1>2. CASE ShowDialog
  BY <1>2 DEF ShowDialog
<1>3. CASE RefuseEvent
  BY <1>3 DEF RefuseEvent
<1>4. CASE Write
  BY <1>4 DEF Write
<1>5. CASE Settle
  BY <1>5 DEF Settle
<1>6. CASE JobEnded
  BY <1>6 DEF JobEnded
<1>7. CASE Answer
  BY <1>7 DEF Answer, Claimable
<1>8. CASE Escape
  BY <1>8 DEF Escape
<1>9. CASE CancelOperation
  BY <1>9 DEF CancelOperation
<1>10. CASE Quit
  BY <1>10 DEF Quit
<1> QED
  BY <1>1, <1>2, <1>3, <1>4, <1>5, <1>6, <1>7, <1>8, <1>9, <1>10 DEF Update, User

LEMMA ExchangeNext == TypeOK /\ ExchangeInv /\ [Next]_vars => ExchangeInv'
<1>1. ExchangeInv /\ UNCHANGED vars => ExchangeInv'
  BY ExchangeFrame DEF vars
<1> QED
  BY <1>1, ExchangeElsewhere, ExchangeAccept, ExchangeHandling, ExchangeInterface
     DEF Next, RestOfJob, AcceptLoop

(* However many helpers dial, and however their requests are answered,     *)
(* refused or abandoned, the exchange slot follows its owner and is never  *)
(* left to a handler that has gone (handleConnection, RespondPassword).    *)
THEOREM SlotFollowsOwner == Spec => []RequestIsServed
<1>1. ExchangeInv => RequestIsServed
  BY DEF ExchangeInv
<1> QED
  BY <1>1, JobTypeCorrect, ExchangeInit, ExchangeNext, PTL DEF Spec

----------------------------------------------------------------------------
(* The cleanup.  Which goroutines run follows from how far Start came, and *)
(* what was observed stays so: a group seen empty stays empty, a child     *)
(* reaped stays reaped, workers that ended stay ended.                     *)
Phases ==
  /\ starter = "started" <=> finisher # "off"
  /\ starter = "started" <=> waiter # "off"
  /\ starter \in {"setup", "spawn", "abort", "failed"} => child = "none"
  /\ starter \in {"arm", "started"} => child # "none"
  /\ waiter = "done" => child \in {"ok", "error"}
  /\ finisher = "done" <=> result # NoResult
FilesKept ==
  starter \in {"spawn", "abort", "arm"} \/ (starter = "started" /\ finisher # "done") => files

Quiet == ChildDone /\ GroupEmpty
Observations ==
  /\ groupGone => finisher # "off" /\ GroupEmpty
  /\ finisher = "regroup" => ChildDone
  /\ finisher \in {"workers", "close"} /\ ~problem => Quiet
  /\ finisher = "close" /\ ~problem => WorkersDone
CleanEnd == finisher = "done" /\ ~result.cleanupErr => Quiet /\ WorkersDone /\ ~files

Success ==
  result # NoResult /\ Homebrews(result) /\ ~result.failed /\ ~result.cleanupErr
    => child = "ok" /\ ChildDone
CleanupInv == Phases /\ FilesKept /\ Observations /\ CleanEnd /\ Success

LEMMA CleanupInit == Init => CleanupInv
BY DEF Init, CleanupInv, Phases, FilesKept, Observations, CleanEnd, GroupEmpty, ChildDone, Quiet,
       Success

LEMMA GroupStaysEmpty ==
  ASSUME TypeOK, CleanupInv, [Next]_vars, starter = "started", GroupEmpty
  PROVE  GroupEmpty'
<1>1. ASSUME UNCHANGED <<child, helper>> PROVE GroupEmpty'
  BY <1>1 DEF GroupEmpty, Alive
<1>2. CASE Start \/ AcceptLoop \/ WaitChild \/ Finish \/ Update \/ User
  BY <1>1, <1>2 DEF Start, Prepare, Spawn, Abort, Arm, StartFrame,
       AcceptLoop, AcceptEnds, Accept, Admit, AcceptFrame, WaitChild, WaitFrame,
       Finish, FinishBegins, ObserveGroup, AwaitChild, ObserveAgain, AwaitWorkers, Finalise,
       FinishFrame, Update, JobStarted, ShowDialog, RefuseEvent, Write, Settle, JobEnded,
       User, Answer, Escape, CancelOperation, Quit, UpdateFrame
<1>3. ASSUME NEW c \in Conns, Handling(c) PROVE GroupEmpty'
  BY <1>1, <1>3 DEF Handling, Judging, Serving, ReadRequest, ReadFails, Refuse, Verify, Offer, Dropped, TimesOut,
       PeerGone, Answered, Close, HandlerFrame
<1>4. CASE Processes
  BY <1>4 DEF Processes, ChildExits, Dial, Send, HelperEnds, Becomes, GroupEmpty, Alive, TypeOK
<1>5. CASE UNCHANGED vars
  BY <1>1, <1>5 DEF vars
<1> QED BY <1>2, <1>3, <1>4, <1>5 DEF Next, RestOfJob

LEMMA WorkersStayDone ==
  ASSUME TypeOK, ExchangeInv, [Next]_vars, starter = "started", WorkersDone
  PROVE  WorkersDone'
<1>1. ASSUME UNCHANGED <<starter, acceptor, waiter, handler>> PROVE WorkersDone'
  BY <1>1 DEF WorkersDone
<1>2. CASE Start
  BY <1>2 DEF Start, Prepare, Spawn, Abort, Arm
<1>3. CASE AcceptLoop
  BY <1>3, ConnsAssumption DEF AcceptLoop, AcceptEnds, Accept, Admit, WorkersDone
<1>4. CASE WaitChild
  BY <1>4 DEF WaitChild, WaitFrame, exchange, WorkersDone
<1>5. CASE Finish \/ Update \/ User \/ Processes
  BY <1>1, <1>5 DEF Finish, FinishBegins, ObserveGroup, AwaitChild, ObserveAgain, AwaitWorkers,
       Finalise, FinishFrame, exchange, Update, JobStarted, ShowDialog, RefuseEvent, Write,
       Settle, JobEnded, User, Answer, Escape, CancelOperation, Quit, UpdateFrame, Cancels,
       Undisturbed, Processes, ChildExits, Dial, Send, HelperEnds, Becomes, Outside
<1>6. ASSUME NEW c \in Conns, Handling(c) PROVE WorkersDone'
  BY <1>6 DEF Handling, Judging, Serving, ReadRequest, ReadFails, Refuse, Verify, Offer, Dropped, TimesOut,
       PeerGone, Answered, Close, At, WorkersDone
<1>7. CASE UNCHANGED vars
  BY <1>1, <1>7 DEF vars, exchange
<1> QED BY <1>2, <1>3, <1>4, <1>5, <1>6, <1>7 DEF Next, RestOfJob

(* What the steps of all but Start and finish may do to these variables.   *)
Elsewhere ==
  /\ UNCHANGED <<starter, files, finishVars>>
  /\ waiter' = waiter \/ (waiter = "waiting" /\ waiter' = "done" /\ child \in {"ok", "error"})
  /\ child' = child \/ (child = "running" /\ child' \in {"ok", "error"})

LEMMA StepsElsewhere == [Next]_vars => Start \/ Finish \/ Elsewhere
<1>1. AcceptLoop => Elsewhere
  BY DEF AcceptLoop, AcceptEnds, Accept, Admit, AcceptFrame, Elsewhere
<1>2. ASSUME NEW c \in Conns, Handling(c) PROVE Elsewhere
  BY <1>2 DEF Handling, Judging, Serving, ReadRequest, ReadFails, Refuse, Verify, Offer, Dropped, TimesOut,
              PeerGone, Answered, Close, HandlerFrame, Elsewhere
<1>3. WaitChild => Elsewhere
  BY DEF WaitChild, WaitFrame, Elsewhere
<1>4. Update \/ User => Elsewhere
  BY DEF Update, JobStarted, ShowDialog, RefuseEvent, Write, Settle, JobEnded, User, Answer,
         Escape, CancelOperation, Quit, UpdateFrame, Elsewhere
<1>5. Processes => Elsewhere
  BY DEF Processes, ChildExits, Dial, Send, HelperEnds, Becomes, Outside, Elsewhere
<1>6. UNCHANGED vars => Elsewhere
  BY DEF vars, Elsewhere
<1> QED BY <1>1, <1>2, <1>3, <1>4, <1>5, <1>6 DEF Next, RestOfJob

LEMMA CleanupElsewhere ==
  ASSUME TypeOK, ExchangeInv, CleanupInv, [Next]_vars, Elsewhere
  PROVE  CleanupInv'
<1> USE DEF Elsewhere
<1>1. Phases'
  BY DEF finishVars, CleanupInv, Phases, TypeOK
<1>2. FilesKept'
  BY DEF finishVars, CleanupInv, FilesKept
<1>3. finisher # "off" => starter = "started"
  BY DEF CleanupInv, Phases
<1>4. starter = "started" => (GroupEmpty => GroupEmpty') /\ (WorkersDone => WorkersDone')
  BY GroupStaysEmpty, WorkersStayDone
<1>5. ChildDone => ChildDone'
  BY DEF ChildDone
<1>6. starter = "started" => (Quiet => Quiet')
  BY <1>4, <1>5 DEF Quiet
<1>7. UNCHANGED <<finisher, groupGone, problem, result, files>>
  BY DEF finishVars
<1>8. Observations'
  BY <1>3, <1>4, <1>5, <1>6, <1>7, Zenon DEF CleanupInv, Observations
<1>9. CleanEnd'
  <2>1. finisher' = "done" /\ ~result'.cleanupErr => finisher = "done" /\ ~result.cleanupErr
    BY <1>7
  <2>2. ~files => ~files'
    BY <1>7
  <2> QED BY <1>3, <1>4, <1>6, <2>1, <2>2, Zenon DEF CleanupInv, CleanEnd
<1>10. Success'
  BY <1>5, <1>7 DEF CleanupInv, Success
<1> QED BY <1>1, <1>2, <1>8, <1>9, <1>10 DEF CleanupInv

LEMMA CleanupStart == TypeOK /\ CleanupInv /\ Start => CleanupInv'
<1> SUFFICES ASSUME TypeOK, CleanupInv, Start PROVE CleanupInv'
  OBVIOUS
<1>1. starter # "started" /\ finisher = "off" /\ finisher' \in {"off", "select"}
  BY DEF Start, Prepare, Spawn, Abort, Arm, CleanupInv, Phases
<1>2. ~groupGone /\ groupGone' = groupGone /\ result' = result /\ result = NoResult
  <2>1. ~groupGone
    BY <1>1, Zenon DEF CleanupInv, Observations
  <2>2. groupGone' = groupGone /\ result' = result
    BY DEF Start, Prepare, Spawn, Abort, Arm, StartFrame
  <2>3. result = NoResult
    BY <1>1 DEF CleanupInv, Phases
  <2> QED BY <2>1, <2>2, <2>3
<1>3. Phases'
  BY <1>1, <1>2 DEF Start, Prepare, Spawn, Abort, Arm, CleanupInv, Phases
<1>4. FilesKept'
  <2>1. CASE Prepare
    BY <2>1, <1>1 DEF Prepare, FilesKept
  <2>2. CASE Spawn \/ Arm
    <3>1. files
      BY <2>2, Zenon DEF Spawn, Arm, CleanupInv, FilesKept
    <3>2. files' = files
      BY <2>2 DEF Spawn, Arm
    <3> QED BY <3>1, <3>2 DEF FilesKept
  <2>3. CASE Abort
    BY <2>3 DEF Abort, FilesKept
  <2> QED BY <2>1, <2>2, <2>3 DEF Start
<1>5. Observations' /\ CleanEnd' /\ Success'
  <2>1. finisher' \notin {"regroup", "workers", "close", "done"} /\ ~groupGone'
    BY <1>1, <1>2
  <2> QED BY <1>2, <2>1 DEF Observations, CleanEnd, Success
<1> QED BY <1>3, <1>4, <1>5 DEF CleanupInv

LEMMA CleanupFinish == TypeOK /\ CleanupInv /\ Finish => CleanupInv'
<1> SUFFICES ASSUME TypeOK, CleanupInv, Finish PROVE CleanupInv'
  OBVIOUS
<1>1. /\ UNCHANGED <<starter, waiter, child, helper, acceptor, handler>>
      /\ finisher \notin {"off", "done"} /\ finisher' # "off"
  BY DEF Finish, FinishBegins, ObserveGroup, AwaitChild, ObserveAgain, AwaitWorkers, Finalise,
         FinishFrame, Goto, exchange
<1>2. starter = "started" /\ result = NoResult
  BY <1>1 DEF CleanupInv, Phases
<1>3. (GroupEmpty' <=> GroupEmpty) /\ (ChildDone' <=> ChildDone) /\ (WorkersDone' <=> WorkersDone)
  BY <1>1 DEF GroupEmpty, Alive, ChildDone, WorkersDone
<1>4. CASE ~Finalise
  <2>1. finisher' # "done" /\ result' = result /\ files' = files
    BY <1>4 DEF Finish, FinishBegins, ObserveGroup, AwaitChild, ObserveAgain, AwaitWorkers, Goto
  <2>2. Phases'
    BY <1>1, <1>2, <2>1 DEF CleanupInv, Phases
  <2>3. FilesKept'
    BY <1>1, <1>2, <2>1 DEF CleanupInv, FilesKept
  <2>4. CleanEnd' /\ Success'
    BY <1>2, <2>1 DEF CleanEnd, Success
  <2>5. Observations'
    <3>1. CASE FinishBegins
      <4>1. finisher' = "observe" /\ groupGone' = groupGone
        BY <3>1 DEF FinishBegins, Goto
      <4>2. groupGone => GroupEmpty
        BY Zenon DEF CleanupInv, Observations
      <4> QED BY <1>3, <4>1, <4>2 DEF Observations
    <3>2. CASE ObserveGroup
      <4>1. finisher' = "reap" /\ groupGone' \in {GroupEmpty, FALSE}
        BY <3>2 DEF ObserveGroup, Observed, Goto
      <4>2. groupGone' => GroupEmpty
        BY <4>1, Zenon
      <4> QED BY <1>3, <4>1, <4>2 DEF Observations
    <3>3. CASE AwaitChild
      <4>1. groupGone' = groupGone /\ (groupGone => GroupEmpty)
        <5>1. groupGone' = groupGone
          BY <3>3 DEF AwaitChild
        <5> QED BY <5>1, Zenon DEF CleanupInv, Observations
      <4>2. CASE ChildDone /\ groupGone /\ finisher' = "workers"
        BY <1>3, <4>1, <4>2 DEF Observations, Quiet
      <4>3. CASE ChildDone /\ ~groupGone /\ finisher' = "regroup"
        BY <1>3, <4>1, <4>3 DEF Observations
      <4>4. CASE problem' = TRUE /\ finisher' = "workers"
        BY <1>3, <4>1, <4>4 DEF Observations
      <4> QED BY <3>3, <4>2, <4>3, <4>4, Zenon DEF AwaitChild, Goto
    <3>4. CASE ObserveAgain
      <4>1. groupGone' = groupGone /\ finisher' = "workers" /\ finisher = "regroup"
        BY <3>4 DEF ObserveAgain, Goto
      <4>2. (groupGone => GroupEmpty) /\ ChildDone
        BY <4>1, Zenon DEF CleanupInv, Observations
      <4>3. ~problem' => GroupEmpty
        <5>1. PICK gone \in {GroupEmpty, FALSE} : problem' = ~gone
          BY <3>4 DEF ObserveAgain, Observed
        <5> QED BY <5>1, Zenon
      <4> QED BY <1>3, <4>1, <4>2, <4>3 DEF Observations, Quiet
    <3>5. CASE AwaitWorkers
      <4>1. groupGone' = groupGone /\ finisher' = "close" /\ finisher = "workers"
        BY <3>5 DEF AwaitWorkers, Goto
      <4>2. (groupGone => GroupEmpty) /\ (~problem => Quiet)
        BY <4>1, Zenon DEF CleanupInv, Observations
      <4>3. ~problem' => ~problem /\ WorkersDone
        BY <3>5, Zenon DEF AwaitWorkers
      <4>4. Quiet' <=> Quiet
        BY <1>3 DEF Quiet
      <4> QED BY <1>3, <4>1, <4>2, <4>3, <4>4 DEF Observations
    <3> QED BY <1>4, <3>1, <3>2, <3>3, <3>4, <3>5 DEF Finish
  <2> QED BY <2>2, <2>3, <2>4, <2>5 DEF CleanupInv
<1>5. CASE Finalise
  <2>1. PICK survivor \in BOOLEAN, remains \in BOOLEAN :
          files' = remains /\ result' = Outcome(problem \/ survivor \/ remains)
    BY <1>5 DEF Finalise
  <2>2. finisher = "close" /\ finisher' = "done" /\ ~groupGone'
    BY <1>5 DEF Finalise, Goto
  <2>3. result' # NoResult
    BY <2>1, OutcomeType DEF TypeOK
  <2>4. result'.cleanupErr = (problem \/ survivor \/ remains)
    BY <2>1 DEF Outcome
  <2>5. ~result'.cleanupErr => ~problem /\ ~files'
    BY <2>1, <2>4, Zenon
  <2>6. ~problem => Quiet /\ WorkersDone
    BY <2>2, Zenon DEF CleanupInv, Observations
  <2>7. Quiet' <=> Quiet
    BY <1>3 DEF Quiet
  <2>8. Phases' /\ FilesKept'
    BY <1>1, <1>2, <2>2, <2>3 DEF CleanupInv, Phases, FilesKept
  <2>9. Observations' /\ CleanEnd'
    BY <1>3, <2>2, <2>5, <2>6, <2>7, Zenon DEF Observations, CleanEnd
  <2>10. Success'
    <3> SUFFICES ASSUME ~result'.failed, ~result'.cancelled, ~result'.authFailed,
                        ~result'.authTimedOut, ~result'.cleanupErr
                 PROVE  child = "ok" /\ ChildDone
      BY <1>1, <1>3 DEF Success, Homebrews
    <3>1. ChildDone /\ child \in {"ok", "error"}
      BY <2>5, <2>6 DEF Quiet, ChildDone, CleanupInv, Phases
    <3>2. ~authFailed /\ ~authTimedOut
      BY <2>1 DEF Outcome
    <3>3. ~cancelled
      BY <2>1, <3>2, Zenon DEF Outcome
    <3>4. result'.failed = (ChildDone /\ child = "error" /\ ~cancelled /\ ~(authFailed \/ authTimedOut))
      BY <2>1 DEF Outcome
    <3> QED BY <3>1, <3>2, <3>3, <3>4
  <2> QED BY <2>8, <2>9, <2>10 DEF CleanupInv
<1> QED BY <1>4, <1>5

LEMMA CleanupNext == TypeOK /\ ExchangeInv /\ CleanupInv /\ [Next]_vars => CleanupInv'
<1> SUFFICES ASSUME TypeOK, ExchangeInv, CleanupInv, [Next]_vars PROVE CleanupInv'
  OBVIOUS
<1>1. CASE Start
  BY <1>1, CleanupStart
<1>2. CASE Finish
  BY <1>2, CleanupFinish
<1>3. CASE Elsewhere
  BY <1>3, CleanupElsewhere
<1> QED BY <1>1, <1>2, <1>3, StepsElsewhere

(* The interface receives events of a job it knows.                        *)
Received == mail # "none" => starter = "started"

LEMMA ReceivedNext == TypeOK /\ CleanupInv /\ Received /\ [Next]_vars => Received'
<1> SUFFICES ASSUME TypeOK, CleanupInv, Received, [Next]_vars PROVE Received'
  OBVIOUS
<1>1. starter = "started" => starter' = "started"
  BY StepsElsewhere DEF Elsewhere, Start, Prepare, Spawn, Abort, Arm, Finish, FinishBegins,
       ObserveGroup, AwaitChild, ObserveAgain, AwaitWorkers, Finalise, FinishFrame
<1>2. mail' = mail \/ mail # "none" \/ JobStarted
  <2>1. ASSUME NEW c \in Conns, Handling(c) PROVE mail' = mail \/ mail # "none"
    BY <2>1 DEF Handling, Judging, Serving, ReadRequest, ReadFails, Refuse, Verify, Offer, Dropped, TimesOut,
                PeerGone, Answered, Close, uiVars
  <2>2. CASE Start \/ AcceptLoop \/ WaitChild \/ Finish \/ Processes \/ UNCHANGED vars
    BY <2>2 DEF Start, Prepare, Spawn, Abort, Arm, StartFrame, AcceptLoop, AcceptEnds, Accept,
         Admit, AcceptFrame, WaitChild, WaitFrame, Finish, FinishBegins, ObserveGroup,
         AwaitChild, ObserveAgain, AwaitWorkers, Finalise, FinishFrame, Processes, ChildExits,
         Dial, Send, HelperEnds, Becomes, Outside, uiVars, vars
  <2>3. CASE Update \/ User
    BY <2>3 DEF Update, ShowDialog, RefuseEvent, Write, Settle, JobEnded, User, Answer, Escape,
                CancelOperation, Quit
  <2> QED BY <2>1, <2>2, <2>3 DEF Next, RestOfJob
<1>3. JobStarted => starter = "started"
  BY DEF JobStarted
<1> QED BY <1>1, <1>2, <1>3 DEF Received

IInv == TypeOK /\ ExchangeInv /\ CleanupInv /\ Received

(* The inductive invariant holds in every reachable state of the job.      *)
THEOREM JobInvariant == Spec => []IInv
<1>1. Init => IInv
  <2>1. Init => Received
    BY DEF Init, Received
  <2> QED BY <2>1, InitType, ExchangeInit, CleanupInit DEF IInv
<1>2. IInv /\ [Next]_vars => IInv'
  BY NextType, ExchangeNext, CleanupNext, ReceivedNext DEF IInv
<1> QED BY <1>1, <1>2, PTL DEF Spec

(* What a result says of the child is Homebrew's own only if nobody had    *)
(* cancelled the job, failed its authentication or let it run out of time  *)
(* before the result became final (finish); a success without a cleanup    *)
(* error is that of a child that was reaped.                               *)
LEMMA LatchesStay == [Next]_vars => (Stopped => Stopped')
<1> SUFFICES ASSUME [Next]_vars, Stopped PROVE Stopped'
  OBVIOUS
<1> USE DEF Stopped
<1>1. ASSUME UNCHANGED latches \/ CancelJob \/ FailAuthentication \/ TimeAuthenticationOut
      PROVE  Stopped'
  BY <1>1 DEF latches, CancelJob, FailAuthentication, TimeAuthenticationOut, Latch
<1>2. CASE Start \/ Finish
  BY <1>2 DEF Start, Prepare, Spawn, Abort, Arm, StartFrame, latches, Finish, FinishBegins,
              ObserveGroup, AwaitChild, ObserveAgain, AwaitWorkers, Finalise
<1>3. CASE AcceptLoop
  BY <1>1, <1>3 DEF AcceptLoop, AcceptEnds, Accept, Admit, AcceptFrame
<1>4. ASSUME NEW c \in Conns, Handling(c) PROVE Stopped'
  BY <1>1, <1>4 DEF Handling, Judging, Serving, ReadRequest, ReadFails, Refuse, Verify, Offer,
                    Dropped, TimesOut, PeerGone, Answered, Close
<1>5. CASE Update
  BY <1>1, <1>5 DEF Update, JobStarted, ShowDialog, RefuseEvent, Write, Settle, JobEnded, Cancels,
                    Undisturbed
<1>6. CASE User
  BY <1>1, <1>6 DEF User, Answer, Escape, CancelOperation, Quit, Cancels
<1>7. CASE WaitChild \/ Processes \/ UNCHANGED vars
  BY <1>1, <1>7 DEF WaitChild, WaitFrame, Processes, ChildExits, Dial, Send, HelperEnds, Becomes,
                    Outside, vars
<1> QED BY <1>2, <1>3, <1>4, <1>5, <1>6, <1>7 DEF Next, RestOfJob

LEMMA ResultIsOutcome ==
  ASSUME IInv, [Next]_vars, result = NoResult, result' # NoResult
  PROVE  \E unclean \in BOOLEAN : result' = Outcome(unclean)
<1>1. CASE Finalise
  <2>1. PICK survivor \in BOOLEAN, remains \in BOOLEAN :
          result' = Outcome(problem \/ survivor \/ remains)
    BY <1>1 DEF Finalise
  <2>2. (problem \/ survivor \/ remains) \in BOOLEAN
    OBVIOUS
  <2> QED BY <2>1, <2>2
<1>2. CASE ~Finalise
  BY <1>2, StepsElsewhere DEF Elsewhere, finishVars, Start, Prepare, Spawn, Abort, Arm, StartFrame,
       Finish, FinishBegins, ObserveGroup, AwaitChild, ObserveAgain, AwaitWorkers
<1> QED BY <1>1, <1>2

(* A result that is Homebrew's own is that of a job nobody had stopped     *)
(* when it became final (finish).                                          *)
THEOREM SuccessIsHomebrews == Spec => SuccessIsReal
<1>1. ASSUME IInv, IInv', [Next]_vars, result = NoResult, result' # NoResult, Homebrews(result')
      PROVE  /\ ~Stopped
             /\ result'.failed => child = "error"
             /\ ~result'.failed /\ ~result'.cleanupErr => child = "ok" /\ ChildDone
  <2>1. PICK unclean \in BOOLEAN : result' = Outcome(unclean)
    BY <1>1, ResultIsOutcome
  <2>2. ~authFailed /\ ~authTimedOut
    BY <1>1, <2>1 DEF Outcome, Homebrews
  <2>3. result'.cancelled = (cancelled /\ ~(authFailed \/ authTimedOut))
    BY <2>1 DEF Outcome
  <2>4. ~cancelled
    BY <1>1, <2>2, <2>3, Zenon DEF Homebrews
  <2>5. result'.failed = (ChildDone /\ child = "error" /\ ~cancelled /\ ~(authFailed \/ authTimedOut))
    BY <2>1 DEF Outcome
  <2>6. UNCHANGED <<child, waiter>>
    <3>1. Finish \/ UNCHANGED result
      BY <1>1, StepsElsewhere DEF Elsewhere, finishVars, Start, Prepare, Spawn, Abort, Arm, StartFrame
    <3> QED BY <1>1, <3>1 DEF Finish, FinishBegins, ObserveGroup, AwaitChild, ObserveAgain,
                              AwaitWorkers, Finalise, FinishFrame
  <2>7. ~result'.failed /\ ~result'.cleanupErr => child = "ok" /\ ChildDone
    BY <1>1, <2>6 DEF IInv, CleanupInv, Success, ChildDone
  <2> QED BY <2>2, <2>4, <2>5, <2>7, Zenon DEF Stopped
<1> QED BY <1>1, LatchesStay, JobInvariant, PTL DEF Spec, SuccessIsReal

(* A cleanup that reports no error has left no process, no goroutine and   *)
(* no file of the job, whichever of its deadlines passed.                  *)
THEOREM CleanupIsHonest == Spec => []SilentCleanup
<1>1. IInv => SilentCleanup
  BY Zenon DEF IInv, CleanupInv, Phases, CleanEnd, Quiet, SilentCleanup, Remains
<1> QED BY <1>1, JobInvariant, PTL

----------------------------------------------------------------------------
(* The refinement.  What the contract's variables stand for.               *)
Phase == IF starter \in {"started", "failed"} THEN starter ELSE "starting"
Asked == {c \in Conns : request[c] = "shown"}
Open == IF active # NoConn /\ request[active] = "shown" THEN active ELSE NoConn

(* A step that shows in none of them but, after the end, in what remains.  *)
LEMMA Hidden ==
  ASSUME UNCHANGED <<Phase, Asked, Open, result>>, Remains' => Remains,
         result = NoResult => (Remains => Remains')
  PROVE  [Contract!Next]_(Contract!contractVars)
<1>1. CASE Remains /\ ~Remains'
  <2>1. result # NoResult
    BY <1>1
  <2>2. Remains' = FALSE
    BY <1>1 DEF Remains
  <2>3. Contract!Subside
    BY <1>1, <2>1, <2>2 DEF Contract!Subside, Phase, Asked, Open
  <2> QED BY <2>3 DEF Contract!Next
<1>2. CASE Remains' = Remains
  BY <1>2 DEF Contract!contractVars, Phase, Asked, Open
<1>3. Remains \in BOOLEAN /\ Remains' \in BOOLEAN
  BY DEF Remains
<1> QED BY <1>1, <1>2, <1>3, Zenon

(* Once Start has returned what is left can only become less, and until    *)
(* the end the files are left.                                             *)
LEMMA RemainsOnlyShrinks ==
  ASSUME IInv, [Next]_vars, Elsewhere
  PROVE  /\ Remains' => Remains
         /\ result = NoResult => (Remains => Remains')
<1>1. files' = files
  BY DEF Elsewhere
<1>2. CASE starter = "started"
  <2>1. (GroupEmpty => GroupEmpty') /\ (WorkersDone => WorkersDone')
    BY <1>2, GroupStaysEmpty, WorkersStayDone DEF IInv
  <2>2. (ChildDone => ChildDone') /\ child # "none" /\ child' # "none"
    BY <1>2 DEF ChildDone, Elsewhere, IInv, CleanupInv, Phases
  <2>3. result = NoResult => files
    BY <1>2, Zenon DEF IInv, CleanupInv, Phases, FilesKept
  <2> QED BY <1>1, <2>1, <2>2, <2>3, Zenon DEF Remains
<1>3. CASE starter = "arm"
  BY <1>1, <1>3, Zenon DEF IInv, CleanupInv, FilesKept, Remains
<1>4. CASE starter \in {"setup", "spawn", "abort", "failed"}
  <2>1. child = "none" /\ child' = "none"
    BY <1>4 DEF Elsewhere, IInv, CleanupInv, Phases
  <2> QED BY <1>1, <2>1, Zenon DEF Remains
<1> QED BY <1>2, <1>3, <1>4 DEF IInv, TypeOK

(* The steps of Start, and the result.                                     *)
LEMMA StartRefines ==
  ASSUME IInv, Start PROVE [Contract!Next]_(Contract!contractVars)
<1>1. UNCHANGED <<Asked, Open, result>>
  BY DEF Start, Prepare, Spawn, Abort, Arm, StartFrame, exchange, Asked, Open
<1>2. CASE Prepare /\ starter' = "spawn"
  <2>1. Remains' = TRUE /\ Phase = "starting" /\ Phase' = Phase
    BY <1>2, Zenon DEF Prepare, Remains, Phase
  <2>2. Contract!Setup
    BY <1>1, <2>1, Zenon DEF Contract!Setup, Asked, Open, Phase
  <2> QED BY <2>2 DEF Contract!Next
<1>3. CASE Prepare /\ starter' = "failed"
  <2>1. Phase = "starting" /\ Phase' = "failed" /\ Remains' \in BOOLEAN
    BY <1>3 DEF Prepare, Remains, Phase
  <2>2. Contract!Fail
    BY <1>1, <2>1, Zenon DEF Contract!Fail, Asked, Open, Phase
  <2> QED BY <2>2 DEF Contract!Next
<1>4. CASE Spawn
  <2>1. Phase = "starting" /\ Phase' = Phase
    BY <1>4 DEF Spawn, Phase
  <2>2. files /\ files'
    BY <1>4, Zenon DEF Spawn, IInv, CleanupInv, FilesKept
  <2> QED BY <1>1, <2>1, <2>2, Hidden, Zenon DEF Remains
<1>5. CASE Abort
  <2>1. Phase = "starting" /\ Phase' = "failed" /\ Remains' \in BOOLEAN
    BY <1>5 DEF Abort, Remains, Phase
  <2>2. Contract!Fail
    BY <1>1, <2>1, Zenon DEF Contract!Fail, Asked, Open, Phase
  <2> QED BY <2>2 DEF Contract!Next
<1>6. CASE Arm
  <2>1. Phase = "starting" /\ Phase' = "started"
    BY <1>6 DEF Arm, Phase
  <2>2. files /\ files' = files
    BY <1>6, Zenon DEF Arm, IInv, CleanupInv, FilesKept
  <2>3. Remains' = TRUE
    BY <2>2, Zenon DEF Remains
  <2>4. Contract!Launch
    BY <1>1, <2>1, <2>3, Zenon DEF Contract!Launch, Asked, Open, Phase
  <2> QED BY <2>4 DEF Contract!Next
<1> QED BY <1>2, <1>3, <1>4, <1>5, <1>6 DEF Start, Prepare

LEMMA FinishRefines ==
  ASSUME IInv, Finish PROVE [Contract!Next]_(Contract!contractVars)
<1>1. /\ UNCHANGED <<Phase, Asked, Open>>
      /\ UNCHANGED <<starter, acceptor, handler, waiter, child, helper>>
  BY DEF Finish, FinishBegins, ObserveGroup, AwaitChild, ObserveAgain, AwaitWorkers, Finalise,
         FinishFrame, exchange, Phase, Asked, Open
<1>2. CASE ~Finalise
  <2>1. files' = files /\ result' = result
    BY <1>2 DEF Finish, FinishBegins, ObserveGroup, AwaitChild, ObserveAgain, AwaitWorkers
  <2>2. (GroupEmpty' <=> GroupEmpty) /\ (ChildDone' <=> ChildDone) /\ (WorkersDone' <=> WorkersDone)
    BY <1>1 DEF GroupEmpty, Alive, ChildDone, WorkersDone
  <2>3. Remains' <=> Remains
    BY <1>1, <2>1, <2>2, Zenon DEF Remains
  <2> QED BY <1>1, <2>1, <2>3, Hidden
<1>3. CASE Finalise
  <2>1. PICK unclean \in BOOLEAN : result' = Outcome(unclean)
    BY <1>3, Zenon DEF Finalise
  <2>2. result' \in Results /\ result'.cleanupErr = unclean
    BY <2>1, OutcomeType DEF Outcome, IInv
  <2>3. Phase = "started" /\ result = NoResult
    BY <1>3 DEF Finalise, Goto, Phase, IInv, CleanupInv, Phases
  <2>4. CleanupInv' /\ finisher' = "done"
    BY <1>3, CleanupFinish DEF IInv, Finalise, Goto
  <2>5. CASE unclean
    <3>1. Remains' \in BOOLEAN
      BY DEF Remains
    <3>2. Contract!Finish(result')
      BY <1>1, <2>2, <2>3, <2>5, <3>1 DEF Contract!Finish, Phase, Asked, Open
    <3> QED BY <2>2, <3>2 DEF Contract!Next
  <2>6. CASE ~unclean
    <3>1. Quiet' /\ WorkersDone' /\ ~files'
      BY <2>2, <2>4, <2>6, Zenon DEF CleanupInv, CleanEnd
    <3>2. Remains' = FALSE
      BY <3>1 DEF Remains, Quiet
    <3>3. Open = NoConn
      <4>1. \A c \in Conns : handler[c] \notin {"offering", "waiting"}
        BY <1>1, <3>1 DEF WorkersDone
      <4> QED BY <4>1 DEF Open, IInv, TypeOK, ExchangeInv, RequestIsServed
    <3>4. Contract!Finish(result')
      BY <1>1, <2>2, <2>3, <2>6, <3>2, <3>3 DEF Contract!Finish, Phase, Asked, Open
    <3> QED BY <2>2, <3>4 DEF Contract!Next
  <2> QED BY <2>5, <2>6
<1> QED BY <1>2, <1>3

(* A step of an exchange under way: what remains is unchanged by it.       *)
LEMMA RemainsWhileServing ==
  ASSUME IInv, Elsewhere, UNCHANGED <<acceptor, waiter, child, helper>>,
         \/ UNCHANGED handler
         \/ \E c \in Conns : handler[c] \notin {"none", "ended"} /\ handler'[c] \notin {"none", "ended"}
  PROVE  Remains' <=> Remains
<1>1. (GroupEmpty' <=> GroupEmpty) /\ (ChildDone' <=> ChildDone)
  BY DEF GroupEmpty, Alive, ChildDone
<1>2. WorkersDone' <=> WorkersDone
  BY DEF WorkersDone, Elsewhere
<1>3. files' = files /\ child' = child
  BY DEF Elsewhere
<1> QED BY <1>1, <1>2, <1>3, Zenon DEF Remains

(* The request is withdrawn by clearAndRespond and by RespondPassword.     *)
LEMMA WithdrawRefines ==
  ASSUME IInv, Elsewhere, Remains' <=> Remains, UNCHANGED request,
         active' \in {active, NoConn}
  PROVE  [Contract!Next]_(Contract!contractVars)
<1>1. UNCHANGED <<Phase, Asked, result>>
  BY DEF Elsewhere, finishVars, Phase, Asked
<1>2. CASE Open' = Open
  BY <1>1, <1>2, Hidden
<1>3. CASE Open' # Open
  <2>1. Open # NoConn /\ Open' = NoConn
    BY <1>3 DEF Open
  <2>2. Remains' = Remains
    BY DEF Remains
  <2>3. Contract!Withdraw
    BY <1>1, <2>1, <2>2 DEF Contract!Withdraw, Phase, Asked, Open
  <2> QED BY <2>3 DEF Contract!Next
<1> QED BY <1>2, <1>3

LEMMA HandlingRefines ==
  ASSUME IInv, NEW c \in Conns, Handling(c), [Next]_vars, Elsewhere
  PROVE  [Contract!Next]_(Contract!contractVars)
<1>1. UNCHANGED <<Phase, result>>
  BY DEF Elsewhere, finishVars, Phase
<1>2. CASE ReadRequest(c) \/ ReadFails(c) \/ Refuse(c) \/ Answered(c) \/ Close(c)
  <2>1. UNCHANGED <<request, active>>
    BY <1>2 DEF ReadRequest, ReadFails, Refuse, Answered, Close
  <2>2. UNCHANGED <<Asked, Open>>
    BY <2>1 DEF Asked, Open
  <2> QED BY <1>1, <2>2, Hidden, RemainsOnlyShrinks
<1>3. CASE Verify(c)
  <2>1. request[c] = "none" /\ request \in [Conns -> {"none", "verified", "shown"}]
    BY <1>3 DEF Verify, At, IInv, TypeOK, ExchangeInv, Requested
  <2>2. Asked' = Asked
    BY <1>3, <2>1 DEF Verify, Asked
  <2>3. Open' = Open
    BY <1>3, <2>1 DEF Verify, Open
  <2> QED BY <1>1, <2>2, <2>3, Hidden, RemainsOnlyShrinks
<1>4. CASE Offer(c)
  <2>1. /\ handler[c] = "offering" /\ request[c] = "verified" /\ active = c
        /\ request \in [Conns -> {"none", "verified", "shown"}]
        /\ request' = [request EXCEPT ![c] = "shown"] /\ active' = active
    BY <1>4 DEF Offer, At, IInv, TypeOK, ExchangeInv, Requested, InSlot
  <2>2. Remains' <=> Remains
    <3>1. handler'[c] = "waiting"
      BY <1>4 DEF Offer, At, IInv, TypeOK
    <3>2. UNCHANGED <<acceptor, waiter, child, helper>>
      BY <1>4 DEF Offer, HandlerFrame
    <3>3. handler[c] \notin {"none", "ended"} /\ handler'[c] \notin {"none", "ended"}
      BY <2>1, <3>1
    <3> QED BY <3>2, <3>3, RemainsWhileServing
  <2>3. Phase = "started"
    <3>1. mail = "waiting"
      BY <1>4 DEF Offer
    <3> QED BY <3>1 DEF IInv, Received, Phase
  <2>4. ~(result # NoResult /\ ~result.cleanupErr)
    <3>1. ~WorkersDone
      BY <2>1 DEF WorkersDone
    <3> QED BY <3>1, Zenon DEF IInv, CleanupInv, Phases, CleanEnd
  <2>5. Open = NoConn /\ Open' = c
    BY <2>1 DEF Open
  <2>6. c \notin Asked /\ Asked' = Asked \cup {c}
    BY <2>1 DEF Asked
  <2>7. Remains' = Remains
    BY <2>2 DEF Remains
  <2>8. Contract!Ask(c)
    BY <1>1, <2>3, <2>4, <2>5, <2>6, <2>7 DEF Contract!Ask, Contract!Clean, Phase, Asked, Open
  <2> QED BY <2>8 DEF Contract!Next
<1>5. CASE Dropped(c) \/ TimesOut(c) \/ PeerGone(c)
  <2>1. /\ handler[c] \in {"offering", "waiting"}
        /\ handler' = [handler EXCEPT ![c] = "closing"]
        /\ UNCHANGED <<request, acceptor, waiter, child, helper>>
        /\ active' \in {active, NoConn}
    BY <1>5 DEF Dropped, TimesOut, PeerGone, At, ClearAndRefuse, HandlerFrame
  <2>2. handler[c] \notin {"none", "ended"} /\ handler'[c] \notin {"none", "ended"}
    BY <2>1 DEF IInv, TypeOK
  <2>3. Remains' <=> Remains
    BY <2>1, <2>2, RemainsWhileServing
  <2> QED BY <2>1, <2>3, WithdrawRefines
<1> QED BY <1>2, <1>3, <1>4, <1>5 DEF Handling, Judging, Serving

LEMMA InterfaceRefines ==
  ASSUME IInv, Update \/ User, [Next]_vars, Elsewhere
  PROVE  [Contract!Next]_(Contract!contractVars)
<1>1. UNCHANGED <<request, handler, acceptor, waiter, child, helper>> /\ active' \in {active, NoConn}
  BY DEF Update, JobStarted, ShowDialog, RefuseEvent, Write, Settle, JobEnded, User, Answer,
         Escape, CancelOperation, Quit, UpdateFrame, Cancels, Undisturbed, exchange
<1>2. Remains' <=> Remains
  BY <1>1, RemainsWhileServing
<1> QED BY <1>1, <1>2, WithdrawRefines

LEMMA OthersRefine ==
  ASSUME IInv, AcceptLoop \/ WaitChild \/ Processes \/ UNCHANGED vars, [Next]_vars, Elsewhere
  PROVE  [Contract!Next]_(Contract!contractVars)
<1>1. UNCHANGED <<request, active>>
  BY DEF AcceptLoop, AcceptEnds, Accept, Admit, AcceptFrame, WaitChild, WaitFrame, Processes,
         ChildExits, Dial, Send, HelperEnds, Becomes, Outside, exchange, vars
<1>2. UNCHANGED <<Phase, Asked, Open, result>>
  BY <1>1 DEF Elsewhere, finishVars, Phase, Asked, Open
<1> QED BY <1>2, Hidden, RemainsOnlyShrinks

(* The job keeps its contract, which is all the interface and the          *)
(* Supervisor rely on: at most one request to answer, one result, and      *)
(* nothing left and nothing asked once it has ended cleanly.               *)
THEOREM JobKeepsContract == Spec => ImplementsContract
<1>1. Init => Contract!Init
  <2>1. Init => /\ starter = "setup" /\ ~files /\ child = "none" /\ result = NoResult
                /\ active = NoConn /\ \A c \in Conns : request[c] = "none"
    BY DEF Init
  <2>2. Init => Remains = FALSE
    BY <2>1 DEF Remains
  <2> QED BY <2>1, <2>2 DEF Contract!Init
<1>2. IInv /\ [Next]_vars => [Contract!Next]_(Contract!contractVars)
  <2> SUFFICES ASSUME IInv, [Next]_vars PROVE [Contract!Next]_(Contract!contractVars)
    OBVIOUS
  <2>1. CASE Start
    BY <2>1, StartRefines
  <2>2. CASE Finish
    BY <2>2, FinishRefines
  <2>3. CASE Elsewhere /\ (Update \/ User)
    BY <2>3, InterfaceRefines
  <2>4. ASSUME NEW c \in Conns, Handling(c), Elsewhere
        PROVE  [Contract!Next]_(Contract!contractVars)
    BY <2>4, HandlingRefines
  <2>5. CASE Elsewhere /\ (AcceptLoop \/ WaitChild \/ Processes \/ UNCHANGED vars)
    BY <2>5, OthersRefine
  <2> QED BY <2>1, <2>2, <2>3, <2>4, <2>5, StepsElsewhere DEF Next, RestOfJob
<1> QED BY <1>1, <1>2, JobInvariant, PTL DEF Spec, ImplementsContract, Contract!Spec
=============================================================================
