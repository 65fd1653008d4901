--------------------------- MODULE OperationQueue ---------------------------
(***************************************************************************)
(* What the operation queue promises, without the screen, the messages or  *)
(* the job: confirmed entries run one at a time, in the order they were    *)
(* confirmed; a waiting entry starts only as the direct successor of one   *)
(* that succeeded; any other end drops everything that waits.              *)
(***************************************************************************)
EXTENDS Integers, Sequences

CONSTANTS Entries, None

VARIABLES
  phase,    \* "idle", "running", "succeeded", "failed" or "over"
  running,  \* the entry of the current job, None when idle
  waiting   \* the entries confirmed behind it

vars == <<phase, running, waiting>>

TypeOK ==
  /\ phase \in {"idle", "running", "succeeded", "failed", "over"}
  /\ running \in Entries \cup {None}
  /\ waiting \in Seq(Entries)

(* No entry waits twice, or behind itself.                                 *)
NoDuplicates ==
  /\ \A i, j \in DOMAIN waiting : waiting[i] = waiting[j] => i = j
  /\ \A i \in DOMAIN waiting : waiting[i] # running

Init == phase = "idle" /\ running = None /\ waiting = <<>>

(* A run begins with one confirmed entry, and those confirmed with it.     *)
Begin ==
  /\ phase = "idle"
  /\ phase' = "running" /\ running' \in Entries
  /\ waiting' \in Seq(Entries)

(* An entry confirmed during a run waits its turn.                         *)
Add ==
  /\ phase # "idle"
  /\ \E e \in Entries : waiting' = Append(waiting, e)
  /\ UNCHANGED <<phase, running>>

(* The job's outcome.                                                      *)
Report ==
  /\ phase = "running"
  /\ phase' \in {"succeeded", "failed"}
  /\ UNCHANGED <<running, waiting>>

(* A success hands over to the entry that waited longest.                  *)
Advance ==
  /\ phase = "succeeded" /\ waiting # <<>>
  /\ running' = Head(waiting) /\ waiting' = Tail(waiting)
  /\ phase' = "running"

(* The run has no job any more: its list is loaded again, or the program   *)
(* quits.  What still waits may be dropped, and never starts.              *)
Conclude ==
  /\ phase \in {"running", "succeeded", "failed"}
  /\ phase' = "over" /\ UNCHANGED running
  /\ waiting' \in {waiting, <<>>}

(* The run ends and nothing waits behind it any more.                      *)
End ==
  /\ phase # "idle" /\ phase' = "idle"
  /\ running' = None /\ waiting' = <<>>

Next == Begin \/ Add \/ Report \/ Advance \/ Conclude \/ End
Spec == Init /\ [][Next]_vars
=============================================================================
