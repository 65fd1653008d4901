----------------------------- MODULE JobContract -----------------------------
(***************************************************************************)
(* What the interface and the Supervisor may rely on in a privileged job   *)
(* (the Job and Runner interfaces of internal/privileged): Start yields a  *)
(* job or nothing; at most one password request is open; there is one      *)
(* result, and a result without a cleanup error means that nothing of the  *)
(* job is left: no process, no goroutine, no file, no further request.     *)
(***************************************************************************)
EXTENDS FiniteSets

CONSTANTS Requests, NoRequest, NoResult, Results

VARIABLES
  phase,    \* Start: starting, started, failed
  remains,  \* a process, a worker or a file of the job exists
  asked,    \* requests whose event was received
  open,     \* the one among them that can still be answered
  outcome   \* the result of Wait

contractVars == <<phase, remains, asked, open, outcome>>

Init ==
  /\ phase = "starting" /\ remains = FALSE
  /\ asked = {} /\ open = NoRequest /\ outcome = NoResult

Clean == outcome # NoResult /\ ~outcome.cleanupErr

(* While Start runs things come into being; it may fail and leave some,    *)
(* which its error says.                                                   *)
Setup == phase = "starting" /\ remains' = TRUE /\ UNCHANGED <<phase, asked, open, outcome>>
Launch ==
  /\ phase = "starting" /\ phase' = "started" /\ remains' = TRUE
  /\ UNCHANGED <<asked, open, outcome>>
Fail ==
  /\ phase = "starting" /\ phase' = "failed" /\ remains' \in BOOLEAN
  /\ UNCHANGED <<asked, open, outcome>>

Ask(r) ==
  /\ phase = "started" /\ ~Clean
  /\ open = NoRequest /\ r \notin asked
  /\ open' = r /\ asked' = asked \cup {r}
  /\ UNCHANGED <<phase, remains, outcome>>

(* Answered, cancelled, timed out, or its asker has gone.                  *)
Withdraw == open # NoRequest /\ open' = NoRequest /\ UNCHANGED <<phase, remains, asked, outcome>>

Finish(o) ==
  /\ phase = "started" /\ outcome = NoResult /\ outcome' = o
  /\ IF o.cleanupErr THEN remains' \in BOOLEAN /\ UNCHANGED open
                     ELSE remains' = FALSE /\ open = NoRequest /\ UNCHANGED open
  /\ UNCHANGED <<phase, asked>>

(* What an unclean end left may still come to its own end.                 *)
Subside ==
  /\ outcome # NoResult /\ remains /\ remains' = FALSE
  /\ UNCHANGED <<phase, asked, open, outcome>>

Next ==
  \/ Setup \/ Launch \/ Fail \/ Withdraw \/ Subside
  \/ \E r \in Requests : Ask(r)
  \/ \E o \in Results : Finish(o)

Spec == Init /\ [][Next]_contractVars
=============================================================================
