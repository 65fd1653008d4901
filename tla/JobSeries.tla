------------------------------ MODULE JobSeries ------------------------------
(***************************************************************************)
(* The privileged jobs of a session, one operation after the other: each   *)
(* is a job of the contract (JobContract), and the next begins only when   *)
(* the one before failed to start or has given its result, and left        *)
(* nothing.  A request never comes twice, whichever job it belonged to.    *)
(***************************************************************************)
EXTENDS JobContract

(* The next job, which may have begun to come into being.                  *)
Another ==
  /\ phase = "failed" \/ Clean
  /\ phase' = "starting" /\ remains' \in BOOLEAN
  /\ open' = NoRequest /\ outcome' = NoResult
  /\ UNCHANGED asked

(* Withdraw and Finish: who only sees the result of a job that ended       *)
(* cleanly does not see when its last request was withdrawn.               *)
Conclude(o) ==
  /\ phase = "started" /\ outcome = NoResult /\ ~o.cleanupErr
  /\ outcome' = o /\ remains' = FALSE /\ open' = NoRequest
  /\ UNCHANGED <<phase, asked>>

SeriesNext == Next \/ Another \/ \E o \in Results : Conclude(o)
SeriesSpec == Init /\ [][SeriesNext]_contractVars
=============================================================================
