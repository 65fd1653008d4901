---------------------------- MODULE PeerJudgement ----------------------------
(***************************************************************************)
(* The privileged job whose handlers judge their peers by the evidence     *)
(* (handleConnection, with acquirePeerEvidence and verifyPeerEvidence).    *)
(***************************************************************************)
EXTENDS PrivilegedJob, PeerVerification

VARIABLE peer   \* per connection, from its judgement until its handler lets go: who its peer is
judgedVars == <<vars, peer>>

(* A history with the verdict of the code.                                 *)
Verdicts == {[accepted |-> Accepts(Seen(h), h.limit), is |-> Identity(h)] : h \in Histories}

Judge(c) ==
  \E v \in Verdicts :
    /\ IF v.accepted THEN Verify(c) ELSE Refuse(c)
    /\ peer' = [peer EXCEPT ![c] = v.is]

Serve(c) ==
  /\ Serving(c)
  /\ peer' = [peer EXCEPT ![c] = IF handler'[c] \in {"closing", "ended"} THEN "unknown" ELSE @]

JudgedInit == Init /\ peer = [c \in Conns |-> "unknown"]
JudgedNext ==
  \/ RestOfJob /\ UNCHANGED peer
  \/ \E c \in Conns : Serve(c) \/ Judge(c)

JudgedSpec == JudgedInit /\ [][JudgedNext]_judgedVars /\ Fairness

----------------------------------------------------------------------------
(* Only a helper of this job is let through to the password dialog: not    *)
(* another process, however it stands to the job's, nor one that is gone,  *)
(* or whose sudo or Homebrew child is gone, when it is read again, however *)
(* the exits fall between the readings (peer_darwin.go:290).               *)
OnlyHelpersAreServed ==
  \A c \in Conns :
    handler[c] \in {"offering", "waiting"} => peer[c] \in {"helper", "disturbed"}

(* A helper that nothing happens to is let through, at the limit of the    *)
(* walk too (peer_darwin.go:288); but for a job that has been cancelled.   *)
HelperIsServed ==
  [][\A c \in Conns :
       handler[c] = "verifying" /\ handler'[c] # "verifying" /\ peer'[c] = "helper"
         => request'[c] = "verified" \/ cancelled]_judgedVars
=============================================================================
