----------------------------- MODULE TrustReview -----------------------------
(***************************************************************************)
(* The trust review: `t` on an untrusted row loads its provenance, `y`     *)
(* runs `brew trust`, escape and a small terminal abandon the command.     *)
(* An abandoned command is cancelled but may still have done its work; its *)
(* message is recognised as stale and dropped.                             *)
(***************************************************************************)
EXTENDS SessionSteps

OutsideUntouched ==
  UNCHANGED <<term, kind, loadVars, sizeVars, dialogVars, runVars, batchVars, holdVars,
              passwordVars, jobVars, closing, installed, outdated, succeeded>>
RowsUntouched == UNCHANGED <<viewVars, infoPending>>

(* A new command gets the current ID, every older one becomes stale.       *)
SupersededFlawed(commands) == commands
Superseded(commands) == {[c EXCEPT !.current = FALSE] : c \in commands}
Launch(what, p, commands) ==
  trusts' = Superseded(commands) \cup {[what |-> what, pkg |-> p, current |-> TRUE]}

(* cancelTrust.  Assigns trustVars, mode and claim.                        *)
CancelTrust(commands) ==
  /\ trusts' = Superseded(commands)
  /\ trustPending' = FALSE /\ trusting' = FALSE
  /\ trustPackage' = NoPkg /\ trustLoaded' = FALSE /\ trustErr' = FALSE
  /\ mode' = "normal" /\ claim' = NoClaim

(* reviewTrust and startTrustDetails.                                      *)
ReviewTrust ==
  /\ NormalKey("t") /\ ~JobRunning
  /\ \E r \in rows :
       /\ r.untrusted
       /\ IF TrustReviewFits(term, FALSE)
          THEN /\ mode' = "trust" /\ claim' = NoClaim
               /\ trustPackage' = r.name
               /\ trustLoaded' = FALSE /\ trustErr' = FALSE /\ trusting' = FALSE
               /\ trustPending' = TRUE
               /\ Launch("details", r.name, trusts)
          ELSE CancelTrust(trusts)
  /\ UNCHANGED <<untrusted, quitExitCode, exited>>
  /\ RowsUntouched /\ OutsideUntouched

(* updateTrust.  While a command runs only escape is heard.                *)
AbandonTrust ==
  /\ KeyboardOpen("other") /\ mode = "trust"
  /\ CancelTrust(trusts)
  /\ UNCHANGED <<untrusted, quitExitCode, exited>>
  /\ RowsUntouched /\ OutsideUntouched

(* updateTrust with y on loaded provenance, and startTrust.                *)
StartTrust ==
  /\ KeyboardOpen("y") /\ mode = "trust"
  /\ ~trustPending /\ trustLoaded /\ ~trustErr /\ trustPackage # NoPkg
  /\ trustPending' = TRUE /\ trusting' = TRUE /\ trustErr' = FALSE
  /\ Launch("trust", trustPackage, trusts)
  /\ claim' = NoClaim
  /\ UNCHANGED <<mode, trustPackage, trustLoaded, untrusted, quitExitCode, exited>>
  /\ RowsUntouched /\ OutsideUntouched

----------------------------------------------------------------------------
(* `brew trust` takes effect outside the process; so may one whose context *)
(* was cancelled while it ran.  TrustOutcome picks what a command reports. *)
TrustOutcome(c, ok) ==
  \/ c.what = "details" /\ UNCHANGED untrusted
  \/ c.what = "trust" /\ untrusted' = untrusted \ {c.pkg}
  \/ c.what = "trust" /\ ~ok /\ UNCHANGED untrusted

(* The message of an abandoned command is dropped, whatever it says.       *)
DropStaleTrust ==
  /\ ~exited
  /\ \E c \in trusts, ok \in BOOLEAN :
       ~c.current /\ trusts' = trusts \ {c} /\ TrustOutcome(c, ok)
  /\ UNCHANGED <<mode, claim, trustPackage, trustLoaded, trustErr, trustPending, trusting,
                 quitExitCode, exited>>
  /\ RowsUntouched /\ OutsideUntouched

(* The current command reports: it is no longer pending.                   *)
TakeTrustFlawed(c, ok) == ~exited /\ c \in trusts /\ TrustOutcome(c, ok)
TakeTrust(c, ok) ==
  /\ ~exited /\ c \in trusts /\ c.current
  /\ TrustOutcome(c, ok)

TrustWhileQuitting(c, ok) ==
  /\ TakeTrust(c, ok) /\ mode = "quitting"
  /\ trusts' = trusts \ {c} /\ trustPending' = FALSE
  /\ UNCHANGED <<mode, claim, trustPackage, trustLoaded, trustErr, trusting>>
  /\ RowsUntouched /\ OutsideUntouched
  /\ FinishQuit(quitExitCode)

(* handleTrustDetailsResult: provenance or an error fills the modal, which *)
(* closes again when the terminal is too small for the fuller form.        *)
DetailsArrive(c, ok) ==
  /\ TakeTrust(c, ok) /\ mode # "quitting" /\ c.what = "details"
  /\ IF TrustReviewFits(term, ok)
     THEN /\ trusts' = trusts \ {c} /\ trustPending' = FALSE
          /\ trustLoaded' = ok /\ trustErr' = ~ok
          /\ claim' = NoClaim
          /\ UNCHANGED <<mode, trustPackage, trusting>>
     ELSE CancelTrust(trusts \ {c})
  /\ UNCHANGED <<quitExitCode, exited>>
  /\ RowsUntouched /\ OutsideUntouched

(* handleTrustResult, failed: the review stays open with the error.        *)
TrustFails(c) ==
  /\ TakeTrust(c, FALSE) /\ mode # "quitting" /\ c.what = "trust"
  /\ trusts' = trusts \ {c} /\ trustPending' = FALSE
  /\ trusting' = FALSE /\ trustErr' = TRUE /\ claim' = NoClaim
  /\ UNCHANGED <<mode, trustPackage, trustLoaded, quitExitCode, exited>>
  /\ RowsUntouched /\ OutsideUntouched

(* finishTrust's edit of a retained list.                                  *)
UnmarkFlawed(list, p) == {r \in list : r.name # p}
Unmark(list, p) == {IF r.name = p THEN [r EXCEPT !.untrusted = FALSE] ELSE r : r \in list}

(* handleTrustResult and finishTrust: the mark leaves the retained list of *)
(* the package's kind, which becomes retained if it was not.               *)
TrustSucceeds(c) ==
  /\ TakeTrust(c, TRUE) /\ mode # "quitting" /\ c.what = "trust"
  /\ trustPackage # NoPkg
  /\ LET k == KindOf[trustPackage] IN
       /\ cached' = cached \cup {k}
       /\ listCache' = [listCache EXCEPT ![k] = Unmark(@, trustPackage)]
       /\ rows' = IF kind = k THEN listCache'[k] ELSE rows
  /\ UNCHANGED sizesKnown /\ PersistSnapshot
  /\ SelectInfo
  /\ trusts' = trusts \ {c} /\ trustPending' = FALSE /\ trusting' = FALSE
  /\ trustPackage' = NoPkg /\ trustLoaded' = FALSE /\ trustErr' = FALSE
  /\ mode' = "normal" /\ claim' = NoClaim
  /\ UNCHANGED <<quitExitCode, exited>>
  /\ OutsideUntouched

TrustKey == ReviewTrust \/ AbandonTrust \/ StartTrust

TrustStep ==
  \/ DropStaleTrust
  \/ \E c \in trusts :
       \/ \E ok \in BOOLEAN : TrustWhileQuitting(c, ok) \/ DetailsArrive(c, ok)
       \/ TrustFails(c)
       \/ TrustSucceeds(c)
=============================================================================
