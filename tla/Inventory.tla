------------------------------ MODULE Inventory ------------------------------
(***************************************************************************)
(* The inventory half of the Update loop: browsing and display keys,       *)
(* search, the kind switch and its list cache, refresh, the size pass,     *)
(* package info, and the results of the commands they start.               *)
(*                                                                         *)
(* The query, the sort order and the cursor are abstracted: any row of     *)
(* `rows` can be the selected one.  The loader behind infoPending is       *)
(* reduced to what the model sees of it: Select may hand back a command,   *)
(* and Complete may hand back the next one, unless Cancel stopped it.      *)
(***************************************************************************)
EXTENDS SessionSteps

(* loadPackages: the joined reads of one kind.  A failed outdated or       *)
(* untrusted read leaves the rows unmarked, never the load failed.         *)
Listing(k, offers, marks) ==
  {[name |-> p, offered |-> p \in offers, untrusted |-> p \in marks] :
     p \in {q \in installed : KindOf[q] = k}}

Reads(actual) == IF LossyReads THEN {actual, {}} ELSE {actual}

OtherKind(k) == CHOOSE other \in Kinds : other # k

LoadUntouched == UNCHANGED <<loadVars, sizeVars, sizesKnown, disk>>
OperationUntouched ==
  UNCHANGED <<runVars, batchVars, holdVars, passwordVars, jobVars>>
RestUntouched ==
  UNCHANGED <<term, dialogVars, trustVars, closing, worldVars>>

----------------------------------------------------------------------------
(* Cursor keys: the selection moves, info for it may start.                *)
Browse ==
  /\ NormalKey("browse") /\ rows # {}
  /\ UNCHANGED <<mode, kind, claim, rows, cached, listCache, quitExitCode, exited>>
  /\ SelectInfo
  /\ LoadUntouched /\ OperationUntouched /\ RestUntouched

(* `n`, and `a` on the cask list: only the status line changes.            *)
StatusKey ==
  /\ NormalKey("display")
  /\ claim' = NoClaim
  /\ UNCHANGED <<mode, kind, rows, cached, listCache, infoPending, quitExitCode, exited>>
  /\ LoadUntouched /\ OperationUntouched /\ RestUntouched

(* `a`, `f`, `o`: the retained list is rendered again; with none retained  *)
(* the key leaves rows and status alone.                                   *)
Reorder ==
  /\ NormalKey("display") /\ kind \in cached
  /\ rows' = listCache[kind] /\ claim' = NoClaim
  /\ SelectInfo
  /\ UNCHANGED <<mode, kind, cached, listCache, quitExitCode, exited>>
  /\ LoadUntouched /\ OperationUntouched /\ RestUntouched

(* applyQuery: visible rows are rebuilt from the retained list, if any.    *)
ApplyQuery == rows' = IF kind \in cached THEN listCache[kind] ELSE rows

EnterSearch ==
  /\ NormalKey("search") /\ ~JobRunning
  /\ mode' = "search"
  /\ UNCHANGED <<kind, claim, rows, cached, listCache, infoPending, quitExitCode, exited>>
  /\ LoadUntouched /\ OperationUntouched /\ RestUntouched

(* Typing, erasing and escape re-apply the query; enter only leaves.       *)
SearchKey ==
  /\ KeyboardOpen("search") /\ mode = "search"
  /\ \/ mode' = "search" /\ ApplyQuery /\ SelectInfo
     \/ mode' = "normal" /\ ApplyQuery /\ SelectInfo
     \/ mode' = "normal" /\ UNCHANGED <<rows, infoPending>>
  /\ UNCHANGED <<kind, claim, cached, listCache, quitExitCode, exited>>
  /\ LoadUntouched /\ OperationUntouched /\ RestUntouched

(* switchKind, from normal mode or out of the search row: a retained kind  *)
(* is served from the cache, any other is listed.                          *)
SwitchKind ==
  /\ KeyboardOpen("tab") /\ mode \in {"normal", "operation", "search"}
  /\ ~JobRunning
  /\ mode' = "normal" /\ claim' = NoClaim
  /\ kind' = OtherKind(kind)
  /\ \/ /\ kind' \in cached
        /\ rows' = listCache[kind']
        /\ SelectInfo
        /\ UNCHANGED loadVars
     \/ /\ kind' \notin cached
        /\ rows' = {}
        /\ StartLoad(kind', "switch", FALSE)
        /\ UNCHANGED infoPending
  /\ UNCHANGED <<cached, listCache, sizesKnown, disk, sizeVars, quitExitCode, exited>>
  /\ OperationUntouched /\ RestUntouched

(* `r`: all three caches are dropped and the active kind is listed again.  *)
Refresh ==
  /\ NormalKey("r") /\ ~JobRunning
  /\ InvalidateCaches
  /\ StartLoad(kind, "refresh", FALSE)
  /\ UNCHANGED <<mode, kind, claim, rows, disk, infoPending, quitExitCode, exited>>
  /\ OperationUntouched /\ RestUntouched

----------------------------------------------------------------------------
(* A load's message is handled: its handle is cleared and loading ends.    *)
TakeLoad(c) ==
  /\ ~exited /\ c \in lists
  /\ lists' = lists \ {c}
  /\ loading' = FALSE /\ UNCHANGED loadPurpose

ViewUntouched ==
  UNCHANGED <<kind, rows, cached, listCache, sizesKnown, disk, sizeVars>>
JobUntouched ==
  UNCHANGED <<verb, operationID, holdVars, passwordVars, jobVars>>

LoadWhileQuitting(c) ==
  /\ TakeLoad(c) /\ mode = "quitting"
  /\ UNCHANGED <<mode, claim, infoPending, queue, operation, cancelReason, batchVars>>
  /\ ViewUntouched /\ JobUntouched /\ RestUntouched
  /\ FinishQuit(quitExitCode)

ReloadCancelled(c) == c.purpose = "afterOperation" /\ cancelReason = "terminal"

(* A resize cancelled the reload that ends an operation: rows stay as they *)
(* are, whatever the load read.                                            *)
LoadCancelled(c) ==
  /\ TakeLoad(c) /\ mode # "quitting" /\ ReloadCancelled(c)
  /\ FinishOperation
  /\ ViewUntouched /\ JobUntouched
  /\ SelectInfo
  /\ UNCHANGED <<confirmation, confirmVerb, term, trustVars, closing, worldVars,
                 quitExitCode, exited>>

(* A failed list empties the pane and caches nothing; a failed reload ends *)
(* the operation with the load's error instead of a success.               *)
LoadFailed(c) ==
  /\ TakeLoad(c) /\ mode # "quitting" /\ ~ReloadCancelled(c)
  /\ rows' = {}
  /\ IF c.purpose = "afterOperation"
     THEN FinishOperation
     ELSE /\ claim' = NoClaim
          /\ UNCHANGED <<mode, batchConfirmation, operation, queue, cancelReason, batchVars>>
  /\ UNCHANGED <<kind, cached, listCache, sizesKnown, disk, sizeVars, infoPending,
                 confirmation, confirmVerb, term, trustVars, closing, worldVars,
                 quitExitCode, exited>>
  /\ JobUntouched

(* What the status line says once a load succeeded: only the reload that   *)
(* ends an operation reports it as done.                                   *)
LoadClaimFlawed(c) ==
  IF c.purpose # "afterOperation" THEN NoClaim
  ELSE [entry |-> [verb |-> verb, pkg |-> confirmation], total |-> 0]
LoadClaim(c) ==
  IF c.purpose # "afterOperation" THEN NoClaim
  ELSE IF c.fleet THEN [entry |-> NoEntry, total |-> batchTotal]
  ELSE [entry |-> [verb |-> verb, pkg |-> operation], total |-> 0]

(* The kinds a load replaces, and the list it replaces them with.          *)
RetainFlawed(c, offers, marks) ==
  cached' = Kinds /\ listCache' = [listCache EXCEPT ![c.kind] = Listing(c.kind, offers, marks)]
Retain(c, offers, marks) ==
  LET loaded == IF c.fleet THEN Kinds ELSE {c.kind} IN
  /\ cached' = cached \cup loaded
  /\ listCache' = [k \in Kinds |->
       IF k \in loaded THEN Listing(k, offers, marks) ELSE listCache[k]]

LoadSucceeded(c) ==
  /\ TakeLoad(c) /\ mode # "quitting" /\ ~ReloadCancelled(c)
  /\ \E offers \in Reads(outdated), marks \in Reads(untrusted) : Retain(c, offers, marks)
  /\ rows' = listCache'[c.kind]
  /\ UNCHANGED sizesKnown /\ PersistSnapshot
  /\ mode' = "normal"
  /\ claim' = LoadClaim(c)
  /\ IF c.purpose = "afterOperation"
     THEN operation' = NoPkg /\ cancelReason' = "none"
     ELSE UNCHANGED <<operation, cancelReason>>
  /\ IF c.fleet THEN ClearBatch ELSE UNCHANGED <<batchConfirmation, batchVars>>
  /\ SelectInfo
  /\ UNCHANGED <<kind, sizeVars, confirmation, confirmVerb, term, trustVars,
                 closing, worldVars, quitExitCode, exited, queue>>
  /\ JobUntouched

----------------------------------------------------------------------------
(* handleSizesResult: a superseded pass is discarded.  A measurement is    *)
(* persisted with the lists; a failed one keeps what is known.             *)
SizesSuperseded ==
  /\ ~exited /\ "superseded" \in sizes
  /\ sizes' = sizes \ {"superseded"}
  /\ UNCHANGED <<mode, kind, claim, rows, cached, listCache, sizesKnown, disk,
                 loadVars, sizesPending, infoPending, quitExitCode, exited>>
  /\ OperationUntouched /\ RestUntouched

TakeSizes ==
  /\ ~exited /\ "current" \in sizes
  /\ sizes' = sizes \ {"current"}
  /\ sizesPending' = FALSE

SizesWhileQuittingFlawed ==
  /\ TakeSizes /\ mode = "quitting"
  /\ UNCHANGED <<mode, kind, claim, rows, cached, listCache, sizesKnown, disk,
                 loadVars, infoPending, quitExitCode, exited>>
  /\ OperationUntouched /\ RestUntouched
SizesWhileQuitting ==
  /\ TakeSizes /\ mode = "quitting"
  /\ UNCHANGED <<mode, kind, claim, rows, cached, listCache, sizesKnown, disk,
                 loadVars, infoPending>>
  /\ OperationUntouched /\ RestUntouched
  /\ FinishQuit(quitExitCode)

SizesFailed ==
  /\ TakeSizes /\ mode # "quitting"
  /\ UNCHANGED <<mode, kind, claim, rows, cached, listCache, sizesKnown, disk,
                 loadVars, infoPending, quitExitCode, exited>>
  /\ OperationUntouched /\ RestUntouched

(* Under a size sort the retained list is re-ordered, except while a list  *)
(* loads or a job's window is open.                                        *)
SizesMeasured ==
  /\ TakeSizes /\ mode # "quitting"
  /\ sizesKnown' = TRUE
  /\ UNCHANGED <<mode, kind, claim, cached, listCache, loadVars, quitExitCode, exited>>
  /\ PersistSnapshot
  /\ \/ UNCHANGED <<rows, infoPending>>
     \/ /\ ~loading /\ mode # "operation" /\ kind \in cached
        /\ rows' = listCache[kind] /\ SelectInfo
  /\ OperationUntouched /\ RestUntouched

(* info.Result: the loader may start the retained pending target next.     *)
InfoCompleted ==
  /\ ~exited /\ infoPending
  /\ infoPending' \in (IF closing THEN {FALSE} ELSE BOOLEAN)
  /\ UNCHANGED <<mode, kind, claim, rows, cached, listCache>>
  /\ LoadUntouched /\ OperationUntouched /\ RestUntouched
  /\ IF mode = "quitting" THEN FinishQuit(quitExitCode)
     ELSE UNCHANGED <<quitExitCode, exited>>

LoadStep ==
  \E c \in lists :
    LoadWhileQuitting(c) \/ LoadCancelled(c) \/ LoadFailed(c) \/ LoadSucceeded(c)
SizesStep == SizesSuperseded \/ SizesWhileQuitting \/ SizesFailed \/ SizesMeasured

InventoryKey ==
  Browse \/ StatusKey \/ Reorder \/ EnterSearch \/ SearchKey \/ SwitchKind \/ Refresh
=============================================================================
