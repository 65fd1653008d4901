--------------------------- MODULE LoaderContract ---------------------------
(***************************************************************************)
(* What the interface may rely on in the information loader                *)
(* (internal/info/loader.go): at most one `brew info` runs, one that ends  *)
(* may bring on the next, and none starts once Cancel was called.  It is   *)
(* what lets finishQuit wait for one flag, infoPending.                    *)
(***************************************************************************)

VARIABLES
  pending,  \* a lookup runs
  stopped   \* Cancel was called

contractVars == <<pending, stopped>>

(* New may select a row of the snapshot before anything else happens.      *)
Init == pending \in BOOLEAN /\ stopped = FALSE

(* Select, Refresh: the lookup starts at once when none runs.              *)
Start == ~stopped /\ ~pending /\ pending' = TRUE /\ UNCHANGED stopped

(* Complete: the pending target, if there is one, is looked up next.       *)
Answer == pending /\ pending' \in BOOLEAN /\ (stopped => ~pending') /\ UNCHANGED stopped

Stop == stopped' = TRUE /\ UNCHANGED pending

Next == Start \/ Answer \/ Stop

Spec == Init /\ [][Next]_contractVars
=============================================================================
