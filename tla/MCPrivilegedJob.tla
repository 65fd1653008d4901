--------------------------- MODULE MCPrivilegedJob ---------------------------
(***************************************************************************)
(* The privileged job with two helpers, and the process tables its peer    *)
(* verification is tried on: the helper, the tracked child and two         *)
(* processes that may stand between them.                                  *)
(***************************************************************************)
EXTENDS PeerJudgement

CONSTANTS helper1, first, second, brew

Processes4 == {helper1, first, second, brew}

(* Nobody's parent is itself, and the child's ancestors are not looked at; *)
(* the process after the helper is called first.                           *)
Lineages ==
  {l \in [Processes4 -> Processes4 \cup {Launchd}] :
     /\ l[brew] = Launchd /\ \A p \in Processes4 : l[p] # p
     /\ second # l[helper1] /\ helper1 # l[second]}

Shapings ==
  {s \in [Processes4 -> Shapes] :
     /\ s[helper1] \in {"self", "other"} /\ s[brew] \in {"other", "restrictedOther"}
     /\ s[first] \in Shapes \ {"self"}
     /\ s[second] \in {"restrictedOther", "other", "hidden"}}

(* At most one of them is outside the group.                               *)
Memberships == {Processes4 \ {p} : p \in Processes4} \cup {Processes4}

(* The walk is cut after three processes and after all of them.  Every     *)
(* table is looked at while nobody exits; and those with a helper while    *)
(* any one or two processes exit between any readings.                     *)
Limits == {3, 4}
Steady == [p \in Processes4 |-> 7]
Still == [table: [parent: Lineages, shape: Shapings, members: Memberships],
          exits: {Steady}, limit: Limits]
Exits == {[Steady EXCEPT ![p] = i, ![q] = j] : p \in Processes4, q \in Processes4,
                                               i \in 0..6, j \in 0..6}
Ourselves == {h \in Still : Ours(h.table, h.limit)}
MCHistories == Still \cup {[h EXCEPT !.exits = e] : e \in Exits, h \in Ourselves}
=============================================================================
