-------------------------- MODULE PeerVerification --------------------------
(***************************************************************************)
(* peer_darwin.go: whether the process at the other end of an askpass      *)
(* connection is this job's helper: this very program, run by a sudo in    *)
(* askpass mode, below the tracked Homebrew child and in its group.        *)
(*                                                                         *)
(* The evidence is read process by process while the process table changes:*)
(* reading i of the walk, and those after it, see table at[i].             *)
(***************************************************************************)
EXTENDS Naturals, Sequences, FiniteSets

CONSTANTS
  Pids, Peer, Tracked,
  Launchd,    \* what a process without a parent of ours has
  Histories   \* bound: the process tables looked at, and what becomes of them

(* What the kernel tells of a process: this program, sudo with and without *)
(* -A in its arguments, sudo or another program whose arguments it keeps   *)
(* to itself (Restricted), any other program, or nothing.                  *)
Sudos == {"sudo", "bareSudo", "restrictedSudo"}
Restricted == {"restrictedSudo", "restrictedOther"}
Shapes == Sudos \cup Restricted \cup {"self", "other", "hidden"}
Tables == [parent: [Pids -> Pids \cup {Launchd}], shape: [Pids -> Shapes], members: SUBSET Pids]

ASSUME ProcessesAssumption ==
  IsFiniteSet(Pids) /\ Peer \in Pids /\ Tracked \in Pids /\ Launchd \notin Pids
ASSUME HistoriesAssumption ==
  \A h \in Histories :
    h.table \in Tables /\ h.exits \in [Pids -> Nat] /\ h.limit \in Nat \ {0}

----------------------------------------------------------------------------
(* acquireProcess, and the walk of acquirePeerEvidence from the peer to    *)
(* the tracked child, a link per reading: the chain of processes, empty    *)
(* when it fails.                                                          *)
Readable(t, p) == p \in Pids /\ t.shape[p] # "hidden"

Ancestor(before, t, chain) ==
  LET last == chain[Len(chain)]
      next == before.parent[last]
      seen == {chain[i] : i \in DOMAIN chain}
  IN IF last = Tracked THEN chain
     ELSE IF Readable(t, next) /\ next \notin seen THEN Append(chain, next) ELSE <<>>

Walks(at, limit) ==
  LET walk[n \in 1..limit] ==
        IF n = 1 THEN IF Readable(at[1], Peer) THEN <<Peer>> ELSE <<>>
        ELSE IF walk[n - 1] = <<>> THEN <<>> ELSE Ancestor(at[n - 1], at[n], walk[n - 1])
  IN walk

Walk(at, limit) ==
  LET chain == Walks(at, limit)[limit]
  IN IF chain # <<>> /\ chain[Len(chain)] = Tracked THEN chain ELSE <<>>

(* sameProcessEvidence; sudo's arguments are compared too, and tell the    *)
(* shapes of sudo apart.                                                   *)
Path(shape) == IF shape \in {"sudo", "bareSudo"} THEN "sudo" ELSE shape
SameProcess(before, after, p, arguments) ==
  /\ Readable(after, p) /\ after.parent[p] = before.parent[p]
  /\ p \in after.members <=> p \in before.members
  /\ Path(after.shape[p]) = Path(before.shape[p])
  /\ arguments => after.shape[p] = before.shape[p]

(* After the walk the peer, its sudo and the child are read once more; the *)
(* links between are not.                                                  *)
AcquireFlawed(at, limit) ==
  LET chain == Walk(at, limit)
      n == Len(chain)
  IN IF /\ chain # <<>>
        /\ SameProcess(at[1], at[n + 1], Peer, FALSE)
        /\ n > 1 => SameProcess(at[2], at[n + 2], chain[2], TRUE)
     THEN chain ELSE <<>>
Acquire(at, limit) ==
  LET chain == Walk(at, limit)
      n == Len(chain)
  IN IF /\ chain # <<>>
        /\ SameProcess(at[1], at[n + 1], Peer, FALSE)
        /\ n > 1 => SameProcess(at[2], at[n + 2], chain[2], TRUE)
        /\ SameProcess(at[n], at[n + 3], Tracked, FALSE)
     THEN chain ELSE <<>>

(* verifyPeerEvidence: of each link, what its reading told.                *)
Shape(at, chain, i) == at[i].shape[chain[i]]
VerifiedFlawed(at, chain) ==
  /\ Len(chain) >= 3
  /\ Shape(at, chain, 1) = "self"
  /\ Shape(at, chain, 2) \in {"sudo", "restrictedSudo"}
  /\ \A i \in {1, 2, Len(chain)} : chain[i] \in at[i].members
  /\ \A i \in DOMAIN chain : Shape(at, chain, i) \notin Restricted
Verified(at, chain) ==
  /\ Len(chain) >= 3
  /\ Shape(at, chain, 1) = "self"
  /\ Shape(at, chain, 2) \in {"sudo", "restrictedSudo"}
  /\ \A i \in {1, 2, Len(chain)} : chain[i] \in at[i].members
  /\ \A i \in DOMAIN chain : Shape(at, chain, i) \in Restricted => i = 2

Accepts(at, limit) == Verified(at, Acquire(at, limit))

----------------------------------------------------------------------------
(* What becomes of a table: processes exit, each before some reading, and  *)
(* launchd adopts their children.                                          *)
Without(t, gone) ==
  [parent |-> [p \in Pids |-> IF t.parent[p] \in gone THEN Launchd ELSE t.parent[p]],
   shape |-> [p \in Pids |-> IF p \in gone THEN "hidden" ELSE t.shape[p]],
   members |-> t.members]

Readings(h) == 1..(h.limit + 3)
Gone(h, n) == {p \in Pids : h.exits[p] < n}
Seen(h) == [n \in Readings(h) |-> Without(h.table, Gone(h, n))]

(* The reference: the ancestors of the peer up to the tracked child, as a  *)
(* set, and what an operator would call this job's helper.                 *)
Above(t) ==
  LET above[n \in 0..Cardinality(Pids)] ==
        IF n = 0 THEN {Peer}
        ELSE above[n - 1] \cup {t.parent[p] : p \in above[n - 1] \ {Tracked, Launchd}}
  IN above
Kin(t) == Above(t)[Cardinality(Pids)]

Ours(t, limit) ==
  LET sudo == t.parent[Peer]
  IN /\ Tracked \in Kin(t) \ {Peer, sudo} /\ Cardinality(Kin(t)) <= limit
     /\ t.shape[Peer] = "self" /\ t.shape[sudo] \in {"sudo", "restrictedSudo"}
     /\ {Peer, sudo, Tracked} \subseteq t.members
     /\ \A p \in Kin(t) \ {sudo} : t.shape[p] \notin Restricted \cup {"hidden"}

(* Who the peer of a history is: this job's helper when the walk began, of *)
(* which nobody exits, or only others than it, its sudo and the child, or  *)
(* these once they were read again (disturbed); or another, or one that is *)
(* lost by then.                                                           *)
NobodyExits(h) == \A p \in Pids : h.exits[p] >= h.limit + 3
Kept(h) ==
  LET links == Cardinality(Kin(h.table))
  IN /\ h.exits[Peer] >= links + 1
     /\ h.exits[h.table.parent[Peer]] >= links + 2
     /\ h.exits[Tracked] >= links + 3
Identity(h) ==
  IF ~(Ours(h.table, h.limit) /\ Kept(h)) THEN "another"
  ELSE IF NobodyExits(h) THEN "helper" ELSE "disturbed"
=============================================================================
