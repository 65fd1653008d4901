------------------------ MODULE PeerVerificationProofs ------------------------
(***************************************************************************)
(* The verification of a peer accepts only this job's helper, and one that *)
(* nothing happens to always, for any process table, any exits between the *)
(* readings and any limit of the walk (peer_darwin.go); and so does the    *)
(* job that judges by it (PeerJudgement).                                  *)
(*                                                                         *)
(* The argument compares the walk and its reference with the ascent from   *)
(* the peer: who its parent is, and theirs, until Tracked or Launchd.  The *)
(* walk is a readable stretch of it, Kin is the set of all it meets, and   *)
(* nobody is met twice before Tracked.                                     *)
(***************************************************************************)
EXTENDS PeerJudgement, PrivilegedJobProofs, FiniteSetTheorems, SequenceTheorems,
        WellFoundedInduction, TLAPS

(* Induction over the naturals in terms of sets: a set of naturals that is *)
(* not empty has a least element.                                          *)
Below == {q \in Nat \X Nat : q[1] < q[2]}

LEMMA LeastNumber ==
  ASSUME NEW S \in SUBSET Nat, S # {}
  PROVE  \E n \in S : \A m \in S : n <= m
<1>1. IsWellFoundedOn(OpToRel(<, Nat), Nat)
  BY NatLessThanWellFounded
<1>2. OpToRel(<, Nat) = Below
  BY DEF OpToRel, Below
<1>3. IsWellFoundedOn(Below, Nat)
  BY <1>1, <1>2
<1>4. \E n \in S : \A m \in S : <<m, n>> \notin Below
  BY <1>3, WFMin
<1>5. PICK n \in S : \A m \in S : ~(m < n)
  BY <1>4 DEF Below
<1> QED BY <1>5

LEMMA Induction ==
  ASSUME NEW S, 0 \in S, \A n \in Nat : n \in S => n + 1 \in S
  PROVE  Nat \subseteq S
<1> SUFFICES ASSUME Nat \ S # {} PROVE FALSE
  OBVIOUS
<1>1. PICK n \in Nat \ S : \A m \in Nat \ S : n <= m
  BY LeastNumber
<1>2. n # 0 /\ n - 1 \in Nat /\ ~(n <= n - 1) /\ (n - 1) + 1 = n
  BY <1>1
<1> QED BY <1>1, <1>2

LEMMA IntervalInduction ==
  ASSUME NEW S, NEW first \in Nat, NEW last \in Nat, first \in S,
         \A k \in first..(last - 1) : k \in S => k + 1 \in S
  PROVE  first..last \subseteq S
<1> DEFINE D == {d \in Nat : first + d <= last => first + d \in S}
<1>1. 0 \in D
  OBVIOUS
<1>2. ASSUME NEW d \in Nat, d \in D PROVE d + 1 \in D
  <2>1. first + (d + 1) = (first + d) + 1
    OBVIOUS
  <2>2. ASSUME first + (d + 1) <= last PROVE first + (d + 1) \in S
    <3>1. first + d \in S /\ first + d \in first..(last - 1)
      BY <1>2, <2>2
    <3> QED BY <2>1, <3>1
  <2> QED BY <2>2
<1> HIDE DEF D
<1>3. Nat \subseteq D
  BY <1>1, <1>2, Induction
<1>4. ASSUME NEW k \in first..last PROVE k \in S
  <2>1. k - first \in D /\ first + (k - first) = k
    BY <1>3
  <2> QED BY <2>1 DEF D
<1> QED BY <1>4

(* A recursive function over an interval exists, and its values are where  *)
(* its steps keep them.                                                    *)
Unfolds(g, first, n, a, F) ==
  g = [k \in first..n |-> IF k = first THEN a ELSE F[k][g[k - 1]]]

LEMMA Recursion ==
  ASSUME NEW T, NEW a \in T, NEW F \in [Nat -> [T -> T]], NEW first \in Nat, NEW N \in Nat, first <= N
  PROVE  \E g \in [first..N -> T] : Unfolds(g, first, N, a, F)
<1> DEFINE S == {d \in Nat : \E g \in [first..(first + d) -> T] : Unfolds(g, first, first + d, a, F)}
<1>1. 0 \in S
  <2> DEFINE g == [n \in first..(first + 0) |-> a]
  <2>1. g \in [first..(first + 0) -> T]
    OBVIOUS
  <2>2. g = [k \in first..(first + 0) |-> IF k = first THEN a ELSE F[k][g[k - 1]]]
    OBVIOUS
  <2> HIDE DEF g
  <2> QED BY <2>1, <2>2 DEF Unfolds
<1>2. ASSUME NEW d \in Nat, d \in S PROVE d + 1 \in S
  <2>1. PICK g \in [first..(first + d) -> T] : Unfolds(g, first, first + d, a, F)
    BY <1>2
  <2> DEFINE m == first + (d + 1)
             h == [n \in first..m |-> IF n = m THEN F[m][g[first + d]] ELSE g[n]]
  <2>2. h \in [first..m -> T]
    OBVIOUS
  <2>3. ASSUME NEW n \in first..m PROVE h[n] = IF n = first THEN a ELSE F[n][h[n - 1]]
    <3>1. CASE n = m
      BY <3>1
    <3>2. CASE n \in first..(first + d)
      <4>1. h[n] = g[n] /\ (n # first => h[n - 1] = g[n - 1])
        BY <3>2
      <4> QED BY <2>1, <3>2, <4>1 DEF Unfolds
    <3> QED BY <3>1, <3>2
  <2>4. Unfolds(h, first, m, a, F)
    BY <2>2, <2>3 DEF Unfolds
  <2>5. \E f \in [first..m -> T] : Unfolds(f, first, m, a, F)
    <3> HIDE DEF h
    <3> QED BY <2>2, <2>4
  <2>6. d + 1 \in Nat
    OBVIOUS
  <2> HIDE DEF h
  <2> QED BY <2>5, <2>6
<1> HIDE DEF S
<1>3. N - first \in S
  BY <1>1, <1>2, Induction
<1>4. first + (N - first) = N
  OBVIOUS
<1> QED BY <1>3, <1>4 DEF S

----------------------------------------------------------------------------
Ancestry == Pids \cup {Launchd}

(* The ascent from the peer: n parents up, stopping at Tracked or Launchd. *)
Parent(t, p) == IF p \in {Tracked, Launchd} THEN p ELSE t.parent[p]
IsAscent(t, u, n) ==
  u \in [0..n -> Ancestry] /\ u[0] = Peer /\ \A k \in 1..n : u[k] = Parent(t, u[k - 1])

(* Every table has an ascent of any length.                                *)
LEMMA AscentExists ==
  ASSUME NEW t \in Tables, NEW n \in Nat
  PROVE  \E u : IsAscent(t, u, n)
<1> DEFINE F == [k \in Nat |-> [p \in Ancestry |-> Parent(t, p)]]
<1>1. F \in [Nat -> [Ancestry -> Ancestry]]
  BY DEF Ancestry, Parent, Tables
<1>2. Peer \in Ancestry
  BY ProcessesAssumption DEF Ancestry
<1>3. PICK u \in [0..n -> Ancestry] : Unfolds(u, 0, n, Peer, F)
  <2> HIDE DEF F
  <2> QED BY <1>1, <1>2, Recursion
<1>4. u[0] = Peer /\ \A k \in 1..n : u[k] = F[k][u[k - 1]]
  BY <1>3 DEF Unfolds
<1>5. \A k \in 1..n : u[k - 1] \in Ancestry
  BY <1>3
<1>6. \A k \in 1..n : u[k] = Parent(t, u[k - 1])
  <2>1. \A k \in Nat : \A p \in Ancestry : F[k][p] = Parent(t, p)
    OBVIOUS
  <2> HIDE DEF F
  <2> QED BY <1>4, <1>5, <2>1
<1> QED BY <1>3, <1>4, <1>6 DEF IsAscent

(* The recursions of the walk and of its reference are what their          *)
(* definitions say (Walks, Above).                                         *)
Extended(before, t, chain) == IF chain = <<>> THEN <<>> ELSE Ancestor(before, t, chain)
First(t) == IF Readable(t, Peer) THEN <<Peer>> ELSE <<>>

LEMMA AncestorIsChain ==
  ASSUME NEW before \in Tables, NEW t \in Tables, NEW chain \in Seq(Pids)
  PROVE  Extended(before, t, chain) \in Seq(Pids)
<1>1. CASE chain = <<>>
  BY <1>1 DEF Extended
<1>2. ASSUME Readable(t, before.parent[chain[Len(chain)]])
      PROVE  Append(chain, before.parent[chain[Len(chain)]]) \in Seq(Pids)
  BY <1>2 DEF Readable
<1>3. <<>> \in Seq(Pids)
  OBVIOUS
<1> QED BY <1>1, <1>2, <1>3 DEF Extended, Ancestor

LEMMA WalksUnfold ==
  ASSUME NEW limit \in Nat \ {0}, NEW at \in [1..(limit + 3) -> Tables]
  PROVE  /\ Walks(at, limit) \in [1..limit -> Seq(Pids)]
         /\ Walks(at, limit)[1] = First(at[1])
         /\ \A n \in 2..limit :
              Walks(at, limit)[n] = Extended(at[n - 1], at[n], Walks(at, limit)[n - 1])
<1> DEFINE Step(n, chain) == IF n \in 2..limit THEN Extended(at[n - 1], at[n], chain) ELSE chain
           F == [n \in Nat |-> [chain \in Seq(Pids) |-> Step(n, chain)]]
           Right(g) == g = [n \in 1..limit |->
                              IF n = 1 THEN IF Readable(at[1], Peer) THEN <<Peer>> ELSE <<>>
                              ELSE IF g[n - 1] = <<>> THEN <<>>
                                   ELSE Ancestor(at[n - 1], at[n], g[n - 1])]
<1>0. \A n \in 2..limit : at[n - 1] \in Tables /\ at[n] \in Tables
  OBVIOUS
<1>1. F \in [Nat -> [Seq(Pids) -> Seq(Pids)]]
  <2>1. ASSUME NEW n \in Nat, NEW chain \in Seq(Pids) PROVE Step(n, chain) \in Seq(Pids)
    BY <1>0, AncestorIsChain
  <2> HIDE DEF Step
  <2> QED BY <2>1
<1>2. First(at[1]) \in Seq(Pids)
  BY ProcessesAssumption DEF First
<1>3. PICK g \in [1..limit -> Seq(Pids)] : Unfolds(g, 1, limit, First(at[1]), F)
  <2> HIDE DEF F
  <2>1. 1 \in Nat /\ limit \in Nat /\ 1 <= limit
    OBVIOUS
  <2> QED BY <1>1, <1>2, <2>1, Recursion
<1>4. \A n \in 2..limit : g[n] = Extended(at[n - 1], at[n], g[n - 1])
  <2>1. \A n \in 2..limit : g[n] = F[n][g[n - 1]]
    <3> HIDE DEF F
    <3> QED BY <1>3 DEF Unfolds
  <2>2. \A n \in 2..limit : g[n - 1] \in Seq(Pids)
    BY <1>3
  <2>3. \A n \in 2..limit : F[n][g[n - 1]] = Step(n, g[n - 1])
    <3> HIDE DEF Step
    <3> QED BY <2>2
  <2> QED BY <2>1, <2>3
<1>5. g[1] = First(at[1])
  BY <1>3 DEF Unfolds
<1>6. Right(g)
  BY <1>3, <1>4, <1>5 DEF First, Extended
<1> DEFINE w == Walks(at, limit)
<1>7. Right(w)
  BY <1>6 DEF Walks
<1> HIDE DEF w
<1>8. w[1] = First(at[1])
  BY <1>7 DEF First
<1>9. \A n \in 2..limit : w[n] = Extended(at[n - 1], at[n], w[n - 1])
  <2> TAKE n \in 2..limit
  <2>1. n \in 1..limit /\ n # 1
    OBVIOUS
  <2>2. w[n] = IF w[n - 1] = <<>> THEN <<>> ELSE Ancestor(at[n - 1], at[n], w[n - 1])
    BY <1>7, <2>1
  <2> QED BY <2>2 DEF Extended
<1>10. \A n \in 1..limit : w[n] \in Seq(Pids)
  <2> DEFINE S == {n \in Nat : w[n] \in Seq(Pids)}
  <2>1. 1 \in S
    BY <1>2, <1>8
  <2>2. ASSUME NEW n \in 1..(limit - 1), n \in S PROVE n + 1 \in S
    <3>1. n + 1 \in 2..limit /\ (n + 1) - 1 = n
      OBVIOUS
    <3>2. w[n + 1] = Extended(at[n], at[n + 1], w[n])
      BY <1>9, <3>1
    <3> QED BY <1>0, <2>2, <3>1, <3>2, AncestorIsChain
  <2>3. 1..limit \subseteq S
    <3> HIDE DEF S
    <3> QED BY <2>1, <2>2, IntervalInduction
  <2> QED BY <2>3
<1>11. w \in [1..limit -> Seq(Pids)]
  BY <1>7, <1>10
<1> QED BY <1>8, <1>9, <1>11 DEF w

(* The readings of a table that does not change.                           *)
Frozen(t, limit) == [n \in 1..(limit + 3) |-> t]

LEMMA FrozenUnfolds ==
  ASSUME NEW t \in Tables, NEW limit \in Nat \ {0}
  PROVE  /\ Walks(Frozen(t, limit), limit)[1] = First(t)
         /\ \A n \in 2..limit :
              Walks(Frozen(t, limit), limit)[n]
                = Extended(t, t, Walks(Frozen(t, limit), limit)[n - 1])
<1>1. Frozen(t, limit) \in [1..(limit + 3) -> Tables] /\ Frozen(t, limit)[1] = t
  BY DEF Frozen
<1>2. \A n \in 2..limit : Frozen(t, limit)[n - 1] = t /\ Frozen(t, limit)[n] = t
  BY DEF Frozen
<1> QED BY <1>1, <1>2, WalksUnfold

Height == Cardinality(Pids)
WithParents(t, S) == S \cup {t.parent[p] : p \in S \ {Tracked, Launchd}}

LEMMA HeightType == Height \in Nat
BY ProcessesAssumption, FS_CardinalityType DEF Height

LEMMA AboveUnfold ==
  ASSUME NEW t \in Tables
  PROVE  /\ Above(t)[0] = {Peer}
         /\ \A n \in 1..Height : Above(t)[n] = WithParents(t, Above(t)[n - 1])
<1> DEFINE F == [n \in Nat |-> [S \in SUBSET Ancestry |-> WithParents(t, S)]]
           Right(g) == g = [n \in 0..Height |->
                              IF n = 0 THEN {Peer}
                              ELSE g[n - 1] \cup {t.parent[p] : p \in g[n - 1] \ {Tracked, Launchd}}]
<1>1. F \in [Nat -> [SUBSET Ancestry -> SUBSET Ancestry]]
  BY DEF WithParents, Tables, Ancestry
<1>2. {Peer} \in SUBSET Ancestry
  BY ProcessesAssumption DEF Ancestry
<1>3. PICK g \in [0..Height -> SUBSET Ancestry] : Unfolds(g, 0, Height, {Peer}, F)
  <2> HIDE DEF F
  <2>1. 0 \in Nat /\ 0 <= Height
    BY HeightType
  <2> QED BY <1>1, <1>2, <2>1, HeightType, Recursion
<1>4. \A n \in 1..Height : g[n] = WithParents(t, g[n - 1])
  <2>1. \A n \in 1..Height : g[n] = F[n][g[n - 1]]
    <3> HIDE DEF F
    <3> TAKE n \in 1..Height
    <3>1. n \in 0..Height /\ n # 0
      BY HeightType
    <3> QED BY <1>3, <3>1 DEF Unfolds
  <2>2. \A n \in 1..Height : g[n - 1] \in SUBSET Ancestry
    BY <1>3, HeightType
  <2>3. \A n \in Nat : \A S \in SUBSET Ancestry : F[n][S] = WithParents(t, S)
    OBVIOUS
  <2> HIDE DEF F
  <2> QED BY <2>1, <2>2, <2>3
<1>5. g[0] = {Peer}
  BY <1>3, HeightType DEF Unfolds
<1>6. Right(g)
  BY <1>3, <1>4, <1>5, HeightType DEF WithParents
<1> DEFINE w == Above(t)
<1>7. Right(w)
  BY <1>6 DEF Above, Height
<1> HIDE DEF w
<1>8. w[0] = {Peer}
  BY <1>7, HeightType
<1>9. \A n \in 1..Height : w[n] = WithParents(t, w[n - 1])
  <2> TAKE n \in 1..Height
  <2>1. n \in 0..Height /\ n # 0
    BY HeightType
  <2> QED BY <1>7, <2>1 DEF WithParents
<1> QED BY <1>8, <1>9 DEF w

(* Kin is everyone the ascent meets.                                       *)
Met(u, n) == {u[k] : k \in 0..n}

LEMMA MetGrows ==
  ASSUME NEW t \in Tables, NEW u, NEW n \in Nat, IsAscent(t, u, n), NEW k \in 0..(n - 1)
  PROVE  Met(u, k + 1) = WithParents(t, Met(u, k))
<1>1. u[k + 1] = Parent(t, u[k])
  BY DEF IsAscent
<1>2. Met(u, k + 1) = Met(u, k) \cup {u[k + 1]}
  BY DEF Met
<1>3. ASSUME NEW p \in Met(u, k) \ {Tracked, Launchd} PROVE t.parent[p] \in Met(u, k + 1)
  <2>1. PICK i \in 0..k : p = u[i]
    BY DEF Met
  <2>2. u[i + 1] = Parent(t, u[i])
    BY DEF IsAscent
  <2>3. i + 1 \in 0..(k + 1)
    OBVIOUS
  <2> QED BY <2>1, <2>2, <2>3 DEF Parent, Met
<1>4. u[k] \in Met(u, k)
  BY DEF Met
<1>5. u[k + 1] \in WithParents(t, Met(u, k))
  BY <1>1, <1>4 DEF Parent, WithParents
<1> QED BY <1>2, <1>3, <1>5 DEF WithParents

LEMMA KinIsMet ==
  ASSUME NEW t \in Tables, NEW u, NEW n \in Nat, IsAscent(t, u, n), Height <= n
  PROVE  Kin(t) = Met(u, Height)
<1> DEFINE S == {k \in Nat : Above(t)[k] = Met(u, k)}
<1>1. 0 \in S
  BY AboveUnfold DEF Met, IsAscent
<1>2. ASSUME NEW k \in 0..(Height - 1), k \in S PROVE k + 1 \in S
  <2>1. Above(t)[k + 1] = WithParents(t, Above(t)[k])
    <3>1. k + 1 \in 1..Height /\ (k + 1) - 1 = k
      BY HeightType
    <3> QED BY <3>1, AboveUnfold
  <2>2. k \in 0..(n - 1)
    BY HeightType
  <2> QED BY <1>2, <2>1, <2>2, MetGrows
<1>3. 0..Height \subseteq S
  <2> HIDE DEF S
  <2> QED BY <1>1, <1>2, HeightType, IntervalInduction
<1> QED BY <1>3, HeightType DEF Kin, Height

----------------------------------------------------------------------------
(* The ascent stays where it stops; it meets nobody twice before Tracked,  *)
(* and nobody who is no process.                                           *)
LEMMA AscentStays ==
  ASSUME NEW t \in Tables, NEW u, NEW n \in Nat, IsAscent(t, u, n),
         NEW i \in 0..n, u[i] \in {Tracked, Launchd}
  PROVE  \A k \in i..n : u[k] = u[i]
<1> DEFINE S == {k \in Nat : u[k] = u[i]}
<1>1. i \in S
  OBVIOUS
<1>2. ASSUME NEW k \in i..(n - 1), k \in S PROVE k + 1 \in S
  <2>1. u[k + 1] = Parent(t, u[k])
    BY DEF IsAscent
  <2> QED BY <1>2, <2>1 DEF Parent
<1>3. i..n \subseteq S
  <2> HIDE DEF S
  <2>1. i \in Nat
    OBVIOUS
  <2> QED BY <1>1, <1>2, <2>1, IntervalInduction
<1> QED BY <1>3

Reaches(u, n, m) ==
  m \in 0..n /\ u[m] = Tracked /\ \A k \in 0..(m - 1) : u[k] # Tracked

LEMMA AscentMeetsOnce ==
  ASSUME NEW t \in Tables, NEW u, NEW n \in Nat, IsAscent(t, u, n), NEW m, Reaches(u, n, m),
         NEW i \in 0..m, NEW j \in 0..m, u[i] = u[j]
  PROVE  i = j
<1>1. ASSUME NEW x \in 0..m, NEW y \in 0..m, u[x] = u[y], x < y PROVE FALSE
  <2> DEFINE S == {d \in Nat : u[x + d] = u[y + d]}
  <2>1. m \in Nat /\ m <= n
    BY DEF Reaches
  <2>2. 0 \in S
    BY <1>1
  <2>3. ASSUME NEW d \in 0..((m - y) - 1), d \in S PROVE d + 1 \in S
    <3>1. x + d + 1 \in 1..n /\ y + d + 1 \in 1..n
      BY <1>1, <2>1
    <3>2. u[x + d + 1] = Parent(t, u[x + d]) /\ u[y + d + 1] = Parent(t, u[y + d])
      <4>1. (x + d + 1) - 1 = x + d /\ (y + d + 1) - 1 = y + d
        OBVIOUS
      <4> QED BY <3>1, <4>1 DEF IsAscent
    <3>3. x + (d + 1) = x + d + 1 /\ y + (d + 1) = y + d + 1
      OBVIOUS
    <3> QED BY <2>3, <3>2, <3>3
  <2>4. 0..(m - y) \subseteq S
    <3> HIDE DEF S
    <3>1. m - y \in Nat
      BY <2>1
    <3> QED BY <2>2, <2>3, <3>1, IntervalInduction
  <2>5. m - y \in S /\ y + (m - y) = m /\ x + (m - y) \in 0..(m - 1)
    BY <1>1, <2>1, <2>4
  <2>6. u[x + (m - y)] = Tracked
    BY <2>5 DEF Reaches
  <2> QED BY <2>5, <2>6 DEF Reaches
<1>2. m \in Nat
  BY DEF Reaches
<1> QED BY <1>1, <1>2

LEMMA AscentMeetsProcesses ==
  ASSUME NEW t \in Tables, NEW u, NEW n \in Nat, IsAscent(t, u, n), NEW m, Reaches(u, n, m)
  PROVE  \A k \in 0..m : u[k] \in Pids
<1> TAKE k \in 0..m
<1>1. m \in Nat /\ m <= n /\ u[m] = Tracked
  BY DEF Reaches
<1>2. k \in 0..n /\ m \in k..n
  BY <1>1
<1>3. ASSUME u[k] = Launchd PROVE FALSE
  <2>1. u[m] = u[k]
    BY <1>2, <1>3, AscentStays
  <2> QED BY <1>1, <1>3, <2>1, ProcessesAssumption
<1>4. u[k] \in Ancestry
  BY <1>2 DEF IsAscent
<1> QED BY <1>3, <1>4 DEF Ancestry

(* An ascent that reaches Tracked has met as many processes as it has      *)
(* steps, and there are no more than there are pids.                       *)
LEMMA MetAreCounted ==
  ASSUME NEW t \in Tables, NEW u, NEW n \in Nat, IsAscent(t, u, n), NEW m, Reaches(u, n, m)
  PROVE  Cardinality(Met(u, m)) = m + 1 /\ m + 1 <= Height /\ Met(u, m) \subseteq Pids
<1> DEFINE f == [i \in 1..(m + 1) |-> u[i - 1]]
<1>1. m \in Nat
  BY DEF Reaches
<1>2. f \in [1..(m + 1) -> Met(u, m)]
  BY <1>1 DEF Met
<1>3. \A i, j \in 1..(m + 1) : f[i] = f[j] => i = j
  <2> TAKE i, j \in 1..(m + 1)
  <2>1. i - 1 \in 0..m /\ j - 1 \in 0..m /\ f[i] = u[i - 1] /\ f[j] = u[j - 1]
    BY <1>1
  <2>2. u[i - 1] = u[j - 1] => i - 1 = j - 1
    BY <2>1, AscentMeetsOnce
  <2> QED BY <2>1, <2>2
<1>4. \A p \in Met(u, m) : \E i \in 1..(m + 1) : f[i] = p
  <2> TAKE p \in Met(u, m)
  <2>1. PICK k \in 0..m : p = u[k]
    BY DEF Met
  <2>2. k + 1 \in 1..(m + 1) /\ (k + 1) - 1 = k
    BY <1>1
  <2> QED BY <2>1, <2>2
<1>5. f \in Bijection(1..(m + 1), Met(u, m))
  BY <1>2, <1>3, <1>4 DEF Bijection, Injection, Surjection, IsInjective
<1>6. Cardinality(Met(u, m)) = m + 1
  <2> HIDE DEF f
  <2>1. ExistsBijection(1..(m + 1), Met(u, m)) /\ m + 1 \in Nat
    BY <1>1, <1>5 DEF ExistsBijection
  <2> QED BY <2>1, FS_CountingElements
<1>7. Met(u, m) \subseteq Pids
  BY AscentMeetsProcesses DEF Met
<1>8. m + 1 <= Height
  BY <1>6, <1>7, ProcessesAssumption, FS_Subset DEF Height
<1> QED BY <1>6, <1>7, <1>8

----------------------------------------------------------------------------
(* The walk is a stretch of the ascent (acquirePeerEvidence).              *)
Stretch(u, l) == [i \in 1..l |-> u[i - 1]]

LEMMA StretchIsChain ==
  ASSUME NEW n \in Nat, NEW u \in [0..n -> Ancestry], NEW l \in 1..(n + 1)
  PROVE  /\ Stretch(u, l) \in Seq(Ancestry) /\ Len(Stretch(u, l)) = l /\ Stretch(u, l) # <<>>
         /\ Stretch(u, l)[Len(Stretch(u, l))] = u[l - 1]
         /\ {Stretch(u, l)[i] : i \in DOMAIN Stretch(u, l)} = Met(u, l - 1)
         /\ l <= n => Append(Stretch(u, l), u[l]) = Stretch(u, l + 1)
<1>1. l \in Nat /\ l >= 1 /\ l - 1 \in 0..n
  OBVIOUS
<1>2. \A i \in 1..l : u[i - 1] \in Ancestry
  BY <1>1
<1>3. Stretch(u, l) \in Seq(Ancestry) /\ Len(Stretch(u, l)) = l
  BY <1>1, <1>2 DEF Stretch
<1>4. DOMAIN Stretch(u, l) = 1..l /\ \A i \in 1..l : Stretch(u, l)[i] = u[i - 1]
  BY DEF Stretch
<1>5. {Stretch(u, l)[i] : i \in DOMAIN Stretch(u, l)} = Met(u, l - 1)
  <2>1. ASSUME NEW i \in 1..l PROVE Stretch(u, l)[i] \in Met(u, l - 1)
    BY <1>4, <2>1 DEF Met
  <2>2. ASSUME NEW k \in 0..(l - 1) PROVE u[k] \in {Stretch(u, l)[i] : i \in 1..l}
    <3>1. k + 1 \in 1..l /\ Stretch(u, l)[k + 1] = u[k]
      BY <1>4
    <3> QED BY <3>1
  <2> QED BY <1>4, <2>1, <2>2 DEF Met
<1>6. ASSUME l <= n PROVE Append(Stretch(u, l), u[l]) = Stretch(u, l + 1)
  <2>1. u[l] \in Ancestry
    BY <1>1, <1>6
  <2>2. Append(Stretch(u, l), u[l]) \in Seq(Ancestry)
        /\ Len(Append(Stretch(u, l), u[l])) = l + 1
    BY <1>3, <2>1
  <2>3. DOMAIN Append(Stretch(u, l), u[l]) = 1..(l + 1)
    BY <2>2
  <2>4. ASSUME NEW i \in 1..(l + 1) PROVE Append(Stretch(u, l), u[l])[i] = u[i - 1]
    BY <1>3, <1>4, <2>1
  <2>5. Append(Stretch(u, l), u[l]) = [i \in 1..(l + 1) |-> Append(Stretch(u, l), u[l])[i]]
    BY <2>2, <2>3
  <2> QED BY <2>4, <2>5 DEF Stretch
<1> QED BY <1>1, <1>3, <1>4, <1>5, <1>6

LEMMA StretchExtends ==
  ASSUME NEW t \in Tables, NEW u, NEW n \in Nat, IsAscent(t, u, n),
         NEW l \in 1..(n + 1), u[l - 1] \in Pids
  PROVE  /\ u[l - 1] = Tracked => Extended(t, t, Stretch(u, l)) = Stretch(u, l)
         /\ u[l - 1] # Tracked /\ l <= n =>
              Extended(t, t, Stretch(u, l)) =
                IF Readable(t, u[l]) /\ u[l] \notin Met(u, l - 1) THEN Stretch(u, l + 1) ELSE <<>>
<1> DEFINE c == Stretch(u, l)
<1>1. c # <<>> /\ c[Len(c)] = u[l - 1] /\ {c[i] : i \in DOMAIN c} = Met(u, l - 1)
      /\ (l <= n => Append(c, u[l]) = Stretch(u, l + 1))
  BY StretchIsChain DEF IsAscent
<1> HIDE DEF c
<1>2. ASSUME u[l - 1] # Tracked, l <= n PROVE u[l] = t.parent[u[l - 1]]
  <2>1. l \in 1..n
    BY <1>2
  <2> QED BY <1>2, <2>1, ProcessesAssumption DEF IsAscent, Parent
<1>3. u[l - 1] = Tracked => Extended(t, t, c) = c
  BY <1>1 DEF Extended, Ancestor
<1>4. u[l - 1] # Tracked /\ l <= n =>
        Extended(t, t, c) =
          IF Readable(t, u[l]) /\ u[l] \notin Met(u, l - 1) THEN Stretch(u, l + 1) ELSE <<>>
  BY <1>1, <1>2 DEF Extended, Ancestor
<1> QED BY <1>3, <1>4 DEF c

(* A chain that is not given up is the readable stretch of the ascent up   *)
(* to Tracked, or as long as the walk so far.                              *)
Climbed(t, u, n, l) ==
  /\ l \in 1..n /\ \A i \in 0..(l - 1) : Readable(t, u[i])
  /\ \A i \in 0..(l - 2) : u[i] # Tracked
  /\ l = n \/ u[l - 1] = Tracked

LEMMA WalkFollowsAscent ==
  ASSUME NEW t \in Tables, NEW limit \in Nat \ {0}, NEW u, NEW N \in Nat, IsAscent(t, u, N),
         limit <= N
  PROVE  \A n \in 1..limit :
           Walks(Frozen(t, limit), limit)[n] = <<>>
           \/ \E l \in 1..n : Walks(Frozen(t, limit), limit)[n] = Stretch(u, l) /\ Climbed(t, u, n, l)
<1> DEFINE w == Walks(Frozen(t, limit), limit)
           P(n) == w[n] = <<>> \/ \E l \in 1..n : w[n] = Stretch(u, l) /\ Climbed(t, u, n, l)
           S == {n \in Nat : P(n)}
<1>1. w[1] = First(t) /\ \A n \in 2..limit : w[n] = Extended(t, t, w[n - 1])
  BY FrozenUnfolds
<1> HIDE DEF w
<1>2. P(1)
  <2>1. CASE Readable(t, Peer)
    <3>1. u[0] = Peer
      BY DEF IsAscent
    <3>2. Stretch(u, 1) = <<Peer>>
      BY <3>1 DEF Stretch
    <3>3. Climbed(t, u, 1, 1)
      BY <2>1, <3>1 DEF Climbed
    <3> QED BY <1>1, <2>1, <3>2, <3>3 DEF First
  <2>2. CASE ~Readable(t, Peer)
    BY <1>1, <2>2 DEF First
  <2> QED BY <2>1, <2>2
<1>3. ASSUME NEW n \in 1..(limit - 1), P(n) PROVE P(n + 1)
  <2>1. w[n + 1] = Extended(t, t, w[n])
    <3>1. n + 1 \in 2..limit /\ (n + 1) - 1 = n
      OBVIOUS
    <3> QED BY <1>1, <3>1
  <2>2. CASE w[n] = <<>>
    BY <2>1, <2>2 DEF Extended
  <2>3. ASSUME NEW l \in 1..n, w[n] = Stretch(u, l), Climbed(t, u, n, l) PROVE P(n + 1)
    <3>1. l - 1 \in 0..(l - 1) /\ l \in 1..(N + 1) /\ l <= N
      OBVIOUS
    <3>2. Readable(t, u[l - 1]) /\ u[l - 1] \in Pids
      BY <2>3, <3>1 DEF Climbed, Readable
    <3>3. CASE u[l - 1] = Tracked
      <4>1. w[n + 1] = Stretch(u, l)
        BY <2>1, <2>3, <3>1, <3>2, <3>3, StretchExtends
      <4>2. Climbed(t, u, n + 1, l)
        BY <2>3, <3>3 DEF Climbed
      <4> QED BY <4>1, <4>2
    <3>4. CASE u[l - 1] # Tracked
      <4>1. l = n
        BY <2>3, <3>4 DEF Climbed
      <4>2. w[n + 1] = <<>> \/ (w[n + 1] = Stretch(u, n + 1) /\ Readable(t, u[n]))
        <5>1. n \in 1..(N + 1) /\ n <= N /\ u[n - 1] # Tracked /\ u[n - 1] \in Pids
          BY <3>1, <3>2, <3>4, <4>1
        <5>2. w[n + 1] = Extended(t, t, Stretch(u, n))
          BY <2>1, <2>3, <4>1
        <5>3. Extended(t, t, Stretch(u, n)) =
                IF Readable(t, u[n]) /\ u[n] \notin Met(u, n - 1) THEN Stretch(u, n + 1) ELSE <<>>
          BY <5>1, StretchExtends
        <5> QED BY <5>2, <5>3
      <4>3. ASSUME Readable(t, u[n]) PROVE Climbed(t, u, n + 1, n + 1)
        <5>1. \A i \in 0..((n + 1) - 1) : Readable(t, u[i])
          BY <2>3, <4>1, <4>3 DEF Climbed
        <5>2. \A i \in 0..((n + 1) - 2) : u[i] # Tracked
          <6> TAKE i \in 0..((n + 1) - 2)
          <6>1. i = n - 1 \/ i \in 0..(n - 2)
            OBVIOUS
          <6> QED BY <2>3, <3>4, <4>1, <6>1 DEF Climbed
        <5> QED BY <5>1, <5>2 DEF Climbed
      <4> QED BY <4>2, <4>3
    <3> QED BY <3>3, <3>4
  <2> QED BY <1>3, <2>2, <2>3
<1>4. 1..limit \subseteq S
  <2>1. 1 \in S
    BY <1>2
  <2>2. ASSUME NEW n \in 1..(limit - 1), n \in S PROVE n + 1 \in S
    BY <1>3, <2>2
  <2> HIDE DEF S
  <2> QED BY <2>1, <2>2, IntervalInduction
<1> QED BY <1>4 DEF w

(* Nothing stops the walk on a readable stretch.                           *)
Least(x, y) == IF x <= y THEN x ELSE y

LEMMA WalkReaches ==
  ASSUME NEW t \in Tables, NEW limit \in Nat \ {0}, NEW u, NEW N \in Nat, IsAscent(t, u, N),
         limit <= N, NEW m, Reaches(u, N, m), \A i \in 0..m : Readable(t, u[i])
  PROVE  \A n \in 1..limit : Walks(Frozen(t, limit), limit)[n] = Stretch(u, Least(n, m + 1))
<1> DEFINE w == Walks(Frozen(t, limit), limit)
           S == {n \in Nat : w[n] = Stretch(u, Least(n, m + 1))}
<1>1. w[1] = First(t) /\ \A n \in 2..limit : w[n] = Extended(t, t, w[n - 1])
  BY FrozenUnfolds
<1> HIDE DEF w
<1>2. m \in Nat /\ m <= N
  BY DEF Reaches
<1>3. 1 \in S
  <2>1. u[0] = Peer /\ Readable(t, u[0])
    BY <1>2 DEF IsAscent
  <2>2. Stretch(u, 1) = <<Peer>> /\ Least(1, m + 1) = 1
    BY <1>2, <2>1 DEF Stretch, Least
  <2> QED BY <1>1, <2>1, <2>2 DEF First
<1>4. ASSUME NEW n \in 1..(limit - 1), n \in S PROVE n + 1 \in S
  <2>1. w[n + 1] = Extended(t, t, w[n])
    <3>1. n + 1 \in 2..limit /\ (n + 1) - 1 = n
      OBVIOUS
    <3> QED BY <1>1, <3>1
  <2>2. CASE n <= m
    <3>1. Least(n, m + 1) = n /\ Least(n + 1, m + 1) = n + 1 /\ n - 1 \in 0..m /\ n \in 0..m
          /\ n \in 1..(N + 1) /\ n <= N /\ n - 1 \in 0..(m - 1)
      BY <1>2, <2>2 DEF Least
    <3>2. u[n - 1] # Tracked /\ u[n - 1] \in Pids /\ Readable(t, u[n])
      BY <3>1 DEF Reaches, Readable
    <3>3. u[n] \notin Met(u, n - 1)
      <4> SUFFICES ASSUME NEW k \in 0..(n - 1), u[n] = u[k] PROVE FALSE
        BY DEF Met
      <4>1. k \in 0..m /\ k # n
        BY <1>2, <2>2
      <4> QED BY <3>1, <4>1, AscentMeetsOnce
    <3>4. w[n + 1] = Stretch(u, n + 1)
      BY <1>4, <2>1, <3>1, <3>2, <3>3, StretchExtends
    <3> QED BY <3>1, <3>4
  <2>3. CASE n > m
    <3>1. Least(n, m + 1) = m + 1 /\ Least(n + 1, m + 1) = m + 1 /\ m + 1 \in 1..(N + 1)
      BY <1>2, <2>3 DEF Least
    <3>2. (m + 1) - 1 = m /\ u[m] = Tracked /\ u[m] \in Pids
      BY <1>2, ProcessesAssumption DEF Reaches
    <3>3. w[n + 1] = Stretch(u, m + 1)
      BY <1>4, <2>1, <3>1, <3>2, StretchExtends
    <3> QED BY <3>1, <3>3
  <2> QED BY <1>2, <2>2, <2>3
<1>5. 1..limit \subseteq S
  <2> HIDE DEF S
  <2> QED BY <1>3, <1>4, IntervalInduction
<1> QED BY <1>5 DEF w

(* So the walk finds the ascent to Tracked, if it can read all of it and   *)
(* it is not too long, or nothing.                                         *)
AllReadable(t, u, m) == \A i \in 0..m : Readable(t, u[i])

LEMMA WalkIs ==
  ASSUME NEW t \in Tables, NEW limit \in Nat \ {0}, NEW u, NEW N \in Nat, IsAscent(t, u, N),
         limit <= N
  PROVE  /\ \A m : Reaches(u, N, m) =>
              Walk(Frozen(t, limit), limit) =
                IF m + 1 <= limit /\ AllReadable(t, u, m) THEN Stretch(u, m + 1) ELSE <<>>
         /\ (\A m \in 0..N : u[m] # Tracked) => Walk(Frozen(t, limit), limit) = <<>>
<1> DEFINE chain == Walks(Frozen(t, limit), limit)[limit]
<1>1. Walk(Frozen(t, limit), limit) = IF chain # <<>> /\ chain[Len(chain)] = Tracked THEN chain ELSE <<>>
  BY DEF Walk
<1>2. chain = <<>> \/ \E l \in 1..limit : chain = Stretch(u, l) /\ Climbed(t, u, limit, l)
  <2>1. limit \in 1..limit
    OBVIOUS
  <2> QED BY <2>1, WalkFollowsAscent
<1>3. ASSUME NEW m, Reaches(u, N, m), m + 1 <= limit, AllReadable(t, u, m)
      PROVE  Walk(Frozen(t, limit), limit) = Stretch(u, m + 1)
  <2>1. m \in Nat /\ m <= N /\ u[m] = Tracked
    BY <1>3 DEF Reaches
  <2>2. limit \in 1..limit /\ Least(limit, m + 1) = m + 1
    BY <1>3, <2>1 DEF Least
  <2>3. chain = Stretch(u, m + 1)
    BY <1>3, <2>2, WalkReaches DEF AllReadable
  <2>4. m + 1 \in 1..(N + 1) /\ (m + 1) - 1 = m
    BY <2>1
  <2>5. Stretch(u, m + 1) # <<>> /\ Stretch(u, m + 1)[Len(Stretch(u, m + 1))] = u[(m + 1) - 1]
    BY <2>4, StretchIsChain DEF IsAscent
  <2> HIDE DEF chain
  <2> QED BY <1>1, <2>1, <2>3, <2>4, <2>5
<1> HIDE DEF chain
<1>4. ASSUME Walk(Frozen(t, limit), limit) # <<>>
      PROVE  \E m \in 0..N : u[m] = Tracked /\ m + 1 <= limit /\ AllReadable(t, u, m)
                             /\ \A i \in 0..(m - 1) : u[i] # Tracked
  <2>1. chain # <<>> /\ chain[Len(chain)] = Tracked
    BY <1>1, <1>4
  <2>2. PICK l \in 1..limit : chain = Stretch(u, l) /\ Climbed(t, u, limit, l)
    BY <1>2, <2>1
  <2>3. l \in 1..(N + 1) /\ l - 1 \in 0..N /\ (l - 1) + 1 = l /\ (l - 1) - 1 = l - 2
    OBVIOUS
  <2>4. u[l - 1] = Tracked
    BY <2>1, <2>2, <2>3, StretchIsChain DEF IsAscent
  <2>5. AllReadable(t, u, l - 1) /\ \A i \in 0..((l - 1) - 1) : u[i] # Tracked
    BY <2>2, <2>3 DEF Climbed, AllReadable
  <2> QED BY <2>3, <2>4, <2>5
<1>5. ASSUME NEW m, Reaches(u, N, m), ~(m + 1 <= limit /\ AllReadable(t, u, m))
      PROVE  Walk(Frozen(t, limit), limit) = <<>>
  <2> SUFFICES ASSUME Walk(Frozen(t, limit), limit) # <<>> PROVE FALSE
    OBVIOUS
  <2>1. PICK k \in 0..N : u[k] = Tracked /\ k + 1 <= limit /\ AllReadable(t, u, k)
                          /\ \A i \in 0..(k - 1) : u[i] # Tracked
    BY <1>4
  <2>2. k = m
    BY <1>5, <2>1 DEF Reaches
  <2> QED BY <1>5, <2>1, <2>2
<1> QED BY <1>3, <1>4, <1>5

(* What the code checks, and what is asked of a helper, both in terms of   *)
(* the ascent.                                                             *)
Judged(t, u, m, limit) ==
  /\ m >= 2 /\ m + 1 <= limit
  /\ t.shape[Peer] = "self" /\ t.shape[u[1]] \in {"sudo", "restrictedSudo"}
  /\ {Peer, u[1], Tracked} \subseteq t.members
  /\ \A k \in 0..m : k # 1 => t.shape[u[k]] \notin Restricted \cup {"hidden"}

LEMMA KinOfReached ==
  ASSUME NEW t \in Tables, NEW u, NEW N \in Nat, IsAscent(t, u, N), Height <= N,
         NEW m, Reaches(u, N, m)
  PROVE  Kin(t) = Met(u, m)
<1>1. m \in Nat /\ m <= N /\ u[m] = Tracked
  BY DEF Reaches
<1>2. m + 1 <= Height
  BY MetAreCounted
<1>3. Kin(t) = Met(u, Height)
  BY KinIsMet
<1>4. \A k \in m..N : u[k] = u[m]
  BY <1>1, AscentStays
<1>5. ASSUME NEW k \in 0..Height PROVE u[k] \in Met(u, m)
  <2>1. k \in 0..m \/ k \in m..N
    BY <1>1, HeightType
  <2> QED BY <1>1, <1>4, <2>1 DEF Met
<1>6. 0..m \subseteq 0..Height
  BY <1>1, <1>2, HeightType
<1> QED BY <1>3, <1>5, <1>6 DEF Met

LEMMA OursIsJudged ==
  ASSUME NEW t \in Tables, NEW limit \in Nat \ {0}, NEW u, NEW N \in Nat, IsAscent(t, u, N),
         Height <= N, NEW m, Reaches(u, N, m)
  PROVE  Ours(t, limit) <=> Judged(t, u, m, limit)
<1>1. m \in Nat /\ m <= N /\ u[0] = Peer /\ u[m] = Tracked
  BY DEF Reaches, IsAscent
<1>2. Cardinality(Met(u, m)) = m + 1 /\ m + 1 <= Height
  BY MetAreCounted
<1>3. Kin(t) = Met(u, m)
  BY KinOfReached
<1>4. Tracked \in Kin(t)
  BY <1>1, <1>3 DEF Met
<1>5. CASE m = 0
  BY <1>1, <1>5 DEF Ours, Judged
<1>6. CASE m # 0
  <2>1. u[1] = Parent(t, Peer) /\ Peer # Tracked
    <3>1. 1 \in 1..N /\ 0 \in 0..(m - 1) /\ 1 - 1 = 0
      BY <1>1, <1>6
    <3>2. u[1] = Parent(t, u[1 - 1])
      BY <3>1 DEF IsAscent
    <3> QED BY <1>1, <3>1, <3>2 DEF Reaches
  <2>2. t.parent[Peer] = u[1]
    BY <2>1, ProcessesAssumption DEF Parent
  <2>3. u[1] = Tracked <=> m = 1
    <3>1. m # 1 => 1 \in 0..(m - 1)
      BY <1>1, <1>6
    <3> QED BY <1>1, <3>1 DEF Reaches
  <2>4. (\A p \in Met(u, m) \ {u[1]} : t.shape[p] \notin Restricted \cup {"hidden"})
          <=> \A k \in 0..m : k # 1 => t.shape[u[k]] \notin Restricted \cup {"hidden"}
    <3>1. \A k \in 0..m : u[k] = u[1] <=> k = 1
      <4>1. 1 \in 0..m
        BY <1>1, <1>6
      <4> QED BY <4>1, AscentMeetsOnce
    <3> QED BY <3>1 DEF Met
  <2> QED BY <1>1, <1>2, <1>3, <1>4, <1>6, <2>1, <2>2, <2>3, <2>4 DEF Ours, Judged
<1> QED BY <1>5, <1>6

LEMMA NoneIsRefused ==
  ASSUME NEW t PROVE ~Verified(t, <<>>)
BY DEF Verified

LEMMA AcceptsIsJudged ==
  ASSUME NEW t \in Tables, NEW limit \in Nat \ {0}, NEW u, NEW N \in Nat, IsAscent(t, u, N),
         limit <= N, NEW m, Reaches(u, N, m)
  PROVE  Accepts(Frozen(t, limit), limit) <=> Judged(t, u, m, limit)
<1> DEFINE c == Stretch(u, m + 1)
<1>1. m \in Nat /\ m <= N /\ u[0] = Peer /\ u[m] = Tracked
  BY DEF Reaches, IsAscent
<1>2. Len(c) = m + 1 /\ c # <<>> /\ DOMAIN c = 1..(m + 1)
  <2>1. m + 1 \in 1..(N + 1)
    BY <1>1
  <2> QED BY <2>1, StretchIsChain DEF IsAscent, Stretch
<1>3. \A i \in 1..(m + 1) : c[i] = u[i - 1]
  BY DEF Stretch
<1> HIDE DEF c
<1>4. c[1] = Peer /\ c[Len(c)] = Tracked /\ (m >= 1 => c[2] = u[1])
  <2>1. c[1] = u[1 - 1] /\ c[m + 1] = u[(m + 1) - 1] /\ (m >= 1 => c[2] = u[2 - 1])
    BY <1>1, <1>3
  <2> QED BY <1>1, <1>2, <2>1
<1>5. Walk(Frozen(t, limit), limit) = IF m + 1 <= limit /\ AllReadable(t, u, m) THEN c ELSE <<>>
  BY WalkIs DEF c
<1>6. AllReadable(t, u, m) => Acquire(Frozen(t, limit), limit) = Walk(Frozen(t, limit), limit)
  <2> HAVE AllReadable(t, u, m)
  <2>1. CASE Walk(Frozen(t, limit), limit) = <<>>
    BY <2>1 DEF Acquire
  <2>2. CASE Walk(Frozen(t, limit), limit) # <<>>
    <3>1. Walk(Frozen(t, limit), limit) = c
      BY <1>5, <2>2
    <3>2. Readable(t, Peer) /\ Readable(t, Tracked) /\ (m >= 1 => Readable(t, u[1]))
      <4>1. Readable(t, u[0]) /\ Readable(t, u[m]) /\ (m >= 1 => Readable(t, u[1]))
        BY <1>1 DEF AllReadable
      <4> QED BY <1>1, <4>1
    <3>3. Len(c) > 1 => Readable(t, c[2])
      BY <1>1, <1>2, <1>4, <3>2
    <3>4. m + 1 <= limit
      BY <1>5, <2>2
    <3>5. \A k \in {1, Len(c), Len(c) + 1, Len(c) + 2, Len(c) + 3} : Frozen(t, limit)[k] = t
      BY <1>1, <1>2, <3>4 DEF Frozen
    <3>6. Len(c) > 1 => Frozen(t, limit)[2] = t
      BY <1>1, <1>2, <3>4 DEF Frozen
    <3>7. \A arguments \in BOOLEAN : \A p : Readable(t, p) => SameProcess(t, t, p, arguments)
      BY DEF SameProcess
    <3> QED BY <3>1, <3>2, <3>3, <3>5, <3>6, <3>7, <2>2 DEF Acquire
  <2> QED BY <2>1, <2>2
<1>7. ~AllReadable(t, u, m) => Acquire(Frozen(t, limit), limit) = <<>>
  BY <1>5 DEF Acquire
<1>8. (\A k \in 0..m : k # 1 => t.shape[u[k]] \notin Restricted \cup {"hidden"})
        /\ t.shape[u[1]] \in {"sudo", "restrictedSudo"} => AllReadable(t, u, m)
  BY <1>1, AscentMeetsProcesses DEF AllReadable, Readable
<1>9. CASE m + 1 <= limit /\ AllReadable(t, u, m)
  <2>1. Acquire(Frozen(t, limit), limit) = c
    BY <1>5, <1>6, <1>9
  <2>2. \A k \in 0..m : t.shape[u[k]] # "hidden"
    BY <1>9 DEF AllReadable, Readable
  <2>3. (\A i \in DOMAIN c : t.shape[c[i]] \in Restricted => i = 2)
          <=> \A k \in 0..m : k # 1 => t.shape[u[k]] \notin Restricted
    <3>1. ASSUME \A i \in DOMAIN c : t.shape[c[i]] \in Restricted => i = 2, NEW k \in 0..m, k # 1
          PROVE  t.shape[u[k]] \notin Restricted
      <4>1. k + 1 \in 1..(m + 1) /\ k + 1 # 2 /\ c[k + 1] = u[(k + 1) - 1] /\ (k + 1) - 1 = k
        BY <1>1, <1>3, <3>1
      <4> QED BY <1>2, <3>1, <4>1
    <3>2. ASSUME \A k \in 0..m : k # 1 => t.shape[u[k]] \notin Restricted, NEW i \in DOMAIN c,
                 t.shape[c[i]] \in Restricted
          PROVE  i = 2
      <4>1. i - 1 \in 0..m /\ c[i] = u[i - 1]
        BY <1>1, <1>2, <1>3
      <4>2. i - 1 = 1
        BY <3>2, <4>1
      <4> QED BY <1>1, <1>2, <4>2
    <3> QED BY <3>1, <3>2
  <2>4. \A i \in DOMAIN c : Frozen(t, limit)[i] = t
    BY <1>1, <1>2, <1>9 DEF Frozen
  <2>5. Verified(Frozen(t, limit), c) <=>
          /\ Len(c) >= 3
          /\ t.shape[c[1]] = "self" /\ t.shape[c[2]] \in {"sudo", "restrictedSudo"}
          /\ {c[1], c[2], c[Len(c)]} \subseteq t.members
          /\ \A i \in DOMAIN c : t.shape[c[i]] \in Restricted => i = 2
    <3>1. Len(c) >= 3 => {1, 2, Len(c)} \subseteq DOMAIN c
      BY <1>1, <1>2
    <3> QED BY <2>4, <3>1 DEF Verified, Shape
  <2> QED BY <1>1, <1>2, <1>4, <1>9, <2>1, <2>2, <2>3, <2>5 DEF Accepts, Judged
<1>10. CASE ~(m + 1 <= limit /\ AllReadable(t, u, m))
  <2>1. Acquire(Frozen(t, limit), limit) = <<>>
    BY <1>5, <1>6, <1>7, <1>10
  <2>2. ~Judged(t, u, m, limit)
    BY <1>8, <1>10 DEF Judged
  <2> QED BY <2>1, <2>2, NoneIsRefused DEF Accepts
<1> QED BY <1>9, <1>10

LEMMA JudgedChain ==
  ASSUME NEW t \in Tables, NEW limit \in Nat \ {0}, NEW u, NEW N \in Nat, IsAscent(t, u, N),
         Height <= N, limit <= N, NEW m, Reaches(u, N, m), Ours(t, limit)
  PROVE  LET chain == Walk(Frozen(t, limit), limit)
         IN Len(chain) = Cardinality(Kin(t)) /\ Len(chain) \in 3..limit
            /\ chain[1] = Peer /\ chain[2] = t.parent[Peer]
<1>1. m \in Nat /\ m <= N /\ u[0] = Peer
  BY DEF Reaches, IsAscent
<1>2. Judged(t, u, m, limit)
  BY OursIsJudged
<1>3. AllReadable(t, u, m)
  <2>1. \A k \in 0..m : t.shape[u[k]] # "hidden"
    BY <1>2 DEF Judged, Restricted
  <2> QED BY <1>1, <2>1, AscentMeetsProcesses DEF AllReadable, Readable
<1>4. Walk(Frozen(t, limit), limit) = Stretch(u, m + 1)
  BY <1>2, <1>3, WalkIs DEF Judged
<1>5. Len(Stretch(u, m + 1)) = m + 1 /\ m + 1 \in 3..limit
  <2>1. m + 1 \in 1..(N + 1) /\ u \in [0..N -> Ancestry]
    BY <1>1 DEF IsAscent
  <2>2. Len(Stretch(u, m + 1)) = m + 1
    BY <2>1, StretchIsChain
  <2>3. m + 1 \in 3..limit
    BY <1>1, <1>2 DEF Judged
  <2> QED BY <2>2, <2>3
<1>6. Cardinality(Kin(t)) = m + 1
  BY KinOfReached, MetAreCounted
<1>7. Stretch(u, m + 1)[1] = u[0] /\ Stretch(u, m + 1)[2] = u[1]
  <2>1. 1 \in 1..(m + 1) /\ 2 \in 1..(m + 1) /\ 1 - 1 = 0 /\ 2 - 1 = 1
    BY <1>1, <1>5
  <2> QED BY <2>1 DEF Stretch
<1>8. u[1] = t.parent[Peer]
  <2>1. 1 \in 1..N /\ 0 \in 0..(m - 1) /\ 1 - 1 = 0
    BY <1>1, <1>5
  <2>2. u[1] = Parent(t, u[1 - 1]) /\ Peer # Tracked
    BY <1>1, <2>1 DEF IsAscent, Reaches
  <2> QED BY <1>1, <2>1, <2>2, ProcessesAssumption DEF Parent
<1> QED BY <1>1, <1>4, <1>5, <1>6, <1>7, <1>8

LEMMA UnreachedIsRefused ==
  ASSUME NEW t \in Tables, NEW limit \in Nat \ {0}, NEW u, NEW N \in Nat, IsAscent(t, u, N),
         Height <= N, limit <= N, \A k \in 0..N : u[k] # Tracked
  PROVE  ~Ours(t, limit) /\ ~Accepts(Frozen(t, limit), limit)
<1>1. Tracked \notin Kin(t)
  BY KinIsMet, HeightType DEF Met
<1>2. Acquire(Frozen(t, limit), limit) = <<>>
  BY WalkIs DEF Acquire
<1> QED BY <1>1, <1>2, NoneIsRefused DEF Ours, Accepts

(* Of a table that does not change, exactly this job's helper is accepted; *)
(* its chain is then all its kin.                                          *)
LEMMA FrozenIsExact ==
  ASSUME NEW t \in Tables, NEW limit \in Nat \ {0}
  PROVE  /\ Accepts(Frozen(t, limit), limit) <=> Ours(t, limit)
         /\ Ours(t, limit) =>
              LET chain == Walk(Frozen(t, limit), limit)
              IN Len(chain) = Cardinality(Kin(t)) /\ Len(chain) \in 3..limit
                 /\ chain[1] = Peer /\ chain[2] = t.parent[Peer]
<1> DEFINE N == Height + limit
<1>1. N \in Nat /\ Height <= N /\ limit <= N
  BY HeightType
<1> HIDE DEF N
<1>2. PICK u : IsAscent(t, u, N)
  BY <1>1, AscentExists
<1>3. CASE \A k \in 0..N : u[k] # Tracked
  BY <1>1, <1>2, <1>3, UnreachedIsRefused
<1>4. CASE \E k \in 0..N : u[k] = Tracked
  <2> DEFINE S == {k \in 0..N : u[k] = Tracked}
  <2>1. S \in SUBSET Nat /\ S # {}
    BY <1>4
  <2>2. PICK m \in S : \A k \in S : m <= k
    BY <2>1, LeastNumber
  <2>3. Reaches(u, N, m)
    BY <1>1, <2>2 DEF Reaches
  <2>4. Ours(t, limit) <=> Judged(t, u, m, limit)
    BY <1>1, <1>2, <2>3, OursIsJudged
  <2>5. Accepts(Frozen(t, limit), limit) <=> Judged(t, u, m, limit)
    BY <1>1, <1>2, <2>3, AcceptsIsJudged
  <2>6. Judged(t, u, m, limit) =>
          LET chain == Walk(Frozen(t, limit), limit)
          IN Len(chain) = Cardinality(Kin(t)) /\ Len(chain) \in 3..limit
             /\ chain[1] = Peer /\ chain[2] = t.parent[Peer]
    BY <1>1, <1>2, <2>3, <2>4, JudgedChain
  <2> QED BY <2>4, <2>5, <2>6
<1> QED BY <1>3, <1>4

----------------------------------------------------------------------------
(* What the readings of a history tell: no more than its table, and of a   *)
(* process that has not exited by then the same.                           *)
History(h) == h.table \in Tables /\ h.exits \in [Pids -> Nat] /\ h.limit \in Nat \ {0}

LEMMA SeenIs ==
  ASSUME NEW h, History(h)
  PROVE  /\ Seen(h) \in [1..(h.limit + 3) -> Tables]
         /\ \A n \in 1..(h.limit + 3), p \in Pids :
              /\ Readable(Seen(h)[n], p) <=> h.exits[p] >= n /\ Readable(h.table, p)
              /\ Readable(Seen(h)[n], p) => Seen(h)[n].shape[p] = h.table.shape[p]
              /\ Seen(h)[n].parent[p] \in {h.table.parent[p], Launchd}
              /\ Seen(h)[n].members = h.table.members
<1> DEFINE t == h.table
<1>1. \A n \in 1..(h.limit + 3) : Seen(h)[n] = Without(t, Gone(h, n))
  BY DEF Seen, Readings
<1>2. ASSUME NEW gone \in SUBSET Pids PROVE Without(t, gone) \in Tables
  BY DEF Without, Tables, Shapes, History
<1>3. ASSUME NEW gone \in SUBSET Pids, NEW p \in Pids
      PROVE  /\ Readable(Without(t, gone), p) <=> p \notin gone /\ Readable(t, p)
             /\ p \notin gone => Without(t, gone).shape[p] = t.shape[p]
             /\ Without(t, gone).parent[p] \in {t.parent[p], Launchd}
             /\ Without(t, gone).members = t.members
  BY DEF Without, Readable
<1>4. \A n \in 1..(h.limit + 3) : Gone(h, n) \in SUBSET Pids
  BY DEF Gone
<1>5. \A n \in 1..(h.limit + 3), p \in Pids : p \notin Gone(h, n) <=> h.exits[p] >= n
  BY DEF Gone, History
<1>6. Seen(h) \in [1..(h.limit + 3) -> Tables]
  <2>1. \A n \in 1..(h.limit + 3) : Without(t, Gone(h, n)) \in Tables
    BY <1>2, <1>4
  <2> QED BY <2>1 DEF Seen, Readings
<1> HIDE DEF t
<1>7. \A n \in 1..(h.limit + 3), p \in Pids :
        /\ Readable(Seen(h)[n], p) <=> h.exits[p] >= n /\ Readable(t, p)
        /\ Readable(Seen(h)[n], p) => Seen(h)[n].shape[p] = t.shape[p]
        /\ Seen(h)[n].parent[p] \in {t.parent[p], Launchd}
        /\ Seen(h)[n].members = t.members
  <2> TAKE n \in 1..(h.limit + 3), p \in Pids
  <2>1. Seen(h)[n] = Without(t, Gone(h, n)) /\ Gone(h, n) \in SUBSET Pids
        /\ (p \notin Gone(h, n) <=> h.exits[p] >= n)
    BY <1>1, <1>4, <1>5
  <2> QED BY <1>3, <2>1
<1> QED BY <1>6, <1>7 DEF t

LEMMA ReadEarlier ==
  ASSUME NEW h, History(h), NEW n \in 1..(h.limit + 3), NEW k \in 1..n, NEW p \in Pids,
         Readable(Seen(h)[n], p)
  PROVE  Readable(Seen(h)[k], p)
BY SeenIs DEF History

(* A walk that fails nowhere is the walk of the table that does not change,*)
(* and has read each of its links in its turn (acquirePeerEvidence).       *)
Fading(h, chain, n) ==
  /\ chain = Walks(Frozen(h.table, h.limit), h.limit)[n] /\ Len(chain) <= n
  /\ \A i \in DOMAIN chain : Readable(Seen(h)[i], chain[i])

LEMMA WalkFades ==
  ASSUME NEW h, History(h)
  PROVE  \A n \in 1..h.limit :
           LET chain == Walks(Seen(h), h.limit)[n] IN chain = <<>> \/ Fading(h, chain, n)
<1> DEFINE t == h.table
           w == Walks(Seen(h), h.limit)
           f == Walks(Frozen(t, h.limit), h.limit)
           S == {n \in Nat : w[n] = <<>> \/ Fading(h, w[n], n)}
<1>0. h.limit \in Nat \ {0} /\ t \in Tables
  BY DEF History
<1>1. /\ w \in [1..h.limit -> Seq(Pids)] /\ w[1] = First(Seen(h)[1])
      /\ \A n \in 2..h.limit : w[n] = Extended(Seen(h)[n - 1], Seen(h)[n], w[n - 1])
  <2> HIDE DEF t
  <2> QED BY <1>0, SeenIs, WalksUnfold
<1>2. f[1] = First(t) /\ \A n \in 2..h.limit : f[n] = Extended(t, t, f[n - 1])
  <2> HIDE DEF t
  <2> QED BY <1>0, FrozenUnfolds
<1>3. \A n \in Nat : \A c : Fading(h, c, n) <=>
        c = f[n] /\ Len(c) <= n /\ \A i \in DOMAIN c : Readable(Seen(h)[i], c[i])
  BY DEF Fading
<1> HIDE DEF w, f, t
<1>4. 1 \in S
  <2>1. CASE ~Readable(Seen(h)[1], Peer)
    BY <1>1, <2>1 DEF First
  <2>2. CASE Readable(Seen(h)[1], Peer)
    <3>1. Readable(t, Peer)
      BY <1>0, <2>2, SeenIs, ProcessesAssumption DEF t
    <3>2. w[1] = <<Peer>> /\ f[1] = <<Peer>>
      BY <1>1, <1>2, <2>2, <3>1 DEF First
    <3>3. Len(w[1]) <= 1 /\ \A i \in DOMAIN w[1] : Readable(Seen(h)[i], w[1][i])
      BY <2>2, <3>2
    <3> QED BY <1>3, <3>2, <3>3
  <2> QED BY <2>1, <2>2
<1>5. ASSUME NEW n \in 1..(h.limit - 1), n \in S PROVE n + 1 \in S
  <2> DEFINE c == w[n]
             before == Seen(h)[n]
             now == Seen(h)[n + 1]
             last == c[Len(c)]
             next == before.parent[last]
  <2>1. n + 1 \in 2..h.limit /\ (n + 1) - 1 = n /\ n \in 1..(h.limit + 3)
        /\ n + 1 \in 1..(h.limit + 3) /\ n \in Nat /\ n + 1 \in Nat /\ n \in 1..h.limit
    BY <1>0
  <2>2. w[n + 1] = Extended(before, now, c) /\ f[n + 1] = Extended(t, t, f[n])
    BY <1>1, <1>2, <2>1
  <2>3. c \in Seq(Pids)
    BY <1>1, <2>1
  <2>4. CASE c = <<>>
    BY <2>1, <2>2, <2>4 DEF Extended
  <2>5. CASE c # <<>> /\ last = Tracked
    <3>1. Fading(h, c, n)
      BY <1>5, <2>5
    <3>2. c = f[n] /\ Len(c) <= n /\ \A i \in DOMAIN c : Readable(Seen(h)[i], c[i])
      BY <1>3, <2>1, <3>1
    <3>3. w[n + 1] = c /\ f[n + 1] = c
      BY <2>2, <2>5, <3>2 DEF Extended, Ancestor
    <3>4. Len(c) <= n + 1
      BY <2>1, <2>3, <3>2
    <3> HIDE DEF c
    <3>5. Fading(h, c, n + 1)
      BY <1>3, <2>1, <3>2, <3>3, <3>4
    <3> QED BY <2>1, <3>3, <3>5
  <2>6. CASE c # <<>> /\ last # Tracked /\ w[n + 1] # <<>>
    <3>1. Fading(h, c, n)
      BY <1>5, <2>6
    <3>2. c = f[n] /\ Len(c) <= n /\ \A i \in DOMAIN c : Readable(Seen(h)[i], c[i])
      BY <1>3, <2>1, <3>1
    <3>3. Readable(now, next) /\ next \notin {c[i] : i \in DOMAIN c} /\ w[n + 1] = Append(c, next)
      BY <2>2, <2>6 DEF Extended, Ancestor
    <3>4. last \in Pids /\ next \in Pids
      BY <2>3, <2>6, <3>3 DEF Readable
    <3>5. next = t.parent[last]
      BY <2>1, <3>4, SeenIs, ProcessesAssumption DEF t
    <3>6. Readable(t, next)
      BY <2>1, <3>3, <3>4, SeenIs DEF t
    <3>7. f[n + 1] = Append(c, next)
      <4> HIDE DEF c
      <4> QED BY <2>2, <2>6, <3>2, <3>3, <3>5, <3>6 DEF Extended, Ancestor
    <3>8. Len(c) \in Nat /\ DOMAIN c = 1..Len(c)
      BY <2>3
    <3>9. Readable(Seen(h)[Len(c) + 1], next)
      <4>1. Len(c) + 1 \in 1..(n + 1)
        BY <2>1, <3>2, <3>8
      <4>2. Readable(Seen(h)[n + 1], next)
        BY <3>3
      <4> HIDE DEF c, next
      <4> QED BY <2>1, <3>4, <4>1, <4>2, ReadEarlier
    <3> HIDE DEF c, next
    <3>10. Len(Append(c, next)) = Len(c) + 1 /\ DOMAIN Append(c, next) = 1..(Len(c) + 1)
           /\ \A i \in 1..(Len(c) + 1) : Append(c, next)[i] = IF i = Len(c) + 1 THEN next ELSE c[i]
      BY <2>3, <3>4
    <3>11. \A i \in DOMAIN Append(c, next) : Readable(Seen(h)[i], Append(c, next)[i])
      <4> TAKE i \in DOMAIN Append(c, next)
      <4>1. i = Len(c) + 1 \/ (i \in DOMAIN c /\ i # Len(c) + 1)
        BY <3>8, <3>10
      <4> QED BY <3>2, <3>9, <3>10, <4>1
    <3>12. Len(Append(c, next)) <= n + 1
      BY <2>1, <3>2, <3>8, <3>10
    <3>13. Fading(h, w[n + 1], n + 1)
      BY <1>3, <2>1, <3>3, <3>7, <3>11, <3>12
    <3> QED BY <2>1, <3>13
  <2> QED BY <2>1, <2>4, <2>5, <2>6
<1>6. 1..h.limit \subseteq S
  <2> HIDE DEF S
  <2> QED BY <1>0, <1>4, <1>5, IntervalInduction
<1> QED BY <1>6 DEF w

(* Who is accepted in the end is this job's helper of the table the walk   *)
(* began with, still there when it, its sudo and the child are read again. *)
LEMMA AcceptedIsKept ==
  ASSUME NEW h, History(h), Accepts(Seen(h), h.limit)
  PROVE  Ours(h.table, h.limit) /\ Kept(h)
<1> DEFINE t == h.table
           at == Seen(h)
           c == Walk(at, h.limit)
           n == Len(c)
<1>0. h.limit \in Nat \ {0} /\ t \in Tables /\ h.limit \in 1..h.limit
  BY DEF History
<1>1. Acquire(at, h.limit) # <<>>
  BY NoneIsRefused DEF Accepts
<1>2. /\ Acquire(at, h.limit) = c /\ c # <<>>
      /\ SameProcess(at[1], at[n + 1], Peer, FALSE)
      /\ n > 1 => SameProcess(at[2], at[n + 2], c[2], TRUE)
      /\ SameProcess(at[n], at[n + 3], Tracked, FALSE)
  <2> HIDE DEF at
  <2> QED BY <1>1 DEF Acquire
<1>3. c = Walks(at, h.limit)[h.limit] /\ c[n] = Tracked
  <2> HIDE DEF at
  <2> QED BY <1>2 DEF Walk
<1>4. Fading(h, c, h.limit)
  <2>1. Walks(at, h.limit)[h.limit] # <<>>
    BY <1>2, <1>3
  <2>2. Fading(h, Walks(at, h.limit)[h.limit], h.limit)
    BY <1>0, <2>1, WalkFades
  <2> HIDE DEF c, at
  <2> QED BY <1>3, <2>2
<1>5. Verified(at, c)
  BY <1>2 DEF Accepts
<1> HIDE DEF c
<1>6. c = Walk(Frozen(t, h.limit), h.limit) /\ n <= h.limit
      /\ \A i \in DOMAIN c : Readable(at[i], c[i])
  BY <1>2, <1>3, <1>4 DEF Fading, Walk
<1>7. n >= 3
  BY <1>5 DEF Verified
<1>8. c \in Seq(Pids)
  <2>1. Walks(at, h.limit)[h.limit] \in Seq(Pids)
    BY <1>0, SeenIs, WalksUnfold
  <2> QED BY <1>3, <2>1
<1>9. n \in 3..h.limit /\ DOMAIN c = 1..n
  BY <1>0, <1>6, <1>7, <1>8
<1>10. Readable(at[n + 1], Peer) /\ Readable(at[n + 2], c[2]) /\ Readable(at[n + 3], Tracked)
  BY <1>2, <1>9 DEF SameProcess
<1>11. n + 1 \in 1..(h.limit + 3) /\ n + 2 \in 1..(h.limit + 3) /\ n + 3 \in 1..(h.limit + 3)
       /\ 2 \in 1..n /\ \A i \in 1..n : i \in 1..(h.limit + 3)
  BY <1>0, <1>9
<1>12. Peer \in Pids /\ Tracked \in Pids /\ \A i \in 1..n : c[i] \in Pids
  BY <1>8, <1>9, ProcessesAssumption
<1>13. Readable(t, Peer) /\ Readable(t, c[2]) /\ Readable(t, Tracked)
  BY <1>10, <1>11, <1>12, SeenIs
<1>14. h.exits[Peer] >= n + 1 /\ h.exits[c[2]] >= n + 2 /\ h.exits[Tracked] >= n + 3
  BY <1>10, <1>11, <1>12, SeenIs
<1>15. \A i \in 1..n : at[i].shape[c[i]] = t.shape[c[i]] /\ at[i].members = t.members
  BY <1>6, <1>9, <1>11, <1>12, SeenIs
<1>16. Acquire(Frozen(t, h.limit), h.limit) = c
  <2>1. \A arguments \in BOOLEAN : \A p : Readable(t, p) => SameProcess(t, t, p, arguments)
    BY DEF SameProcess
  <2>2. \A k \in 1..(h.limit + 3) : Frozen(t, h.limit)[k] = t
    BY DEF Frozen
  <2>3. 1 \in 1..(h.limit + 3) /\ 2 \in 1..(h.limit + 3) /\ n \in 1..(h.limit + 3)
    BY <1>0, <1>9
  <2>4. Frozen(t, h.limit)[1] = t /\ Frozen(t, h.limit)[2] = t /\ Frozen(t, h.limit)[n] = t
        /\ Frozen(t, h.limit)[n + 1] = t /\ Frozen(t, h.limit)[n + 2] = t
        /\ Frozen(t, h.limit)[n + 3] = t
    BY <1>11, <2>2, <2>3
  <2> HIDE DEF t
  <2> QED BY <1>2, <1>6, <1>13, <2>1, <2>4 DEF Acquire
<1>17. Verified(Frozen(t, h.limit), c)
  <2>1. \A i \in 1..n : Frozen(t, h.limit)[i] = t
    BY <1>11 DEF Frozen
  <2>2. \A i \in 1..n : Shape(Frozen(t, h.limit), c, i) = Shape(at, c, i)
                        /\ Frozen(t, h.limit)[i].members = at[i].members
    BY <1>15, <2>1 DEF Shape
  <2>3. {1, 2, n} \subseteq 1..n
    BY <1>9
  <2> HIDE DEF at, t
  <2> QED BY <1>5, <1>9, <2>2, <2>3 DEF Verified
<1>18. Accepts(Frozen(t, h.limit), h.limit)
  BY <1>16, <1>17 DEF Accepts
<1>19. Ours(t, h.limit) /\ n = Cardinality(Kin(t)) /\ c[2] = t.parent[Peer]
  <2> HIDE DEF t
  <2> QED BY <1>0, <1>6, <1>18, FrozenIsExact
<1> QED BY <1>14, <1>19 DEF Kept

(* The peer accepted is this job's helper, and neither it nor its sudo nor *)
(* the child was gone when it was read again; a helper that nothing        *)
(* happens to is accepted (acquirePeerEvidence, verifyPeerEvidence).       *)
THEOREM VerificationIsExact ==
  ASSUME NEW h, History(h)
  PROVE  /\ Accepts(Seen(h), h.limit) => Identity(h) \in {"helper", "disturbed"}
         /\ Identity(h) = "helper" => Accepts(Seen(h), h.limit)
<1>1. ASSUME Accepts(Seen(h), h.limit) PROVE Identity(h) \in {"helper", "disturbed"}
  BY <1>1, AcceptedIsKept DEF Identity
<1>2. ASSUME Identity(h) = "helper" PROVE Accepts(Seen(h), h.limit)
  <2>1. Ours(h.table, h.limit) /\ NobodyExits(h)
    BY <1>2 DEF Identity
  <2>2. \A n \in 1..(h.limit + 3) : Gone(h, n) = {}
    BY <2>1 DEF NobodyExits, Gone, History
  <2>3. Without(h.table, {}) = h.table
    BY DEF Without, History, Tables
  <2>4. Seen(h) = Frozen(h.table, h.limit)
    BY <2>2, <2>3 DEF Seen, Readings, Frozen
  <2> QED BY <2>1, <2>4, FrozenIsExact DEF History
<1> QED BY <1>1, <1>2

----------------------------------------------------------------------------
(* The job that judges its peers is the privileged job.                    *)
JudgedVarsOk == peer \in [Conns -> {"unknown", "helper", "disturbed", "another"}]
JudgedInv == JudgedVarsOk /\ OnlyHelpersAreServed

LEMMA JudgedIsJob == [JudgedNext]_judgedVars => [Next]_vars
BY DEF JudgedNext, judgedVars, Next, Serve, Judge, Handling, Judging

LEMMA VerdictsAreExact ==
  ASSUME NEW v \in Verdicts
  PROVE  /\ v.is \in {"helper", "disturbed", "another"}
         /\ v.accepted => v.is \in {"helper", "disturbed"}
         /\ v.is = "helper" => v.accepted
<1>1. PICK h \in Histories : v = [accepted |-> Accepts(Seen(h), h.limit), is |-> Identity(h)]
  BY DEF Verdicts
<1>2. History(h)
  BY HistoriesAssumption DEF History
<1>3. Identity(h) \in {"helper", "disturbed", "another"}
  BY DEF Identity
<1> QED BY <1>1, <1>2, <1>3, VerificationIsExact

(* What the rest of the job does to handlers: admit or close connections.  *)
LEMMA RestAdmits ==
  ASSUME RestOfJob, TypeOK, NEW c \in Conns
  PROVE  handler'[c] = handler[c] \/ (acceptor = c /\ handler'[c] \in {"reading", "ended"})
<1>1. CASE Start \/ WaitChild \/ Finish \/ Processes
  BY <1>1 DEF Start, Prepare, Spawn, Abort, Arm, StartFrame, WaitChild, WaitFrame, Finish,
              FinishBegins, ObserveGroup, AwaitChild, ObserveAgain, AwaitWorkers, Finalise,
              FinishFrame, Processes, ChildExits, Dial, Send, HelperEnds, Becomes, Outside, exchange
<1>2. CASE AcceptLoop
  BY <1>2 DEF AcceptLoop, AcceptEnds, Accept, Admit, TypeOK
<1>3. CASE Update \/ User
  BY <1>3 DEF Update, JobStarted, ShowDialog, RefuseEvent, Write, Settle, JobEnded, User, Answer,
              Escape, CancelOperation, Quit, UpdateFrame, Cancels, Undisturbed, exchange
<1> QED BY <1>1, <1>2, <1>3 DEF RestOfJob

LEMMA ServeSteps ==
  ASSUME TypeOK, NEW c \in Conns, Serving(c)
  PROVE  /\ \A d \in Conns \ {c} : handler'[d] = handler[d]
         /\ handler[c] # "verifying" /\ handler'[c] # "offering"
         /\ handler'[c] = "waiting" => handler[c] = "offering"
BY DEF Serving, ReadRequest, ReadFails, Offer, Dropped, TimesOut, PeerGone, Answered, Close, At, TypeOK

LEMMA JudgeSteps ==
  ASSUME TypeOK, NEW c \in Conns, Judging(c)
  PROVE  /\ \A d \in Conns \ {c} : handler'[d] = handler[d]
         /\ Refuse(c) => handler'[c] = "closing"
         /\ handler'[c] \in {"closing", "offering"}
BY DEF Judging, Refuse, Verify, At, TypeOK

LEMMA JudgedNextInv == TypeOK /\ JudgedInv /\ [JudgedNext]_judgedVars => JudgedInv'
<1> SUFFICES ASSUME TypeOK, JudgedInv, [JudgedNext]_judgedVars PROVE JudgedInv'
  OBVIOUS
<1> USE DEF JudgedInv, JudgedVarsOk
<1>1. CASE RestOfJob /\ UNCHANGED peer
  BY <1>1, RestAdmits DEF OnlyHelpersAreServed
<1>2. ASSUME NEW c \in Conns, Serve(c) PROVE JudgedInv'
  <2>1. peer' = [peer EXCEPT ![c] = IF handler'[c] \in {"closing", "ended"} THEN "unknown" ELSE @]
    BY <1>2 DEF Serve
  <2>2. JudgedVarsOk'
    BY <2>1
  <2>3. \A d \in Conns : handler'[d] \in {"offering", "waiting"} =>
          handler[d] \in {"offering", "waiting"} /\ peer'[d] = peer[d]
    BY <1>2, <2>1, ServeSteps DEF Serve
  <2> QED BY <2>2, <2>3 DEF OnlyHelpersAreServed
<1>3. ASSUME NEW c \in Conns, Judge(c) PROVE JudgedInv'
  <2>1. PICK v \in Verdicts : /\ IF v.accepted THEN Verify(c) ELSE Refuse(c)
                              /\ peer' = [peer EXCEPT ![c] = v.is]
    BY <1>3 DEF Judge
  <2>2. JudgedVarsOk'
    BY <2>1, VerdictsAreExact
  <2>3. Judging(c)
    BY <2>1 DEF Judging
  <2>4. handler'[c] \in {"offering", "waiting"} => peer'[c] \in {"helper", "disturbed"}
    <3>1. handler'[c] \in {"offering", "waiting"} => v.accepted
      BY <2>1, <2>3, JudgeSteps
    <3> QED BY <2>1, <3>1, VerdictsAreExact
  <2>5. \A d \in Conns \ {c} : handler'[d] = handler[d] /\ peer'[d] = peer[d]
    BY <2>1, <2>3, JudgeSteps
  <2> QED BY <2>2, <2>4, <2>5 DEF OnlyHelpersAreServed
<1>4. CASE UNCHANGED judgedVars
  BY <1>4 DEF judgedVars, vars, exchange, OnlyHelpersAreServed
<1> QED BY <1>1, <1>2, <1>3, <1>4 DEF JudgedNext

(* The job with verified peers is a job as the other theorems have it, so  *)
(* they hold of it (handleConnection).                                     *)
THEOREM JudgedJobIsJob == JudgedSpec => Spec
<1>1. JudgedInit => Init
  BY DEF JudgedInit
<1> QED BY <1>1, JudgedIsJob, PTL DEF JudgedSpec, Spec

(* Only a helper of this job is let through to the password dialog, still  *)
(* there, with its sudo and the child, when it was read again, whatever    *)
(* the process table and whoever exits between two readings                *)
(* (acquirePeerEvidence).                                                  *)
THEOREM OthersAreNeverServed == JudgedSpec => []OnlyHelpersAreServed
<1>1. JudgedInit => JudgedInv
  BY DEF JudgedInit, Init, JudgedInv, JudgedVarsOk, OnlyHelpersAreServed
<1>2. JudgedInv => OnlyHelpersAreServed
  BY DEF JudgedInv
<1> QED
  BY <1>1, <1>2, JudgedNextInv, JudgedJobIsJob, JobTypeCorrect, PTL DEF JudgedSpec

(* A helper that nothing happens to is let through, whatever else runs and *)
(* at every limit of the walk, unless the job is being cancelled: no other *)
(* request can be in its way (verifyPeerEvidence, setVerifiedActive).      *)
THEOREM HelpersAreServed == JudgedSpec => HelperIsServed
<1> DEFINE Served == \A c \in Conns :
             handler[c] = "verifying" /\ handler'[c] # "verifying" /\ peer'[c] = "helper"
               => request'[c] = "verified" \/ cancelled
<1>1. ASSUME IInv, JudgedInv, [JudgedNext]_judgedVars PROVE Served
  <2> SUFFICES ASSUME NEW c \in Conns, handler[c] = "verifying", handler'[c] # "verifying",
                      peer'[c] = "helper", ~cancelled
               PROVE  request'[c] = "verified"
    OBVIOUS
  <2>1. TypeOK /\ ExchangeInv
    BY <1>1 DEF IInv
  <2>2. CASE RestOfJob
    BY <2>1, <2>2, RestAdmits DEF ExchangeInv, InHand
  <2>3. ASSUME NEW d \in Conns, Serve(d) PROVE FALSE
    BY <2>1, <2>3, ServeSteps DEF Serve
  <2>4. ASSUME NEW d \in Conns, Judge(d) PROVE request'[c] = "verified"
    <3>1. PICK v \in Verdicts : /\ IF v.accepted THEN Verify(d) ELSE Refuse(d)
                                /\ peer' = [peer EXCEPT ![d] = v.is]
      BY <2>4 DEF Judge
    <3>2. Judging(d)
      BY <3>1 DEF Judging
    <3>3. d = c
      BY <2>1, <3>2, JudgeSteps
    <3>4. v.is = "helper"
      BY <1>1, <3>1, <3>3 DEF JudgedInv, JudgedVarsOk
    <3>5. Verify(c)
      BY <3>1, <3>3, <3>4, VerdictsAreExact
    <3>6. active = NoConn
      BY <2>1 DEF ExchangeInv, RequestIsServed, InSlot, TypeOK
    <3> QED BY <2>1, <3>5, <3>6 DEF Verify, TypeOK
  <2>5. CASE UNCHANGED judgedVars
    BY <2>5 DEF judgedVars, vars, exchange
  <2> QED BY <1>1, <2>2, <2>3, <2>4, <2>5 DEF JudgedNext
<1>2. JudgedInit => JudgedInv
  BY DEF JudgedInit, Init, JudgedInv, JudgedVarsOk, OnlyHelpersAreServed
<1>3. IInv => TypeOK
  BY DEF IInv
<1>4. IInv /\ JudgedInv /\ [JudgedNext]_judgedVars => [Served]_judgedVars
  BY <1>1
<1> HIDE DEF Served
<1>5. JudgedSpec => [][Served]_judgedVars
  BY <1>2, <1>3, <1>4, JudgedNextInv, JudgedJobIsJob, JobInvariant, PTL DEF JudgedSpec
<1> QED BY <1>5 DEF HelperIsServed, Served
=============================================================================
