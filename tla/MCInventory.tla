----------------------------- MODULE MCInventory -----------------------------
(***************************************************************************)
(* Browsing, and the versions the outdated mark is decided on: up to four  *)
(* segments of 0 and 1, with and without a revision, a signed one, and     *)
(* texts that cannot be read.                                              *)
(***************************************************************************)
EXTENDS MCSession, VersionDistance

Bases == UNION {[1..n -> {0, 1}] : n \in 1..4}
MCVersionTexts ==
  [base: Bases, revision: {NoRevision, 1}]
    \cup [base: {<<>>, <<1, NoNumber>>, <<MaxInt + 1>>, <<-1>>}, revision: {NoRevision}]
    \cup [base: {<<1>>}, revision: {0, NoNumber}]

(* The theorems of VersionDistanceProofs, tried on these.                  *)
ASSUME DistanceOnSmallTexts ==
  /\ \A u, v, w \in MCVersionTexts : ThresholdIsConsistent(u, v, w)
  /\ \A v, w \in MCVersionTexts, n \in 0..2 :
       v.base # <<>> => Distance(Padded(v, n), w) = Distance(v, w)
=============================================================================
