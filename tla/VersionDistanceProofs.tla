------------------------ MODULE VersionDistanceProofs ------------------------
(***************************************************************************)
(* The consistency of the outdated threshold for versions of any length.   *)
(***************************************************************************)
EXTENDS VersionDistance, TLAPS

(* The distance is symmetric, and the longest of two steps bounds the way  *)
(* that leaves one out (VersionDistance).                                  *)
LEMMA DistanceSymmetric ==
  ASSUME NEW v \in Texts, NEW w \in Texts PROVE Distance(v, w) = Distance(w, v)
BY DEF Distance, Differ

LEMMA DistanceUltrametric ==
  ASSUME NEW u \in Texts, NEW v \in Texts, NEW w \in Texts, NEW d \in Nat,
         Distance(u, v) <= d, Distance(v, w) <= d
  PROVE  Distance(u, w) <= d
<1> USE DEF DistanceNone, DistancePatch, DistanceMinor, DistanceMajor, DistanceUnknown
<1>1. CASE d >= DistanceUnknown
  BY <1>1 DEF Distance
<1>2. CASE d < DistanceUnknown
  <2>1. Readable(u) /\ Readable(v) /\ Readable(w)
    BY <1>2 DEF Distance
  <2>2. CASE d = DistanceMajor
    BY <2>1, <2>2 DEF Distance
  <2>3. CASE d = DistanceMinor
    BY <2>1, <2>3 DEF Distance, Differ
  <2>4. CASE d = DistancePatch
    BY <2>1, <2>4 DEF Distance, Differ
  <2>5. CASE d = DistanceNone
    <3>1. \A i \in DOMAIN u.base \cup DOMAIN v.base : ~Differ(u, v, i)
      BY <2>1, <2>5 DEF Distance
    <3>2. \A i \in DOMAIN v.base \cup DOMAIN w.base : ~Differ(v, w, i)
      BY <2>1, <2>5 DEF Distance
    <3>3. \A i \in DOMAIN u.base \cup DOMAIN w.base : ~Differ(u, w, i)
      BY <3>1, <3>2 DEF Differ, Segment
    <3>4. Revision(u) = Revision(v) /\ Revision(v) = Revision(w)
      BY <2>1, <2>5 DEF Distance
    <3>5. ~Differ(u, w, 1) /\ ~Differ(u, w, 2)
      BY <2>1, <2>5 DEF Distance, Differ
    <3> QED BY <2>1, <2>5, <3>3, <3>4, <3>5 DEF Distance
  <2> QED BY <1>2, <2>2, <2>3, <2>4, <2>5
<1> QED BY <1>1, <1>2

(* An update the list does not mark is one whose releases, taken one by    *)
(* one, were not marked either; no version that cannot be read is hidden.  *)
THEOREM ThresholdHidesNoUpdate ==
  \A u, v, w \in Texts : ThresholdIsConsistent(u, v, w)
<1> SUFFICES ASSUME NEW u \in Texts, NEW v \in Texts, NEW w \in Texts
             PROVE  ThresholdIsConsistent(u, v, w)
  OBVIOUS
<1>1. ASSUME NEW p \in Texts, NEW q \in Texts PROVE Distance(p, q) \in 0..4
  BY DEF Distance, DistanceNone, DistancePatch, DistanceMinor, DistanceMajor, DistanceUnknown
<1>2. ASSUME NEW p \in Texts, NEW q \in Texts
      PROVE  /\ ~Unmarked("any", p, q)
             /\ Unmarked("minor", p, q) <=> Distance(p, q) <= DistancePatch
             /\ Unmarked("major", p, q) <=> Distance(p, q) <= DistanceMinor
  BY <1>1 DEF Unmarked, Allows, DistancePatch, DistanceMinor, DistanceMajor
<1>3. ASSUME NEW threshold \in Thresholds, Unmarked(threshold, u, v)
      PROVE  /\ Unmarked(threshold, v, u) /\ Readable(u) /\ Readable(v)
             /\ Unmarked(threshold, v, w) => Unmarked(threshold, u, w)
  <2>1. Readable(u) /\ Readable(v)
    BY <1>2, <1>3 DEF Thresholds, Distance, DistancePatch, DistanceMinor, DistanceUnknown
  <2>2. Unmarked(threshold, v, u)
    BY <1>2, <1>3, DistanceSymmetric DEF Thresholds
  <2>3. ASSUME Unmarked(threshold, v, w) PROVE Unmarked(threshold, u, w)
    BY <1>2, <1>3, <2>3, DistanceUltrametric DEF Thresholds, DistancePatch, DistanceMinor
  <2> QED BY <2>1, <2>2, <2>3
<1>4. Unmarked("minor", u, v) => Unmarked("major", u, v)
  BY <1>1, <1>2 DEF DistancePatch, DistanceMinor
<1> QED BY <1>2, <1>3, <1>4 DEF ThresholdIsConsistent

(* Trailing zeros make no difference: with any number of them a version is *)
(* as far from every other one as without (segmentAt).                     *)
THEOREM TrailingZerosAreIgnored ==
  ASSUME NEW v \in Texts, v.base # <<>>, NEW w \in Texts, NEW n \in Nat
  PROVE  Distance(Padded(v, n), w) = Distance(v, w)
<1> DEFINE p == Padded(v, n)
<1>1. /\ p.base = [i \in 1..(Len(v.base) + n) |-> Segment(v, i)]
      /\ p.revision = v.revision /\ DOMAIN v.base = 1..Len(v.base) /\ Len(v.base) \in Nat \ {0}
  BY DEF Padded, Texts
<1>2. DOMAIN p.base = 1..(Len(v.base) + n) /\ DOMAIN v.base \subseteq DOMAIN p.base
  BY <1>1
<1>3. ASSUME NEW i \in Nat PROVE Segment(p, i) = Segment(v, i)
  <2>1. CASE i \in DOMAIN p.base
    BY <1>1, <1>2, <2>1 DEF Segment
  <2>2. CASE i \notin DOMAIN p.base
    BY <1>2, <2>2 DEF Segment
  <2> QED BY <2>1, <2>2
<1>4. p.base # <<>>
  BY <1>1, <1>2
<1>5. Readable(p) <=> Readable(v)
  <2>1. 0 \in Int64
    BY PartsAssumption DEF Int64
  <2>2. \A i \in DOMAIN p.base : p.base[i] = IF i \in DOMAIN v.base THEN v.base[i] ELSE 0
    BY <1>1, <1>2 DEF Segment
  <2> HIDE DEF p
  <2> QED BY <1>1, <1>2, <1>4, <2>1, <2>2 DEF Readable
<1> HIDE DEF p
<1>6. \A i \in Nat : Differ(p, w, i) <=> Differ(v, w, i)
  BY <1>3 DEF Differ
<1>7. (\E i \in DOMAIN p.base \cup DOMAIN w.base : Differ(p, w, i))
        <=> \E i \in DOMAIN v.base \cup DOMAIN w.base : Differ(v, w, i)
  <2>1. DOMAIN p.base \subseteq Nat /\ DOMAIN w.base \subseteq Nat
    BY <1>2, <1>1 DEF Texts
  <2>2. ASSUME NEW i \in Nat, i \notin DOMAIN v.base \cup DOMAIN w.base PROVE ~Differ(v, w, i)
    BY <2>2 DEF Differ, Segment
  <2> QED BY <1>2, <1>6, <2>1, <2>2
<1>8. Revision(p) = Revision(v)
  BY <1>1 DEF Revision
<1>9. Distance(p, w) = Distance(v, w)
  BY <1>5, <1>6, <1>7, <1>8 DEF Distance
<1> QED BY <1>9 DEF p
=============================================================================
