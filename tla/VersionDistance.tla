--------------------------- MODULE VersionDistance ---------------------------
(***************************************************************************)
(* internal/brew/version.go and the outdated threshold of settings.go: how *)
(* far apart two versions are, and which updates the list does not mark.   *)
(*                                                                         *)
(* The text of a version is its dotted parts and what follows the first    *)
(* underscore, if anything does; a part is a number or no number.          *)
(***************************************************************************)
EXTENDS Integers, Sequences

CONSTANTS
  NoNumber,    \* a part that strconv does not read; it reads a sign
  NoRevision,  \* a version without an underscore
  MaxInt       \* the largest int64

ASSUME PartsAssumption == MaxInt \in Nat /\ NoNumber \notin Int /\ NoRevision \notin Int

(* Every text is one of these, however many parts it has.                  *)
Parts == Int \cup {NoNumber}
Texts == [base: Seq(Parts), revision: Int \cup {NoNumber, NoRevision}]

(* parseVersion: a part that is no int64 makes the version unreadable.     *)
Int64 == (-MaxInt - 1)..MaxInt
Readable(v) ==
  /\ v.base # <<>> /\ \A i \in DOMAIN v.base : v.base[i] \in Int64
  /\ v.revision \in Int64 \cup {NoRevision}
Revision(v) == IF v.revision = NoRevision THEN 0 ELSE v.revision

(* segmentAt: missing trailing segments are read as 0.                     *)
Segment(v, i) == IF i \in DOMAIN v.base THEN v.base[i] ELSE 0

DistanceNone == 0
DistancePatch == 1
DistanceMinor == 2
DistanceMajor == 3
DistanceUnknown == 4

Differ(v, w, i) == Segment(v, i) # Segment(w, i)

(* The first segment that differs decides.                                 *)
Distance(v, w) ==
  IF ~Readable(v) \/ ~Readable(w) THEN DistanceUnknown
  ELSE IF Differ(v, w, 1) THEN DistanceMajor
  ELSE IF Differ(v, w, 2) THEN DistanceMinor
  ELSE IF \/ \E i \in DOMAIN v.base \cup DOMAIN w.base : Differ(v, w, i)
          \/ Revision(v) # Revision(w)
       THEN DistancePatch
  ELSE DistanceNone

Thresholds == {"any", "minor", "major"}
Allows(threshold, distance) ==
  \/ threshold = "any"
  \/ threshold = "minor" /\ distance >= DistanceMinor
  \/ threshold = "major" /\ distance >= DistanceMajor

(* markOutdated: the update of a package from v to w is not marked.        *)
Unmarked(threshold, v, w) == ~Allows(threshold, Distance(v, w))

----------------------------------------------------------------------------
(* What is unmarked does not depend on the releases in between, whatever   *)
(* the number of segments: two steps below the threshold are below it      *)
(* together, and so is the way back.  A version that cannot be read is     *)
(* always marked, and a stricter threshold marks less.                     *)
ThresholdIsConsistent(u, v, w) ==
  \A threshold \in Thresholds :
    /\ Unmarked(threshold, u, v) /\ Unmarked(threshold, v, w) => Unmarked(threshold, u, w)
    /\ Unmarked(threshold, u, v) => Unmarked(threshold, v, u) /\ Readable(u) /\ Readable(v)
    /\ Unmarked("minor", u, v) => Unmarked("major", u, v)

(* The version v with n more segments, all of them 0.                      *)
Padded(v, n) ==
  [v EXCEPT !.base = [i \in 1..(Len(v.base) + n) |-> Segment(v, i)]]
=============================================================================
