------------------------------ MODULE MCSession ------------------------------
(***************************************************************************)
(* Values for the constants of Session: two packages, a handful of         *)
(* terminal sizes and the keys each question needs.                        *)
(***************************************************************************)
EXTENDS SessionProperties, TLC

CONSTANTS a, b, f, none,              \* packages: two casks and a formula
          unsized, tiny, narrow, wide \* terminal sizes

TwoCasks == {a, b}
CaskAndFormula == {a, f}
KindOfAll == [p \in Pkgs |-> IF p = f THEN "formula" ELSE "cask"]

(* Sizes: everything fits the wide one; the narrow one has room for the    *)
(* dialogs of a, whose name is short, and for no modal of a batch; nothing *)
(* is drawn in the tiny one.                                               *)
WideOnly == {unsized, wide}
AnySize == {unsized, tiny, narrow, wide}
NoDrawing == {unsized, tiny} \cap Terms
Fitting == [t \in Terms |-> IF t = wide THEN Pkgs ELSE IF t = narrow THEN {a} ELSE {}]
WideModal == {wide}
NarrowModal == {wide, narrow}

(* Snapshots: none, and one of an older world, in which a was untrusted    *)
(* already and nothing else was installed.                                 *)
NoSnapshots == {NoSnapshot}
OldRow(p) == [name |-> p, offered |-> FALSE, untrusted |-> TRUE]
OldSnapshot ==
  [kinds |-> Kinds, sized |-> TRUE,
   lists |-> [k \in Kinds |-> IF k = "cask" THEN {OldRow(a)} ELSE {}]]
WithOldSnapshot == {NoSnapshot, OldSnapshot}
=============================================================================
