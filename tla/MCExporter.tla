----------------------------- MODULE MCExporter -----------------------------
(***************************************************************************)
(* Instances of Exporter: a subject b whose only version references the    *)
(* only version of subject a.                                              *)
(***************************************************************************)
EXTENDS Exporter
CONSTANTS x1, d1

A1 == <<"a", 1>>
B1 == <<"b", 1>>
TwoSubjects == {A1, B1}
BReferencesA == [k \in TwoSubjects |-> IF k = B1 THEN {A1} ELSE {}]
OnlyB == {B1}
All == {"create", "delete", "pause", "resume", "reset", "mode"}
=============================================================================
