------------------------------ MODULE Formats -------------------------------
(***************************************************************************)
(* The formats together, behind can_read of schema/mod.rs.                 *)
(***************************************************************************)
EXTENDS AvroCheck, AvroNames, AvroDefaults, JsonDiff, ProtoDiff

CanRead ==
    CASE format = "avro" -> AvroCanRead
      [] format = "json" -> JsonCanRead
      [] format = "proto" -> ProtoCanRead

\* Every schema can read what it wrote, however it refers to itself: re-registering
\* a schema under any compatibility level is never refused as incompatible.
ReadsItself == format \in Compared /\ reader = writer => CanRead
=============================================================================
