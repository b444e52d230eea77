---------------------------- MODULE SchemaChange ----------------------------
(***************************************************************************)
(* A schema and the one that is to read what it writes: the question that  *)
(* can_read of schema/mod.rs passes to the checker of the format.  A pair  *)
(* of schemas of different formats is refused there and not drawn here.    *)
(***************************************************************************)
EXTENDS Naturals, FiniteSets, FiniteSetsExt, Sequences, SequencesExt

CONSTANTS
    Schemas,    \* for each format, the schemas drawn
    Compared    \* the formats whose schemas are compared in pairs

VARIABLES
    format,
    writer,
    reader

changeVars == <<format, writer, reader>>

ChangeInit ==
    /\ format \in DOMAIN Schemas
    /\ writer \in Schemas[format]
    /\ reader = writer

\* Another schema is proposed for the reader.
Propose ==
    /\ format \in Compared
    /\ reader = writer
    /\ reader' \in Schemas[format]
    /\ UNCHANGED <<format, writer>>

ChangeSpec == ChangeInit /\ [][Propose]_changeVars
=============================================================================
