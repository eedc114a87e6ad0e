--------------------------- MODULE SchemaValidator ---------------------------
(* validate_schema() (tools/schema.py): the walk, all the way down. *)
EXTENDS SchemaWalk

RECURSIVE Validates(_, _)
Validates(v, schema) == Walk(Validates, v, schema)
=============================================================================
