---------------------------- MODULE ToolSchemas ----------------------------
(***************************************************************************)
(* JSON values and schemas, and the schemas a tool specification gives     *)
(* (tools/registry.py).                                                    *)
(*                                                                         *)
(* A JSON value is a record of one field named for its type: [str |-> s],  *)
(* [int |-> n], [real |-> n] (between n and n + 1), [bool |-> b],          *)
(* [null |-> TRUE], [arr |-> sequence], [obj |-> function of names].       *)
(* A schema is a record of the keywords it has; a pattern is the set of    *)
(* the strings it matches.                                                 *)
(***************************************************************************)
EXTENDS SequencesExt

Is(kind, v) == kind \in DOMAIN v

Has(keyword, schema) == keyword \in DOMAIN schema

\* A tool: the types of its arguments, those it requires, and the schema its
\* connector declares, <<>> if none.
FlatSchema(spec) ==
    [type |-> {"object"},
     properties |-> [k \in DOMAIN spec.argTypes |-> [type |-> {spec.argTypes[k]}]],
     required |-> spec.required,
     additionalProperties |-> FALSE]

SchemaForArguments(spec) ==
    IF spec.argumentSchema = <<>> THEN FlatSchema(spec) ELSE spec.argumentSchema

\* Faulty: what the decoder is held to lists only the types of the arguments.
JsonSchemaFlat(spec) ==
    [type |-> {"object"},
     properties |-> [tool |-> [const |-> [str |-> spec.name]],
                     arguments |-> FlatSchema(spec)],
     required |-> {"tool", "arguments"},
     additionalProperties |-> FALSE]

JsonSchema(spec) ==
    [type |-> {"object"},
     properties |-> [tool |-> [const |-> [str |-> spec.name]],
                     arguments |-> SchemaForArguments(spec)],
     required |-> {"tool", "arguments"},
     additionalProperties |-> FALSE]

\* envelope_schema(): what a constrained decoder may emit.  tools is the
\* registry, a set of specifications.
EnvelopeSchema(tools) ==
    IF tools = {} THEN [type |-> {"object"}]
    ELSE [oneOf |-> SetToSeq({JsonSchema(spec) : spec \in tools})]

SpecNamed(tools, name) == {spec \in tools : spec.name = name}
=============================================================================
