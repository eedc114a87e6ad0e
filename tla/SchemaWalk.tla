----------------------------- MODULE SchemaWalk -----------------------------
(***************************************************************************)
(* One level of the schema validator (tools/schema.py): what a schema says *)
(* of a value, given what accepts(value, schema) says of the schemas       *)
(* inside it.                                                              *)
(***************************************************************************)
EXTENDS Integers, Sequences, ToolSchemas

\* Python's == takes True for 1 and False for 0.
Number(v) == IF Is("bool", v) THEN [int |-> IF v.bool THEN 1 ELSE 0] ELSE v

PyEqual(v, w) == Number(v) = Number(w)

\* _type_ok(): a type it does not know accepts everything.
TypeOk(v, declared) ==
    CASE declared = "string"  -> Is("str", v)
      [] declared = "number"  -> Is("int", v) \/ Is("real", v)
      [] declared = "integer" -> Is("int", v)
      [] declared = "boolean" -> Is("bool", v)
      [] declared = "array"   -> Is("arr", v)
      [] declared = "object"  -> Is("obj", v)
      [] declared = "null"    -> Is("null", v)
      [] OTHER                -> TRUE

AtLeast(v, n) == IF Is("int", v) THEN v.int >= n ELSE v.real >= n

AtMost(v, n) == IF Is("int", v) THEN v.int <= n ELSE v.real < n

ListOk(v, schema) ==
    /\ Has("minItems", schema) => Len(v.arr) >= schema.minItems
    /\ Has("maxItems", schema) => Len(v.arr) <= schema.maxItems

Properties(schema) == IF Has("properties", schema) THEN schema.properties ELSE <<>>

ObjectOk(v, schema) ==
    /\ Has("required", schema) => schema.required \subseteq DOMAIN v.obj
    /\ Has("additionalProperties", schema) /\ ~schema.additionalProperties
         => DOMAIN v.obj \subseteq DOMAIN Properties(schema)

\* Each keyword present has its say; others are ignored, as are the keywords of
\* another type.
KeywordsOk(v, schema) ==
    /\ Has("const", schema) => PyEqual(v, schema.const)
    /\ Has("enum", schema) => \E w \in schema.enum : PyEqual(v, w)
    /\ Has("type", schema) => \E t \in schema.type : TypeOk(v, t)
    /\ Is("str", v) /\ Has("pattern", schema) => v.str \in schema.pattern
    /\ Is("int", v) \/ Is("real", v) =>
         /\ Has("minimum", schema) => AtLeast(v, schema.minimum)
         /\ Has("maximum", schema) => AtMost(v, schema.maximum)
    /\ Is("arr", v) => ListOk(v, schema)
    /\ Is("obj", v) => ObjectOk(v, schema)

\* The keywords, and the schemas inside this one.
Walk(accepts(_, _), v, schema) ==
    /\ KeywordsOk(v, schema)
    /\ Has("oneOf", schema) => \E i \in DOMAIN schema.oneOf : accepts(v, schema.oneOf[i])
    /\ Has("anyOf", schema) => \E i \in DOMAIN schema.anyOf : accepts(v, schema.anyOf[i])
    /\ Is("arr", v) /\ Has("items", schema) =>
         \A i \in DOMAIN v.arr : accepts(v.arr[i], schema.items)
    /\ Is("obj", v) =>
         \A k \in DOMAIN Properties(schema) \cap DOMAIN v.obj :
            accepts(v.obj[k], Properties(schema)[k])
=============================================================================
