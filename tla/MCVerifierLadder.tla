-------------------------- MODULE MCVerifierLadder --------------------------
(* Tools and texts for the verifier ladder: calls that each keyword of a    *)
(* schema accepts and rejects, and texts that are no call at all.           *)
EXTENDS VerifierLadder, SchemaValidator

String == [str |-> "s"]

\* A flat tool, one whose connector declares a nested schema, and one that nobody
\* declared anything about.
SearchTool == [name |-> "docs.search", argTypes |-> [q |-> "string", n |-> "integer"],
           required |-> {"q"}, argumentSchema |-> <<>>, irreversible |-> "no"]

FilterSchema == [type |-> {"object"},
           properties |->
             [field |-> [type |-> {"string"}, enum |-> {[str |-> "title"], [str |-> "owner"]}],
              op    |-> [type |-> {"string"}, pattern |-> {"eq"}],
              value |-> [anyOf |-> <<[type |-> {"string"}], [type |-> {"null"}]>>]],
           required |-> {"field", "op"}, additionalProperties |-> FALSE]

ListTool == [name |-> "items.list", argTypes |-> [filter |-> "object"],
            required |-> {}, irreversible |-> "undeclared",
            argumentSchema |->
              [type |-> {"object"},
               properties |->
                 [filter |-> FilterSchema,
                  top    |-> [type |-> {"integer"}, minimum |-> 1, maximum |-> 3],
                  ids    |-> [type |-> {"array"}, minItems |-> 1, maxItems |-> 2,
                              items |-> [type |-> {"number", "string"}]]],
               required |-> {"filter"}]]

PushTool == [name |-> "git.push", argTypes |-> <<>>, required |-> {},
         argumentSchema |-> <<>>, irreversible |-> "undeclared"]

MCTools == {SearchTool, ListTool, PushTool}

Envelope(tool, arguments) == [obj |-> [tool |-> tool, arguments |-> arguments]]

Named(name) == [str |-> name]

Where(field, op) == [obj |-> [field |-> Named(field), op |-> Named(op)]]

ListWith(filter, top) ==
    Envelope(Named("items.list"), [obj |-> [filter |-> filter, top |-> top]])

MCTexts ==
    {NotJson, String, [arr |-> <<String>>], [obj |-> [answer |-> String]],
     [obj |-> [tool |-> Named("git.push")]],
     Envelope(Named("git.push"), [null |-> TRUE]),
     Envelope(Named("git.push"), [obj |-> <<>>]),
     Envelope(Named("git.push"), [arr |-> <<>>]),
     Envelope(Named("git.push"), [arr |-> <<String>>]),
     Envelope(Named("mail.send"), [obj |-> <<>>]),
     Envelope([int |-> 7], [obj |-> <<>>]),
     Envelope(Named("docs.search"), [obj |-> <<>>]),
     Envelope(Named("docs.search"), [obj |-> [q |-> String]]),
     Envelope(Named("docs.search"), [obj |-> [q |-> [int |-> 1]]]),
     Envelope(Named("docs.search"), [obj |-> [q |-> String, n |-> [bool |-> TRUE]]]),
     Envelope(Named("docs.search"), [obj |-> [q |-> String, x |-> String]]),
     Envelope(Named("items.list"), [obj |-> [filter |-> [obj |-> <<>>]]]),
     Envelope(Named("items.list"), [obj |-> [filter |-> Where("title", "eq")]]),
     ListWith(Where("title", "like"), [int |-> 1]),
     ListWith(Where("author", "eq"), [int |-> 1]),
     ListWith(Where("owner", "eq"), [int |-> 3]),
     ListWith(Where("owner", "eq"), [real |-> 3]),
     ListWith(Where("owner", "eq"), [int |-> 0]),
     Envelope(Named("items.list"),
       [obj |-> [filter |-> [obj |-> [field |-> Named("title"), op |-> Named("eq"),
                                      value |-> [null |-> TRUE]]],
                 ids |-> [arr |-> <<[int |-> 1], [bool |-> TRUE]>>]]])}

MCVerifiers ==
    <<"truncation", "refusal", "json_schema", "tool_call", "grounding",
      "logprob", "self_consistency">>
=============================================================================
