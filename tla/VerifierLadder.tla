--------------------------- MODULE VerifierLadder ---------------------------
(***************************************************************************)
(* The verifier ladder (verify/ladder.py) over the verifiers it is built   *)
(* from (verify/free.py, cheap.py, expensive.py), beside what the commit   *)
(* gate's propose() and validate() say of the same text (tools/commit.py). *)
(*                                                                         *)
(* A small-model response is its text -- a JSON value, or NotJson -- and   *)
(* the flaws a verifier other than the schema walk would find in it.       *)
(***************************************************************************)
EXTENDS Integers, FiniteSets, Taxonomy, ToolSchemas

CONSTANTS
    Verifiers,      \* the free and cheap verifiers, in the ladder's order
    Accepts(_, _),  \* validate_schema(): does a value satisfy a schema?
    Tools,          \* the ToolRegistry: a set of ToolSpecs
    Texts,          \* texts a model may answer with
    Mutating,       \* tool names with a token of IRREVERSIBLE_VERBS
    Observing,      \* tool names with a token of READ_ONLY_VERBS
    Judge,          \* is a judge configured?
    NotJson,        \* a text that does not parse
    Nobody          \* no response is being verified

\* The registry is a dictionary by name.
ASSUME LadderAssumption ==
    /\ Verifiers \in Seq(STRING)
    /\ IsFiniteSet(Tools) /\ \A s, t \in Tools : s.name = t.name => s = t

Flaws == {"truncated", "refusing", "misquoting", "unlikely", "unstable"}

QueryRisks == {"READ_ONLY", "REVERSIBLE_WRITE", "IRREVERSIBLE_WRITE"}

VARIABLES
    response,  \* [text, flaws, logprobs], or Nobody
    risk,      \* PolicyDecision.risk_class: from the query, not the tool
    rung,      \* how many verifiers the response passed
    judged,    \* did the judge see it?
    verdict    \* "open", "passed", "raised", or the category of the first failure

ladderVars == <<response, risk, rung, judged, verdict>>

LadderInit ==
    /\ response = Nobody /\ risk = "READ_ONLY"
    /\ rung = 0 /\ judged = FALSE /\ verdict = "open"

\* An answer may be judged unlikely only if the endpoint gives logprobs.
Submitted ==
    /\ response = Nobody
    /\ \E text \in Texts, flaws \in SUBSET Flaws, logprobs \in BOOLEAN :
         /\ "unlikely" \in flaws => logprobs
         /\ response' = [text |-> text, flaws |-> flaws, logprobs |-> logprobs]
    /\ risk' \in QueryRisks
    /\ UNCHANGED <<rung, judged, verdict>>
-----------------------------------------------------------------------------
\* An envelope names a tool; without arguments, or with empty ones of any type,
\* the arguments are the empty object.
IsEnvelope(text) == text # NotJson /\ Is("obj", text) /\ "tool" \in DOMAIN text.obj

Falsy(v) ==
    v \in {[null |-> TRUE], [bool |-> FALSE], [int |-> 0], [str |-> ""],
           [arr |-> <<>>], [obj |-> <<>>]}

Arguments(text) ==
    IF "arguments" \notin DOMAIN text.obj \/ Falsy(text.obj.arguments)
    THEN [obj |-> <<>>] ELSE text.obj.arguments

SpecOf(text) == IF Is("str", text.obj.tool) THEN SpecNamed(Tools, text.obj.tool.str) ELSE {}

\* validate(), on the arguments of an envelope.
GateVerdict(text) ==
    IF SpecOf(text) = {} THEN "TOOL_NOT_FOUND"
    ELSE IF \A spec \in SpecOf(text) : Accepts(Arguments(text), SchemaForArguments(spec))
         THEN NoCategory ELSE "TOOL_ARG_INVALID"

\* propose() takes the text for a call.
Proposes(text) == IsEnvelope(text) /\ Is("obj", Arguments(text))

GateAccepts(text) == Proposes(text) /\ GateVerdict(text) = NoCategory

\* Faulty: the arguments' types alone are checked.
ToolCallVerdictFlat(text) ==
    CASE ~IsEnvelope(text)             -> NoCategory
      [] IsEnvelope(text) /\ SpecOf(text) = {} -> "TOOL_NOT_FOUND"
      [] OTHER -> IF \A spec \in SpecOf(text) : Accepts(Arguments(text), FlatSchema(spec))
                  THEN NoCategory ELSE "TOOL_ARG_INVALID"

\* ToolCallVerifier.check: what is no call is another verifier's business.
ToolCallVerdict(text) ==
    CASE ~IsEnvelope(text)                               -> NoCategory
      [] IsEnvelope(text) /\ ~Is("obj", Arguments(text)) -> "TOOL_ARG_INVALID"
      [] OTHER                                           -> GateVerdict(text)

CategoryIf(flaw, category) == IF flaw THEN category ELSE NoCategory

\* The cheap verifiers; without logprobs the first is not available and passed over.
CheapVerdict(verifier, r) ==
    CASE verifier = "logprob" -> CategoryIf(r.logprobs /\ "unlikely" \in r.flaws, "SILENT_SEMANTIC")
      [] OTHER                -> CategoryIf("unstable" \in r.flaws, "SILENT_SEMANTIC")

\* check() of each verifier.
Checked(verifier, r) ==
    CASE verifier = "truncation"  -> CategoryIf("truncated" \in r.flaws, "TRUNCATION")
      [] verifier = "refusal"     -> CategoryIf("refusing" \in r.flaws, "REFUSAL")
      [] verifier = "json_schema" -> CategoryIf(r.text = NotJson, "SCHEMA_VIOLATION")
      [] verifier = "tool_call"   -> ToolCallVerdict(r.text)
      [] verifier = "grounding"   -> CategoryIf("misquoting" \in r.flaws, "UNGROUNDED_CLAIM")
      [] OTHER                    -> CheapVerdict(verifier, r)

Climb ==
    /\ response # Nobody /\ verdict = "open" /\ rung < Len(Verifiers)
    /\ LET category == Checked(Verifiers[rung + 1], response) IN
       IF category = NoCategory THEN rung' = rung + 1 /\ UNCHANGED verdict
                                ELSE verdict' = category /\ UNCHANGED rung
    /\ UNCHANGED <<response, risk, judged>>

AtTop == response # Nobody /\ verdict = "open" /\ rung = Len(Verifiers)

\* The sampler has no say over the risk classes that are always judged.
AlwaysJudged == risk = "IRREVERSIBLE_WRITE"

\* The judge finds fault, finds none or answers out of its own schema, or its
\* model call raises.
Judged ==
    /\ AtTop /\ Judge /\ judged' = TRUE
    /\ verdict' \in {"SILENT_SEMANTIC", "passed", "raised"}
    /\ UNCHANGED <<response, risk, rung>>

NotJudged ==
    /\ AtTop /\ ~(Judge /\ AlwaysJudged)
    /\ verdict' = "passed"
    /\ UNCHANGED <<response, risk, rung, judged>>

LadderNext == Submitted \/ Climb \/ Judged \/ NotJudged

LadderSpec == LadderInit /\ [][LadderNext]_ladderVars
-----------------------------------------------------------------------------
\* is_irreversible(): declared, or inferred from the name, mutating verbs first
\* and unknown names counting as irreversible.
ToolIrreversible(spec) ==
    IF spec.irreversible # "undeclared" THEN spec.irreversible = "yes"
    ELSE spec.name \in Mutating \/ spec.name \notin Observing

\* Ladder and gate never disagree about a call: what the ladder passed the gate
\* does not refuse as unknown or invalid, and what the tool-call verifier
\* rejects the gate refuses for the same reason, or does not take for a call
\* (verify/free.py:102-105).
LadderAgreesWithGate ==
    response # Nobody =>
        /\ verdict = "passed" /\ Proposes(response.text) => GateAccepts(response.text)
        /\ verdict \in {"TOOL_NOT_FOUND", "TOOL_ARG_INVALID"} =>
             \/ Proposes(response.text) /\ GateVerdict(response.text) = verdict
             \/ IsEnvelope(response.text) /\ ~Proposes(response.text)

\* A text a decoder held to envelope_schema can emit is never rejected for its
\* tool or its arguments, by the ladder or by the gate (verify/free.py:107-108,
\* tools/schema.py:9-11).
ConstrainedAccepted ==
    /\ response # Nobody /\ response.text # NotJson
    /\ Accepts(response.text, EnvelopeSchema(Tools))
    => /\ GateAccepts(response.text)
       /\ verdict \notin {"SCHEMA_VIOLATION", "TOOL_NOT_FOUND", "TOOL_ARG_INVALID"}

\* tools/reversibility.py:3-10: the tool's reversibility, and not only the
\* query's wording, decides on the mandatory judge.
IrreversibleToolJudged ==
    /\ Judge /\ verdict = "passed" /\ Proposes(response.text)
    /\ \E spec \in SpecOf(response.text) : ToolIrreversible(spec)
    => judged
=============================================================================
