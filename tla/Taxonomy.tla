------------------------------ MODULE Taxonomy ------------------------------
(***************************************************************************)
(* The failure taxonomy every other module routes on: the categories a     *)
(* verifier or the commit gate reports (schemas/verification.py), the      *)
(* exceptions an MCP gateway raises (tools/errors.py) and how the commit   *)
(* gate turns the second into the first (tools/commit.py).                 *)
(***************************************************************************)
EXTENDS Naturals

\* No category: the Python None of first_failure and CommitOutcome.category.
NoCategory == "NONE"

Transient == {"TIMEOUT", "PROVIDER_FAULT", "TOOL_TRANSIENT"}

Terminal == {"TOOL_AUTH", "APPROVAL_REQUIRED"}

\* CommitOutcome.should_escalate: a tool outcome a stronger model may repair.
Escalating == {"TOOL_SEMANTIC", "TOOL_ARG_INVALID", "TOOL_NOT_FOUND",
               "TOOL_RESULT_SUSPECT"}

FailureCategory ==
    Transient \cup Terminal \cup Escalating
        \cup {"SCHEMA_VIOLATION", "TRUNCATION", "WRONG_TOOL_SELECTED",
              "UNGROUNDED_CLAIM", "REFUSAL", "SILENT_SEMANTIC"}

\* The ToolError hierarchy; "Base" is a bare ToolError.
ToolErrors == {"Auth", "Transient", "NotFound", "Semantic", "Base"}

\* CommitGate._from_exception.
CategoryOf ==
    [e \in ToolErrors |->
        CASE e = "Auth"      -> "TOOL_AUTH"
          [] e = "Transient" -> "TOOL_TRANSIENT"
          [] e = "NotFound"  -> "TOOL_NOT_FOUND"
          [] OTHER           -> "TOOL_SEMANTIC"]
=============================================================================
