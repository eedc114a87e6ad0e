----------------------------- MODULE CommitGate -----------------------------
(***************************************************************************)
(* The two-phase commit gate for tool calls (tools/commit.py) over an MCP  *)
(* gateway (tools/gateway.py, tools/stdio_gateway.py).                     *)
(*                                                                         *)
(* A request proposes a call; the gate validates it, refuses it, rehearses *)
(* it with a dry run, or executes it through the gateway under an          *)
(* idempotency key, retrying transient faults, and finally has the result  *)
(* verified.  A request comes to the gate at most twice: with the small    *)
(* model's call and, if that one failed in a way a stronger model may      *)
(* repair, with the frontier model's (SmartRouter composes the two).       *)
(*                                                                         *)
(* The backend behind the gateway is the environment: it may apply the     *)
(* call's effect, raise before doing so, and -- LateFaults -- raise after. *)
(***************************************************************************)
EXTENDS Taxonomy

CONSTANTS
    Requests,            \* invocations of SmartRouter.route
    Rids,                \* request ids; a caller may send one id again
    RidOf,               \* the request id of each invocation
    Calls,               \* tool calls: a tool with its arguments
    Known,               \* calls whose tool is in the router's ToolRegistry
    WellFormed,          \* calls whose arguments satisfy the tool's schema
    Irreversible,        \* calls whose ToolSpec.is_irreversible()
    DryRunnable,         \* calls whose ToolSpec.supports_dry_run
    Exposed,             \* calls whose tool the gateway exposes
    Rehearses,           \* calls the gateway accepts a dry run of
    MaxToolRetries,      \* CommitGate.max_tool_retries
    DryRunIrreversible,  \* CommitGate.dry_run_irreversible
    RequireApproval,     \* CommitGate.require_approval_for_irreversible
    Approved,            \* invocations whose commits the caller calls approved
    ResultVerifiers,     \* whether CommitGate.result_verifiers is non-empty
    HonoursKeys,         \* TRUE for MockMCPGateway, FALSE for StdioMCPGateway
    LateFaults,          \* may the backend fail after applying the effect?
    NoCall               \* not a call

ASSUME GateAssumption ==
    /\ RidOf \in [Requests -> Rids]
    /\ Known \subseteq Calls /\ WellFormed \subseteq Calls
    /\ Irreversible \subseteq Known /\ DryRunnable \subseteq Known
    /\ Exposed \subseteq Calls /\ Rehearses \subseteq Exposed
    /\ MaxToolRetries \in Nat
    /\ DryRunIrreversible \in BOOLEAN /\ RequireApproval \in BOOLEAN
    /\ Approved \subseteq Requests
    /\ ResultVerifiers \in BOOLEAN
    /\ HonoursKeys \in BOOLEAN /\ LateFaults \in BOOLEAN
    /\ NoCall \notin Calls

VARIABLES
    gate,     \* the commit in progress, or the last one, of each invocation
    stored,   \* MockMCPGateway._committed: keys whose result is kept
    effects   \* history: how often the backend applied each key's call

gateVars == <<gate, stored, effects>>

\* ToolProposal.idempotency_key digests the request id, the tool and its
\* arguments.
Keys == Rids \X Calls

Key(r) == <<RidOf[r], gate[r].call>>

PCs == {"idle", "validating", "rehearsing", "calling", "executing",
        "executed", "returned", "done", "raised"}

\* The local variables of CommitGate.commit and the outcome it builds.  round
\* counts the proposals of the invocation.
Outcomes ==
    [pc: PCs, round: 0..2, call: Calls \cup {NoCall},
     attempts: 0..(MaxToolRetries + 1), dryRun: BOOLEAN,
     category: FailureCategory \cup {NoCategory}, committed: BOOLEAN]

\* An outcome nothing has been decided about yet: CommitOutcome(False).
Fresh(pc, round, call) ==
    [pc |-> pc, round |-> round, call |-> call, attempts |-> 0,
     dryRun |-> FALSE, category |-> NoCategory, committed |-> FALSE]

Untouched == Fresh("idle", 0, NoCall)

Resting == {"idle", "done", "raised"}

\* No other invocation under r's request id is inside the gate: an assumption
\* about callers, who send a request again only after it returned.  Nothing
\* in the code enforces it.
Alone(r) ==
    \A s \in Requests \ {r} :
        RidOf[s] = RidOf[r] => gate[s].pc \in Resting

ShouldEscalate(r) == gate[r].category \in Escalating

TypeOK ==
    /\ gate \in [Requests -> Outcomes]
    /\ stored \subseteq Keys
    /\ effects \in [Keys -> Nat]

Init ==
    /\ gate = [r \in Requests |-> Untouched]
    /\ stored = {}
    /\ effects = [k \in Keys |-> 0]
-----------------------------------------------------------------------------
Goto(r, pc) == gate' = [gate EXCEPT ![r] = [@ EXCEPT !.pc = pc]]

Fail(r, category) ==
    gate' = [gate EXCEPT ![r] = [@ EXCEPT !.pc = "done", !.category = category,
                                          !.committed = FALSE]]

\* propose() parsed call c out of a model's text and commit() is entered.
Propose(r, c) ==
    /\ \/ gate[r].round = 0
       \/ gate[r].round = 1 /\ gate[r].pc = "done" /\ ShouldEscalate(r)
    /\ Alone(r)
    /\ gate' = [gate EXCEPT ![r] = Fresh("validating", gate[r].round + 1, c)]
    /\ UNCHANGED <<stored, effects>>

\* validate(): the tool is unknown, or its arguments violate its schema.
Invalid(r) ==
    /\ gate[r].pc = "validating"
    /\ \/ gate[r].call \notin Known /\ Fail(r, "TOOL_NOT_FOUND")
       \/ gate[r].call \in Known \ WellFormed /\ Fail(r, "TOOL_ARG_INVALID")
    /\ UNCHANGED <<stored, effects>>

Valid(r) == gate[r].pc = "validating" /\ gate[r].call \in Known \cap WellFormed

NeedsApproval(r, c) == c \in Irreversible /\ RequireApproval /\ r \notin Approved

NeedsRehearsal(c) == c \in Irreversible \cap DryRunnable /\ DryRunIrreversible

\* A required approval is missing: the caller did not pass approved=True.
Refuse(r) ==
    /\ Valid(r) /\ NeedsApproval(r, gate[r].call)
    /\ Fail(r, "APPROVAL_REQUIRED")
    /\ UNCHANGED <<stored, effects>>

Attempt(r, n) ==
    gate' = [gate EXCEPT ![r] = [@ EXCEPT !.pc = "calling", !.attempts = n]]

\* Faulty: straight to the first attempt, without the dry run.
AdmitUnrehearsed(r) ==
    /\ Valid(r) /\ ~NeedsApproval(r, gate[r].call)
    /\ Attempt(r, 1)
    /\ UNCHANGED <<stored, effects>>

\* Past the checks: to the dry run, or straight to the first attempt.
Admit(r) ==
    /\ Valid(r) /\ ~NeedsApproval(r, gate[r].call)
    /\ IF NeedsRehearsal(gate[r].call) THEN Goto(r, "rehearsing")
                                       ELSE Attempt(r, 1)
    /\ UNCHANGED <<stored, effects>>

Rehearsed(r) ==
    /\ gate[r].pc = "rehearsing" /\ gate[r].call \in Rehearses
    /\ gate' = [gate EXCEPT ![r] = [@ EXCEPT !.pc = "calling", !.attempts = 1,
                                             !.dryRun = TRUE]]
    /\ UNCHANGED <<stored, effects>>

\* What the gateway may raise instead of answering: it does not expose the
\* tool, it cannot rehearse it, or the tool's handler raises.
Raisable(c, accepted) ==
    CASE c \notin Exposed  -> {"NotFound"}
      [] c \notin accepted -> {"Base"}
      [] OTHER             -> ToolErrors

\* Any ToolError of the dry run ends the commit: even a transient one is not
\* retried here.
RehearsalFails(r) ==
    /\ gate[r].pc = "rehearsing"
    /\ \E e \in Raisable(gate[r].call, Rehearses) : Fail(r, CategoryOf[e])
    /\ UNCHANGED <<stored, effects>>

\* Faulty: one attempt too many, one too few, attempts that are not counted.
OnToolErrorOneMore(r, e) ==
    IF e = "Transient" /\ gate[r].attempts <= MaxToolRetries + 1
      THEN Attempt(r, gate[r].attempts + 1)
      ELSE Fail(r, CategoryOf[e])

OnToolErrorOneLess(r, e) ==
    IF e = "Transient" /\ gate[r].attempts < MaxToolRetries
      THEN Attempt(r, gate[r].attempts + 1)
      ELSE Fail(r, CategoryOf[e])

OnToolErrorUncounted(r, e) ==
    IF e = "Transient" THEN Attempt(r, gate[r].attempts) ELSE Fail(r, CategoryOf[e])

\* A gateway call raised e: retry the tool if e is transient and an attempt
\* is left, otherwise report its category.
OnToolError(r, e) ==
    IF e = "Transient" /\ gate[r].attempts <= MaxToolRetries
      THEN Attempt(r, gate[r].attempts + 1)
      ELSE Fail(r, CategoryOf[e])

NotExposed(r) ==
    /\ gate[r].pc = "calling" /\ gate[r].call \notin Exposed
    /\ OnToolError(r, "NotFound")
    /\ UNCHANGED <<stored, effects>>

\* A key that already committed: the stored result, nothing executes.
Replay(r) ==
    /\ gate[r].pc = "calling" /\ gate[r].call \in Exposed
    /\ HonoursKeys /\ Key(r) \in stored
    /\ Goto(r, "returned")
    /\ UNCHANGED <<stored, effects>>

Execute(r) ==
    /\ gate[r].pc = "calling" /\ gate[r].call \in Exposed
    /\ ~(HonoursKeys /\ Key(r) \in stored)
    /\ Goto(r, "executing")
    /\ UNCHANGED <<stored, effects>>

\* The backend applies the call.
TakeEffect(r) ==
    /\ gate[r].pc = "executing"
    /\ Goto(r, "executed")
    /\ effects' = [effects EXCEPT ![Key(r)] = @ + 1]
    /\ UNCHANGED stored

\* Faulty: the result is not kept under its key.
ReturnUnrecorded(r) ==
    /\ gate[r].pc = "executed"
    /\ Goto(r, "returned")
    /\ UNCHANGED <<stored, effects>>

\* The handler's answer arrives and the gateway records it under the key.
Return(r) ==
    /\ gate[r].pc = "executed"
    /\ Goto(r, "returned")
    /\ stored' = IF HonoursKeys THEN stored \cup {Key(r)} ELSE stored
    /\ UNCHANGED effects

\* Where a fault of the backend can surface.
Faultable(r) ==
    \/ gate[r].pc = "executing"
    \/ gate[r].pc = "executed" /\ LateFaults

\* Faulty: the exception is swallowed and the commit goes on.
HandlerRaisesSwallowed(r) ==
    /\ Faultable(r)
    /\ Goto(r, "returned")
    /\ UNCHANGED <<stored, effects>>

HandlerRaises(r) ==
    /\ Faultable(r)
    /\ \E e \in ToolErrors : OnToolError(r, e)
    /\ UNCHANGED <<stored, effects>>

\* An exception outside the ToolError hierarchy (the MCP session drops or
\* answers with a protocol error, the handler has a bug) leaves commit() and, uncaught, route().
Crash(r) ==
    /\ Faultable(r) \/ gate[r].pc = "rehearsing"
    /\ Goto(r, "raised")
    /\ UNCHANGED <<stored, effects>>

Commit(r) ==
    /\ gate[r].pc = "returned"
    /\ gate' = [gate EXCEPT ![r] = [@ EXCEPT !.pc = "done", !.committed = TRUE]]
    /\ UNCHANGED <<stored, effects>>

\* Faulty: results are suspected although nothing verified them.
SuspectUnverified(r) ==
    /\ gate[r].pc = "returned"
    /\ Fail(r, "TOOL_RESULT_SUSPECT")
    /\ UNCHANGED <<stored, effects>>

\* The call was executed, but a result verifier rejects what it returned.
Suspect(r) ==
    /\ gate[r].pc = "returned" /\ ResultVerifiers
    /\ Fail(r, "TOOL_RESULT_SUSPECT")
    /\ UNCHANGED <<stored, effects>>

\* What the gate and its gateway do on their own once a call is proposed.
Step(r) ==
    \/ Invalid(r) \/ Refuse(r) \/ Admit(r) \/ Rehearsed(r) \/ RehearsalFails(r)
    \/ NotExposed(r) \/ Replay(r) \/ Execute(r) \/ TakeEffect(r) \/ Return(r)
    \/ HandlerRaises(r) \/ Crash(r) \/ Commit(r) \/ Suspect(r)

Next == \E r \in Requests : Step(r) \/ \E c \in Calls : Propose(r, c)

SafetySpec == Init /\ [][Next]_gateVars

\* commit() runs on its caller's thread, and the backend answers or fails.
Spec == SafetySpec /\ \A r \in Requests : WF_gateVars(Step(r))
-----------------------------------------------------------------------------
\* A gateway that honours idempotency keys, over a backend that fails only
\* before it applies a call, applies each key's call at most once, however
\* often the tool is retried or the whole request is sent again
\* (tools/gateway.py:98-102, tools/commit.py:60-61).
AtMostOnce ==
    HonoursKeys /\ ~LateFaults => \A k \in Keys : effects[k] <= 1

\* A commit reported as committed did take effect, whether it executed or
\* the gateway replayed a stored result (schemas/trace.py:41).
CommittedHappened ==
    \A r \in Requests : gate[r].committed => effects[Key(r)] > 0

\* The backend applies a call only for an invocation that proposed it, found
\* it registered and well-formed, did not lack an approval and, where a
\* rehearsal is due, rehearsed it in this very commit (tools/commit.py:6-12).
CheckedBeforeEffect ==
    [][\A k \in Keys : effects'[k] > effects[k] =>
          \E r \in Requests :
              /\ Key(r) = k /\ gate[r].pc = "executing"
              /\ k[2] \in Known \cap WellFormed \cap Exposed
              /\ ~NeedsApproval(r, k[2])
              /\ NeedsRehearsal(k[2]) => gate[r].dryRun]_gateVars

\* A transient category leaves the gate only after every attempt allowed, or
\* from the dry run, before the first of them (tools/commit.py:140).
TransientExhausted ==
    \A r \in Requests : gate[r].category = "TOOL_TRANSIENT" =>
        \/ gate[r].attempts = MaxToolRetries + 1
        \/ gate[r].attempts = 0 /\ NeedsRehearsal(gate[r].call)

\* Every proposal is answered: the gate never leaves its caller waiting.
Answered ==
    \A r \in Requests : gate[r].pc = "validating" ~> gate[r].pc \in {"done", "raised"}
-----------------------------------------------------------------------------
\* tools/commit.py:60-61: a retry after a transient fault cannot
\* double-execute.
NoDoubleExecution == \A k \in Keys : effects[k] <= 1
=============================================================================
