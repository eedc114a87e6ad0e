-------------------------- MODULE CommitGate_proofs --------------------------
(***************************************************************************)
(* The commit gate's safety for any set of invocations, calls and retries. *)
(***************************************************************************)
EXTENDS CommitGate, TLAPS

\* The conversion of an exception always yields a category.
LEMMA CategoryTyping == \A e \in ToolErrors : CategoryOf[e] \in FailureCategory
  BY DEF ToolErrors, CategoryOf, FailureCategory, Transient, Terminal, Escalating

\* An invocation that proposed nothing is idle; one that is not has a call.
Proposed ==
    \A r \in Requests :
        /\ gate[r].round = 0 => gate[r].pc = "idle"
        /\ gate[r].pc # "idle" => gate[r].call \in Calls

Typed == TypeOK /\ Proposed

\* An invocation whose commit record changes to another one with a call.
Moves(r, g) ==
    /\ g \in Outcomes /\ g.call \in Calls /\ g.round # 0
    /\ gate' = [gate EXCEPT ![r] = g]

LEMMA MovesTyped ==
    ASSUME Typed, NEW r \in Requests, NEW g, Moves(r, g)
    PROVE  gate' \in [Requests -> Outcomes] /\ Proposed'
  BY DEF Moves, Typed, TypeOK, Proposed

\* Every action on a proposed call moves its invocation's record.
LEMMA CategoryTypes ==
    {"TOOL_NOT_FOUND", "TOOL_ARG_INVALID", "TOOL_RESULT_SUSPECT",
     "APPROVAL_REQUIRED"} \subseteq FailureCategory
  BY DEF FailureCategory, Terminal, Escalating

LEMMA FailMoves ==
    ASSUME Typed, NEW r \in Requests, gate[r].pc # "idle",
           NEW c \in FailureCategory, Fail(r, c)
    PROVE  gate' \in [Requests -> Outcomes] /\ Proposed'
<1> DEFINE g == [gate[r] EXCEPT !.pc = "done", !.category = c, !.committed = FALSE]
<1>1. gate[r] \in Outcomes /\ gate[r].call \in Calls /\ gate[r].round # 0
  BY DEF Typed, TypeOK, Proposed
<1>2. g \in Outcomes /\ g.call \in Calls /\ g.round # 0
  BY <1>1 DEF Outcomes, PCs
<1>3. gate' = [gate EXCEPT ![r] = g]
  BY DEF Fail
<1> QED
  BY <1>2, <1>3, MovesTyped DEF Moves

LEMMA AttemptMoves ==
    ASSUME Typed, NEW r \in Requests, gate[r].pc # "idle",
           NEW n \in 0..(MaxToolRetries + 1), Attempt(r, n)
    PROVE  gate' \in [Requests -> Outcomes] /\ Proposed'
<1> DEFINE g == [gate[r] EXCEPT !.pc = "calling", !.attempts = n]
<1>1. gate[r] \in Outcomes /\ gate[r].call \in Calls /\ gate[r].round # 0
  BY DEF Typed, TypeOK, Proposed
<1>2. g \in Outcomes /\ g.call \in Calls /\ g.round # 0
  BY <1>1 DEF Outcomes, PCs
<1>3. gate' = [gate EXCEPT ![r] = g]
  BY DEF Attempt
<1> QED
  BY <1>2, <1>3, MovesTyped DEF Moves

LEMMA GotoMoves ==
    ASSUME Typed, NEW r \in Requests, gate[r].pc # "idle",
           NEW pc \in PCs, Goto(r, pc)
    PROVE  gate' \in [Requests -> Outcomes] /\ Proposed'
<1> DEFINE g == [gate[r] EXCEPT !.pc = pc]
<1>1. gate[r] \in Outcomes /\ gate[r].call \in Calls /\ gate[r].round # 0
  BY DEF Typed, TypeOK, Proposed
<1>2. g \in Outcomes /\ g.call \in Calls /\ g.round # 0
  BY <1>1 DEF Outcomes
<1>3. gate' = [gate EXCEPT ![r] = g]
  BY DEF Goto
<1> QED
  BY <1>2, <1>3, MovesTyped DEF Moves

LEMMA OnToolErrorMoves ==
    ASSUME Typed, NEW r \in Requests, gate[r].pc # "idle",
           NEW e \in ToolErrors, OnToolError(r, e)
    PROVE  gate' \in [Requests -> Outcomes] /\ Proposed'
<1>1. MaxToolRetries \in Nat /\ gate[r].attempts \in Nat
  BY GateAssumption DEF Typed, TypeOK, Outcomes
<1>2. CASE e = "Transient" /\ gate[r].attempts <= MaxToolRetries
  <2>1. gate[r].attempts + 1 \in 0..(MaxToolRetries + 1)
    BY <1>1, <1>2
  <2> QED
    BY <1>2, <2>1, AttemptMoves DEF OnToolError
<1>3. CASE ~(e = "Transient" /\ gate[r].attempts <= MaxToolRetries)
  BY <1>3, CategoryTyping, FailMoves DEF OnToolError
<1> QED
  BY <1>2, <1>3

LEMMA TypedStep ==
    ASSUME Typed, [Next]_gateVars
    PROVE  Typed'
<1>1. CASE UNCHANGED gateVars
  BY <1>1 DEF gateVars, Typed, TypeOK, Proposed, Keys
<1>2. ASSUME NEW r \in Requests, NEW c \in Calls, Propose(r, c)
      PROVE  Typed'
  <2> DEFINE g == Fresh("validating", gate[r].round + 1, c)
  <2>1. gate[r].round + 1 \in 1..2
    BY <1>2 DEF Propose, Typed, TypeOK, Outcomes
  <2>2. g \in Outcomes /\ g.call \in Calls /\ g.round # 0
    <3>1. 0 \in 0..(MaxToolRetries + 1)
      BY GateAssumption
    <3> QED BY <2>1, <3>1 DEF Outcomes, PCs, Fresh
  <2>3. gate' = [gate EXCEPT ![r] = g]
    BY <1>2 DEF Propose
  <2>4. gate' \in [Requests -> Outcomes] /\ Proposed'
    BY <2>2, <2>3, MovesTyped DEF Moves
  <2> QED
    BY <1>2, <2>4 DEF Propose, Typed, TypeOK, Keys
<1>3. ASSUME NEW r \in Requests, Step(r)
      PROVE  Typed'
  <2> DEFINE Quiet == gate' \in [Requests -> Outcomes] /\ Proposed'
  <2>a. ASSUME effects' = effects, stored' = stored, Quiet
        PROVE  Typed'
    BY <2>a DEF Typed, TypeOK, Keys
  <2>b. gate[r].pc # "idle" => Key(r) \in Keys
    BY GateAssumption DEF Typed, Proposed, Key, Keys
  <2>1. CASE Invalid(r)
    <3>1. Quiet
      BY <2>1, FailMoves, CategoryTypes DEF Invalid
    <3> QED BY <2>1, <2>a, <3>1 DEF Invalid
  <2>2. CASE Refuse(r)
    <3>1. Quiet
      BY <2>2, FailMoves, CategoryTypes DEF Refuse, Valid
    <3> QED BY <2>2, <2>a, <3>1 DEF Refuse
  <2>3. CASE Admit(r)
    <3>1. "rehearsing" \in PCs /\ 1 \in 0..(MaxToolRetries + 1)
      BY GateAssumption DEF PCs
    <3>2. Quiet
      BY <2>3, <3>1, GotoMoves, AttemptMoves DEF Admit, Valid
    <3> QED BY <2>3, <2>a, <3>2 DEF Admit
  <2>4. CASE Rehearsed(r)
    <3> DEFINE g == [gate[r] EXCEPT !.pc = "calling", !.attempts = 1, !.dryRun = TRUE]
    <3>1. gate[r] \in Outcomes /\ gate[r].call \in Calls /\ gate[r].round # 0
      BY <2>4 DEF Rehearsed, Typed, TypeOK, Proposed
    <3>2. 1 \in 0..(MaxToolRetries + 1)
      BY GateAssumption
    <3>3. g \in Outcomes /\ g.call \in Calls /\ g.round # 0
      BY <3>1, <3>2 DEF Outcomes, PCs
    <3>4. Quiet
      BY <2>4, <3>3, MovesTyped DEF Rehearsed, Moves
    <3> QED BY <2>4, <2>a, <3>4 DEF Rehearsed
  <2>5. CASE RehearsalFails(r)
    <3>1. PICK e \in ToolErrors : Fail(r, CategoryOf[e]) /\ gate[r].pc = "rehearsing"
      BY <2>5 DEF RehearsalFails, Raisable, ToolErrors
    <3>2. Quiet
      BY <3>1, CategoryTyping, FailMoves
    <3> QED BY <2>5, <2>a, <3>2 DEF RehearsalFails
  <2>6. CASE NotExposed(r)
    <3>1. Quiet
      BY <2>6, OnToolErrorMoves DEF NotExposed, ToolErrors
    <3> QED BY <2>6, <2>a, <3>1 DEF NotExposed
  <2>7. CASE Replay(r)
    <3>1. Quiet
      BY <2>7, GotoMoves DEF Replay, PCs
    <3> QED BY <2>7, <2>a, <3>1 DEF Replay
  <2>8. CASE Execute(r)
    <3>1. Quiet
      BY <2>8, GotoMoves DEF Execute, PCs
    <3> QED BY <2>8, <2>a, <3>1 DEF Execute
  <2>9. CASE TakeEffect(r)
    <3>1. Quiet
      BY <2>9, GotoMoves DEF TakeEffect, PCs
    <3>2. effects' \in [Keys -> Nat]
      BY <2>9, <2>b DEF TakeEffect, Typed, TypeOK
    <3> QED BY <2>9, <3>1, <3>2 DEF TakeEffect, Typed, TypeOK, Keys
  <2>10. CASE Return(r)
    <3>1. Quiet
      BY <2>10, GotoMoves DEF Return, PCs
    <3> QED BY <2>10, <2>b, <3>1 DEF Return, Typed, TypeOK, Keys
  <2>11. CASE HandlerRaises(r)
    <3>1. Quiet
      BY <2>11, OnToolErrorMoves DEF HandlerRaises, Faultable
    <3> QED BY <2>11, <2>a, <3>1 DEF HandlerRaises
  <2>12. CASE Crash(r)
    <3>1. Quiet
      BY <2>12, GotoMoves DEF Crash, Faultable, PCs
    <3> QED BY <2>12, <2>a, <3>1 DEF Crash
  <2>13. CASE Commit(r)
    <3> DEFINE g == [gate[r] EXCEPT !.pc = "done", !.committed = TRUE]
    <3>1. gate[r] \in Outcomes /\ gate[r].call \in Calls /\ gate[r].round # 0
      BY <2>13 DEF Commit, Typed, TypeOK, Proposed
    <3>2. g \in Outcomes /\ g.call \in Calls /\ g.round # 0
      BY <3>1 DEF Outcomes, PCs
    <3>3. Quiet
      BY <2>13, <3>2, MovesTyped DEF Commit, Moves
    <3> QED BY <2>13, <2>a, <3>3 DEF Commit
  <2>14. CASE Suspect(r)
    <3>1. Quiet
      BY <2>14, FailMoves, CategoryTypes DEF Suspect
    <3> QED BY <2>14, <2>a, <3>1 DEF Suspect
  <2> QED
    BY <1>3, <2>1, <2>2, <2>3, <2>4, <2>5, <2>6, <2>7, <2>8, <2>9, <2>10, <2>11,
       <2>12, <2>13, <2>14 DEF Step
<1> QED
  BY <1>1, <1>2, <1>3 DEF Next

LEMMA TypedInit == Init => Typed
  BY GateAssumption
  DEF Init, Typed, TypeOK, Proposed, Outcomes, PCs, Untouched, Fresh, NoCategory, Keys

\* The gate's state keeps its types, whatever the backend does.
THEOREM TypeCorrect == SafetySpec => []TypeOK
<1>1. SafetySpec => []Typed
  BY TypedInit, TypedStep, PTL DEF SafetySpec
<1>2. Typed => TypeOK
  BY DEF Typed
<1> QED
  BY <1>1, <1>2, PTL
-----------------------------------------------------------------------------
(* What a step does to the records of the invocations.                      *)

\* The other invocations and r's call are left alone.
Frame(r) ==
    /\ \A s \in Requests \ {r} : gate'[s] = gate[s]
    /\ gate'[r].call = gate[r].call

LEMMA FailFrame ==
    ASSUME Typed, NEW r \in Requests, NEW c, Fail(r, c)
    PROVE  /\ Frame(r)
           /\ gate'[r].pc = "done" /\ gate'[r].committed = FALSE
  BY DEF Fail, Frame, Typed, TypeOK, Outcomes

LEMMA AttemptFrame ==
    ASSUME Typed, NEW r \in Requests, NEW n, Attempt(r, n)
    PROVE  /\ Frame(r)
           /\ gate'[r].pc = "calling" /\ gate'[r].dryRun = gate[r].dryRun
           /\ gate'[r].committed = gate[r].committed
  BY DEF Attempt, Frame, Typed, TypeOK, Outcomes

LEMMA GotoFrame ==
    ASSUME Typed, NEW r \in Requests, NEW pc, Goto(r, pc)
    PROVE  /\ Frame(r)
           /\ gate'[r].pc = pc /\ gate'[r].dryRun = gate[r].dryRun
           /\ gate'[r].committed = gate[r].committed
  BY DEF Goto, Frame, Typed, TypeOK, Outcomes

LEMMA OnToolErrorFrame ==
    ASSUME Typed, NEW r \in Requests, NEW e, OnToolError(r, e)
    PROVE  /\ Frame(r)
           /\ \/ gate'[r].pc = "done" /\ gate'[r].committed = FALSE
              \/ /\ gate'[r].pc = "calling" /\ gate'[r].dryRun = gate[r].dryRun
                 /\ gate'[r].committed = gate[r].committed
<1>1. CASE e = "Transient" /\ gate[r].attempts <= MaxToolRetries
  BY <1>1, AttemptFrame DEF OnToolError
<1>2. CASE ~(e = "Transient" /\ gate[r].attempts <= MaxToolRetries)
  BY <1>2, FailFrame DEF OnToolError
<1> QED
  BY <1>1, <1>2

LEMMA ProposeFrame ==
    ASSUME Typed, NEW r \in Requests, NEW c \in Calls, Propose(r, c)
    PROVE  /\ \A s \in Requests \ {r} : gate'[s] = gate[s]
           /\ gate'[r].pc = "validating" /\ gate'[r].committed = FALSE
  BY DEF Propose, Fresh, Typed, TypeOK

\* The steps by what they do to their own invocation's record.
Quits(r) == gate'[r].pc = "done" /\ gate'[r].committed = FALSE

Turns(r, pc) == gate'[r].pc = pc /\ gate'[r].committed = gate[r].committed

\* A step of the gate, apart from the checks before the first attempt, in
\* the terms the invariants below need.
Summary(r) ==
    /\ Frame(r) /\ gate[r].pc \notin Resting
    /\ \/ /\ UNCHANGED <<stored, effects>>
          /\ \/ Quits(r)
             \/ Turns(r, "rehearsing")
             \/ Turns(r, "calling") /\ gate[r].pc # "executed"
             \/ Turns(r, "calling") /\ LateFaults
             \/ Turns(r, "raised") /\ gate[r].pc # "executed"
             \/ Turns(r, "raised") /\ LateFaults
             \/ /\ Turns(r, "returned") /\ gate[r].pc = "calling"
                /\ HonoursKeys /\ Key(r) \in stored
             \/ /\ Turns(r, "executing") /\ gate[r].pc = "calling"
                /\ ~(HonoursKeys /\ Key(r) \in stored)
             \/ gate[r].pc = "returned" /\ gate'[r].pc = "done"
          /\ gate[r].pc = "executed" => LateFaults
       \/ /\ gate[r].pc = "executing" /\ Turns(r, "executed")
          /\ effects' = [effects EXCEPT ![Key(r)] = @ + 1] /\ UNCHANGED stored
       \/ /\ gate[r].pc = "executed" /\ Turns(r, "returned")
          /\ stored' = IF HonoursKeys THEN stored \cup {Key(r)} ELSE stored
          /\ UNCHANGED effects

LEMMA StepSummary ==
    ASSUME Typed, NEW r \in Requests, Step(r)
    PROVE  Summary(r)
<1> USE DEF Summary, Resting, Turns, Quits
<1>1. CASE Invalid(r)
  BY <1>1, FailFrame DEF Invalid
<1>2. CASE Refuse(r)
  BY <1>2, FailFrame DEF Refuse, Valid
<1>3. CASE Admit(r)
  BY <1>3, GotoFrame, AttemptFrame DEF Admit, Valid
<1>4. CASE Rehearsed(r)
  <2>1. Frame(r) /\ Turns(r, "calling")
    BY <1>4 DEF Rehearsed, Frame, Typed, TypeOK, Outcomes
  <2> QED BY <1>4, <2>1 DEF Rehearsed
<1>5. CASE RehearsalFails(r)
  BY <1>5, FailFrame DEF RehearsalFails
<1>6. CASE NotExposed(r)
  BY <1>6, OnToolErrorFrame DEF NotExposed
<1>7. CASE Replay(r)
  BY <1>7, GotoFrame DEF Replay
<1>8. CASE Execute(r)
  BY <1>8, GotoFrame DEF Execute
<1>9. CASE TakeEffect(r)
  BY <1>9, GotoFrame DEF TakeEffect
<1>10. CASE Return(r)
  BY <1>10, GotoFrame DEF Return
<1>11. CASE HandlerRaises(r)
  BY <1>11, OnToolErrorFrame DEF HandlerRaises, Faultable
<1>12. CASE Crash(r)
  BY <1>12, GotoFrame DEF Crash, Faultable
<1>13. CASE Commit(r)
  <2>1. Frame(r) /\ gate'[r].pc = "done"
    BY <1>13 DEF Commit, Frame, Typed, TypeOK, Outcomes
  <2> QED BY <1>13, <2>1 DEF Commit
<1>14. CASE Suspect(r)
  BY <1>14, FailFrame DEF Suspect
<1> QED
  BY <1>1, <1>2, <1>3, <1>4, <1>5, <1>6, <1>7, <1>8, <1>9, <1>10, <1>11,
     <1>12, <1>13, <1>14 DEF Step
-----------------------------------------------------------------------------
\* One invocation at a time is inside the gate under one request id.
Exclusive ==
    \A r, s \in Requests :
        r # s /\ RidOf[r] = RidOf[s] => gate[r].pc \in Resting \/ gate[s].pc \in Resting

\* The keys applied: those whose result is stored, and those of invocations
\* that hold an answer or report a commit.
Happened ==
    /\ \A k \in stored : effects[k] > 0
    /\ \A r \in Requests :
          gate[r].pc \in {"executed", "returned"} \/ gate[r].committed
             => Key(r) \in Keys /\ effects[Key(r)] > 0

\* The strengthening AtMostOnce needs: an applied key is stored, or its answer
\* is on its way back to the one invocation inside the gate.
Once ==
    HonoursKeys /\ ~LateFaults =>
        /\ \A k \in Keys :
              /\ effects[k] <= 1
              /\ effects[k] > 0 => \/ k \in stored
                                  \/ \E r \in Requests : Key(r) = k /\ gate[r].pc = "executed"
        /\ \A r \in Requests : gate[r].pc = "executing" => effects[Key(r)] = 0

IInv == Typed /\ Exclusive /\ Happened /\ Once

LEMMA ExclusiveStep ==
    ASSUME IInv, [Next]_gateVars
    PROVE  Exclusive'
<1> USE DEF IInv
<1>1. CASE UNCHANGED gateVars
  BY <1>1 DEF gateVars, Exclusive
<1>2. ASSUME NEW r \in Requests, NEW c \in Calls, Propose(r, c)
      PROVE  Exclusive'
  BY <1>2, ProposeFrame DEF Propose, Alone, Exclusive
<1>3. ASSUME NEW r \in Requests, Step(r)
      PROVE  Exclusive'
  BY <1>3, StepSummary DEF Summary, Frame, Exclusive
<1> QED
  BY <1>1, <1>2, <1>3 DEF Next

LEMMA HappenedStep ==
    ASSUME IInv, [Next]_gateVars
    PROVE  Happened'
<1>1. CASE UNCHANGED gateVars
  BY <1>1 DEF IInv, gateVars, Happened, Key
<1>2. ASSUME NEW r \in Requests, NEW c \in Calls, Propose(r, c)
      PROVE  Happened'
  BY <1>2, ProposeFrame DEF IInv, Propose, Happened, Key
<1>3. ASSUME NEW r \in Requests, Step(r)
      PROVE  Happened'
  <2>1. Summary(r) /\ Key(r) \in Keys
    BY <1>3, StepSummary, GateAssumption
    DEF IInv, Typed, Proposed, Summary, Resting, Key, Keys
  <2>2. \A s \in Requests : Key(s)' = Key(s)
    BY <2>1 DEF Summary, Frame, Key
  <2>3. Typed'
    BY <1>3, TypedStep DEF IInv, Next
  <2>4. \A k \in Keys : effects[k] \in Nat /\ effects'[k] \in Nat
    BY <2>3 DEF IInv, Typed, TypeOK, Keys
  <2>5. \A k \in Keys : effects'[k] >= effects[k]
    BY <2>1, <2>4 DEF Summary, IInv, Typed, TypeOK
  <2>6. \A k \in Keys : effects[k] > 0 => effects'[k] > 0
    BY <2>4, <2>5
  <2>7. gate'[r].pc \in {"executed", "returned"} \/ gate'[r].committed
           => Key(r) \in Keys /\ effects'[Key(r)] > 0
    BY <2>1, <2>4, <2>6
    DEF Summary, Turns, Quits, Happened, IInv, Typed, TypeOK
  <2>8. \A k \in stored' : k \in stored \/ (k = Key(r) /\ gate[r].pc = "executed")
    <3>1. \/ stored' = stored
          \/ gate[r].pc = "executed" /\ stored' = stored \cup {Key(r)}
      <4>1. CASE HonoursKeys
        BY <2>1, <4>1, Zenon DEF Summary
      <4>2. CASE ~HonoursKeys
        BY <2>1, <4>2, Zenon DEF Summary
      <4> QED BY <4>1, <4>2
    <3> QED BY <3>1
  <2>9. \A k \in stored' : effects'[k] > 0
    BY <2>1, <2>6, <2>8 DEF Happened, IInv, Typed, TypeOK
  <2>10. \A s \in Requests \ {r} :
            gate'[s].pc \in {"executed", "returned"} \/ gate'[s].committed
              => Key(s) \in Keys /\ effects'[Key(s)] > 0
    BY <2>1, <2>6 DEF Summary, Frame, Happened, IInv
  <2> QED
    BY <2>2, <2>7, <2>9, <2>10 DEF Happened, Keys
<1> QED
  BY <1>1, <1>2, <1>3 DEF Next

LEMMA OnceStep ==
    ASSUME IInv, [Next]_gateVars
    PROVE  Once'
<1> SUFFICES ASSUME HonoursKeys, ~LateFaults
             PROVE  /\ \A k \in Keys :
                          /\ effects'[k] <= 1
                          /\ effects'[k] > 0 =>
                                \/ k \in stored'
                                \/ \E s \in Requests : Key(s)' = k /\ gate'[s].pc = "executed"
                    /\ \A s \in Requests : gate'[s].pc = "executing" => effects'[Key(s)'] = 0
  BY DEF Once, Keys
<1>0. /\ \A k \in Keys :
            /\ effects[k] <= 1
            /\ effects[k] > 0 => \/ k \in stored
                                \/ \E s \in Requests : Key(s) = k /\ gate[s].pc = "executed"
      /\ \A s \in Requests : gate[s].pc = "executing" => effects[Key(s)] = 0
  BY DEF IInv, Once
<1>1. CASE UNCHANGED gateVars
  BY <1>0, <1>1 DEF gateVars, Key
<1>2. ASSUME NEW r \in Requests, NEW c \in Calls, Propose(r, c)
      PROVE  Once'
  <2>1. \A s \in Requests \ {r} : gate'[s] = gate[s] /\ Key(s)' = Key(s)
    BY <1>2, ProposeFrame DEF IInv, Key
  <2>2. gate[r].pc # "executed" /\ gate'[r].pc = "validating"
    BY <1>2, ProposeFrame DEF IInv, Propose, Typed, Proposed
  <2> QED
    BY <1>0, <1>2, <2>1, <2>2 DEF Propose, Once, Keys
<1>3. ASSUME NEW r \in Requests, Step(r)
      PROVE  Once'
  <2>1. Summary(r) /\ Key(r) \in Keys
    BY <1>3, StepSummary, GateAssumption
    DEF IInv, Typed, Proposed, Summary, Resting, Key, Keys
  <2>2. \A s \in Requests : Key(s)' = Key(s)
    BY <2>1 DEF Summary, Frame, Key
  <2>3. \A s \in Requests \ {r} : gate'[s] = gate[s]
    BY <2>1 DEF Summary, Frame
  \* An invocation with r's key that is not r is outside the gate.
  <2>4. \A s \in Requests \ {r} : Key(s) = Key(r) => gate[s].pc \in Resting
    BY <2>1 DEF Summary, IInv, Exclusive, Key
  <2>5. \A k \in Keys : effects[k] \in Nat
    BY DEF IInv, Typed, TypeOK
  <2>6. effects \in [Keys -> Nat]
    BY DEF IInv, Typed, TypeOK
  <2>7. CASE gate[r].pc = "executing" /\ effects' # effects
    <3>1. /\ gate'[r].pc = "executed" /\ stored' = stored
          /\ effects' = [effects EXCEPT ![Key(r)] = @ + 1]
      BY <2>1, <2>7 DEF Summary, Turns
    <3>2. effects[Key(r)] = 0
      BY <1>0, <2>7
    <3>3. \A k \in Keys \ {Key(r)} : effects'[k] = effects[k]
      BY <3>1, <2>6
    <3>4. effects'[Key(r)] = 1
      BY <3>1, <3>2, <2>1, <2>6
    <3>5. \A k \in Keys \ {Key(r)} :
             effects'[k] > 0 => \/ k \in stored'
                                \/ \E s \in Requests : Key(s)' = k /\ gate'[s].pc = "executed"
      BY <1>0, <2>2, <2>3, <2>7, <3>1, <3>3
    <3>6. \A s \in Requests : gate'[s].pc = "executing" => s # r /\ Key(s) # Key(r)
      BY <2>3, <2>4, <3>1 DEF Resting
    <3>7. \A s \in Requests : gate'[s].pc = "executing" => effects'[Key(s)'] = 0
      <4>1. SUFFICES ASSUME NEW s \in Requests, gate'[s].pc = "executing"
                     PROVE  effects'[Key(s)] = 0
        BY <2>2
      <4>2. s # r /\ Key(s) # Key(r) /\ gate[s].pc = "executing" /\ Key(s) \in Keys
        BY <4>1, <2>3, <3>6, GateAssumption DEF IInv, Typed, Proposed, Key, Keys
      <4> QED BY <4>2, <3>3, <1>0
    <3> QED
      BY <1>0, <2>1, <2>2, <3>1, <3>3, <3>4, <3>5, <3>7 DEF Once, Keys
  <2>8. CASE gate[r].pc = "executed" /\ effects' = effects
    <3>1. gate'[r].pc = "returned" /\ stored' = stored \cup {Key(r)}
      BY <2>1, <2>8 DEF Summary, Turns
    <3> QED
      BY <1>0, <2>1, <2>2, <2>3, <2>8, <3>1 DEF Once, Keys
  <2>9. CASE gate[r].pc # "executed" /\ effects' = effects
    <3>1. stored' = stored
      BY <2>1, <2>9 DEF Summary
    <3>2. \A k \in Keys :
             effects'[k] > 0 => \/ k \in stored'
                                \/ \E s \in Requests : Key(s)' = k /\ gate'[s].pc = "executed"
      BY <1>0, <2>2, <2>3, <2>9, <3>1
    <3>3. ASSUME gate'[r].pc = "executing"
          PROVE  effects[Key(r)] = 0
      <4>1. Key(r) \notin stored /\ gate[r].pc = "calling"
        BY <3>3, <2>1, <2>9 DEF Summary, Turns, Quits, IInv, Typed, TypeOK
      <4>2. ~\E s \in Requests : Key(s) = Key(r) /\ gate[s].pc = "executed"
        BY <4>1, <2>4 DEF Resting
      <4> QED BY <4>1, <4>2, <1>0, <2>1, <2>5
    <3>4. \A s \in Requests : gate'[s].pc = "executing" => effects'[Key(s)'] = 0
      BY <1>0, <2>2, <2>3, <2>9, <3>3
    <3> QED
      BY <1>0, <2>2, <2>9, <3>2, <3>4 DEF Once, Keys
  <2> QED
    BY <2>1, <2>7, <2>8, <2>9 DEF Summary
<1> QED
  BY <1>1, <1>2, <1>3 DEF Next, Once, Keys

LEMMA IInvInit == Init => IInv
<1> SUFFICES ASSUME Init PROVE IInv
  OBVIOUS
<1>1. Typed
  BY TypedInit
<1>2. \A r \in Requests : gate[r].pc = "idle" /\ gate[r].committed = FALSE
  BY DEF Init, Untouched, Fresh
<1>3. stored = {} /\ \A k \in Keys : effects[k] = 0
  BY DEF Init
<1> QED
  BY <1>1, <1>2, <1>3 DEF IInv, Exclusive, Happened, Once, Resting

LEMMA IInvariant == SafetySpec => []IInv
<1>1. IInv /\ [Next]_gateVars => IInv'
  BY TypedStep, ExclusiveStep, HappenedStep, OnceStep DEF IInv
<1> QED
  BY <1>1, IInvInit, PTL DEF SafetySpec

\* What was applied stays applied.
LEMMA EffectsKept ==
    ASSUME Typed, [Next]_gateVars
    PROVE  \A k \in Keys : effects[k] > 0 => effects'[k] > 0
<1>0. effects \in [Keys -> Nat]
  BY DEF Typed, TypeOK
<1>1. CASE UNCHANGED gateVars
  BY <1>1 DEF gateVars
<1>2. ASSUME NEW r \in Requests, NEW c \in Calls, Propose(r, c)
      PROVE  effects' = effects
  BY <1>2 DEF Propose
<1>3. ASSUME NEW r \in Requests, Step(r)
      PROVE  effects' = effects \/ effects' = [effects EXCEPT ![Key(r)] = @ + 1]
  BY <1>3, StepSummary DEF Summary
<1> QED
  BY <1>0, <1>1, <1>2, <1>3 DEF Next

\* However many invocations share a request id, however often the tool is
\* retried: a gateway that keeps results by key, over a backend that fails
\* only before it applies a call, applies each key at most once.
THEOREM AppliedAtMostOnce == SafetySpec => []AtMostOnce
<1>1. IInv => AtMostOnce
  BY DEF IInv, Once, AtMostOnce
<1> QED
  BY <1>1, IInvariant, PTL

\* A commit is reported only of a call that took effect.
THEOREM CommitIsReal == SafetySpec => []CommittedHappened
<1>1. IInv => CommittedHappened
  BY DEF IInv, Happened, CommittedHappened
<1> QED
  BY <1>1, IInvariant, PTL
-----------------------------------------------------------------------------
\* The checks behind an invocation that is past validate(), past the dry run,
\* inside the gateway.
Checked ==
    \A r \in Requests :
        /\ gate[r].pc \in {"rehearsing", "calling", "executing"} =>
              gate[r].call \in Known \cap WellFormed /\ ~NeedsApproval(r, gate[r].call)
        /\ gate[r].pc \in {"calling", "executing", "executed"} /\ NeedsRehearsal(gate[r].call)
              => gate[r].dryRun
        /\ gate[r].pc \in {"executing", "executed"} =>
              /\ gate[r].call \in Known \cap WellFormed \cap Exposed
              /\ ~NeedsApproval(r, gate[r].call)

\* Checked is kept at r when r fails, goes on, or calls the gateway again.
LEMMA CheckedElsewhere ==
    ASSUME Typed, Checked, NEW r \in Requests, Frame(r),
           \/ gate'[r].pc \in {"returned", "done", "raised", "validating"}
           \/ /\ gate'[r].pc = "calling" /\ gate'[r].dryRun = gate[r].dryRun
              /\ gate[r].pc \in {"calling", "executing", "executed"}
    PROVE  Checked'
  BY DEF Checked, Frame, NeedsApproval, NeedsRehearsal

LEMMA CheckedStep ==
    ASSUME Typed, Checked, [Next]_gateVars
    PROVE  Checked'
<1>1. CASE UNCHANGED gateVars
  BY <1>1 DEF gateVars, Checked, NeedsApproval, NeedsRehearsal
<1>2. ASSUME NEW r \in Requests, NEW c \in Calls, Propose(r, c)
      PROVE  Checked'
  BY <1>2, ProposeFrame DEF Checked, NeedsApproval, NeedsRehearsal
<1>3. ASSUME NEW r \in Requests, Step(r)
      PROVE  Checked'
  <2>1. CASE Invalid(r)
    BY <2>1, FailFrame, CheckedElsewhere DEF Invalid
  <2>2. CASE Refuse(r)
    BY <2>2, FailFrame, CheckedElsewhere DEF Refuse
  <2>3. CASE Admit(r)
    <3>1. Valid(r) /\ ~NeedsApproval(r, gate[r].call) /\ Frame(r)
      BY <2>3, GotoFrame, AttemptFrame DEF Admit
    <3>2. \/ NeedsRehearsal(gate[r].call) /\ gate'[r].pc = "rehearsing"
          \/ ~NeedsRehearsal(gate[r].call) /\ gate'[r].pc = "calling"
      BY <2>3, GotoFrame, AttemptFrame DEF Admit
    <3> QED
      BY <3>1, <3>2 DEF Valid, Frame, Checked, NeedsApproval, NeedsRehearsal
  <2>4. CASE Rehearsed(r)
    <3>1. Frame(r) /\ gate'[r].pc = "calling" /\ gate'[r].dryRun
      BY <2>4 DEF Rehearsed, Frame, Typed, TypeOK, Outcomes
    <3> QED
      BY <2>4, <3>1 DEF Rehearsed, Frame, Checked, NeedsApproval, NeedsRehearsal
  <2>5. CASE RehearsalFails(r)
    BY <2>5, FailFrame, CheckedElsewhere DEF RehearsalFails
  <2>6. CASE NotExposed(r)
    BY <2>6, OnToolErrorFrame, CheckedElsewhere DEF NotExposed
  <2>7. CASE Replay(r)
    BY <2>7, GotoFrame, CheckedElsewhere DEF Replay
  <2>8. CASE Execute(r)
    <3>1. Frame(r) /\ gate'[r].pc = "executing" /\ gate'[r].dryRun = gate[r].dryRun
      BY <2>8, GotoFrame DEF Execute
    <3> QED
      BY <2>8, <3>1 DEF Execute, Frame, Checked, NeedsApproval, NeedsRehearsal
  <2>9. CASE TakeEffect(r)
    <3>1. Frame(r) /\ gate'[r].pc = "executed" /\ gate'[r].dryRun = gate[r].dryRun
      BY <2>9, GotoFrame DEF TakeEffect
    <3> QED
      BY <2>9, <3>1 DEF TakeEffect, Frame, Checked, NeedsApproval, NeedsRehearsal
  <2>10. CASE Return(r)
    BY <2>10, GotoFrame, CheckedElsewhere DEF Return
  <2>11. CASE HandlerRaises(r)
    <3>1. \/ gate'[r].pc = "done"
          \/ gate'[r].pc = "calling" /\ gate'[r].dryRun = gate[r].dryRun
      BY <2>11, OnToolErrorFrame DEF HandlerRaises
    <3>2. Frame(r) /\ gate[r].pc \in {"executing", "executed"}
      BY <2>11, OnToolErrorFrame DEF HandlerRaises, Faultable
    <3> QED
      BY <3>1, <3>2 DEF Frame, Checked, NeedsApproval, NeedsRehearsal
  <2>12. CASE Crash(r)
    BY <2>12, GotoFrame, CheckedElsewhere DEF Crash
  <2>13. CASE Commit(r)
    <3>1. Frame(r) /\ gate'[r].pc = "done"
      BY <2>13 DEF Commit, Frame, Typed, TypeOK, Outcomes
    <3> QED BY <3>1, CheckedElsewhere
  <2>14. CASE Suspect(r)
    BY <2>14, FailFrame, CheckedElsewhere DEF Suspect
  <2> QED
    BY <1>3, <2>1, <2>2, <2>3, <2>4, <2>5, <2>6, <2>7, <2>8, <2>9, <2>10, <2>11,
       <2>12, <2>13, <2>14 DEF Step
<1> QED
  BY <1>1, <1>2, <1>3 DEF Next

\* A step that adds an effect is TakeEffect of the invocation that proposed it.
LEMMA EffectStep ==
    ASSUME Typed, Checked, [Next]_gateVars, NEW k \in Keys, effects'[k] > effects[k]
    PROVE  \E r \in Requests :
              /\ Key(r) = k /\ gate[r].pc = "executing"
              /\ k[2] \in Known \cap WellFormed \cap Exposed
              /\ ~NeedsApproval(r, k[2])
              /\ NeedsRehearsal(k[2]) => gate[r].dryRun
<1>1. effects' # effects /\ effects[k] \in Nat
  BY DEF Typed, TypeOK
<1>2. PICK r \in Requests : TakeEffect(r)
  BY <1>1 DEF Next, gateVars, Propose, Step, Invalid, Refuse, Admit, Rehearsed,
              RehearsalFails, NotExposed, Replay, Execute, Return, HandlerRaises,
              Crash, Commit, Suspect
<1>3. Key(r) = k
  BY <1>1, <1>2 DEF TakeEffect, Typed, TypeOK
<1>4. k[2] = gate[r].call /\ gate[r].pc = "executing"
  BY <1>2, <1>3 DEF TakeEffect, Key
<1> QED
  BY <1>3, <1>4 DEF Checked

\* Nothing is applied unchecked: every effect is of a call that was registered,
\* well-formed, exposed, needed no missing approval and was rehearsed if due.
THEOREM NothingUnchecked == SafetySpec => CheckedBeforeEffect
<1>1. Init => Typed /\ Checked
  BY TypedInit DEF Init, Checked, Untouched, Fresh
<1>2. Typed /\ Checked /\ [Next]_gateVars => (Typed /\ Checked)'
  BY TypedStep, CheckedStep
<1>3. Typed /\ Checked /\ [Next]_gateVars =>
         [\A k \in Keys : effects'[k] > effects[k] =>
             \E r \in Requests :
                 /\ Key(r) = k /\ gate[r].pc = "executing"
                 /\ k[2] \in Known \cap WellFormed \cap Exposed
                 /\ ~NeedsApproval(r, k[2])
                 /\ NeedsRehearsal(k[2]) => gate[r].dryRun]_gateVars
  BY EffectStep
<1> QED
  BY <1>1, <1>2, <1>3, PTL DEF SafetySpec, CheckedBeforeEffect
-----------------------------------------------------------------------------
\* What a record says of the attempts made and of the verdict reached.
Reported ==
    \A r \in Requests :
        /\ gate[r].pc \in {"validating", "rehearsing"} => gate[r].attempts = 0
        /\ gate[r].pc = "rehearsing" => NeedsRehearsal(gate[r].call)
        /\ gate[r].category # NoCategory => gate[r].pc = "done" /\ ~gate[r].committed

\* A step that fails r keeps its attempts; one that does not reports nothing.
Reports(r, category) ==
    /\ Frame(r)
    /\ gate'[r].pc = "done" /\ gate'[r].committed = FALSE
    /\ gate'[r].category = category /\ gate'[r].attempts = gate[r].attempts

Proceeds(r) ==
    /\ Frame(r)
    /\ gate'[r].category = gate[r].category
    /\ gate'[r].pc # "validating"
    /\ gate'[r].pc = "rehearsing" =>
          /\ gate[r].pc = "validating" /\ NeedsRehearsal(gate[r].call)
          /\ gate'[r].attempts = gate[r].attempts

LEMMA FailReports ==
    ASSUME Typed, NEW r \in Requests, NEW c, Fail(r, c)
    PROVE  Reports(r, c)
  BY DEF Fail, Reports, Frame, Typed, TypeOK, Outcomes

LEMMA AttemptProceeds ==
    ASSUME Typed, NEW r \in Requests, NEW n, Attempt(r, n)
    PROVE  Proceeds(r)
  BY DEF Attempt, Proceeds, Frame, Typed, TypeOK, Outcomes

LEMMA GotoProceeds ==
    ASSUME Typed, NEW r \in Requests, NEW pc, Goto(r, pc), pc # "validating",
           pc = "rehearsing" => gate[r].pc = "validating" /\ NeedsRehearsal(gate[r].call)
    PROVE  Proceeds(r)
  BY DEF Goto, Proceeds, Frame, Typed, TypeOK, Outcomes

\* A transient error fails a call only when no attempt is left.
LEMMA OnToolErrorReports ==
    ASSUME Typed, NEW r \in Requests, NEW e \in ToolErrors, OnToolError(r, e)
    PROVE  \/ Proceeds(r)
           \/ /\ Reports(r, CategoryOf[e])
              /\ CategoryOf[e] = "TOOL_TRANSIENT" => gate[r].attempts = MaxToolRetries + 1
<1>1. CASE e = "Transient" /\ gate[r].attempts <= MaxToolRetries
  BY <1>1, AttemptProceeds DEF OnToolError
<1>2. CASE ~(e = "Transient" /\ gate[r].attempts <= MaxToolRetries)
  <2>1. Reports(r, CategoryOf[e])
    BY <1>2, FailReports DEF OnToolError
  <2>2. CategoryOf[e] = "TOOL_TRANSIENT" => e = "Transient"
    BY DEF CategoryOf, ToolErrors
  <2>3. gate[r].attempts \in 0..(MaxToolRetries + 1)
    BY DEF Typed, TypeOK, Outcomes
  <2> QED BY <1>2, <2>1, <2>2, <2>3, GateAssumption
<1> QED
  BY <1>1, <1>2

\* The steps by what they report.
LEMMA StepReports ==
    ASSUME Typed, Reported, NEW r \in Requests, Step(r)
    PROVE  /\ gate[r].pc \notin Resting
           /\ \/ Proceeds(r)
              \/ \E c : /\ Reports(r, c)
                        /\ c = "TOOL_TRANSIENT" =>
                              \/ gate[r].attempts = MaxToolRetries + 1
                              \/ gate[r].attempts = 0 /\ NeedsRehearsal(gate[r].call)
<1>0. gate[r].pc \notin Resting
  BY StepSummary DEF Summary
<1>1. CASE Invalid(r)
  BY <1>0, <1>1, FailReports DEF Invalid
<1>2. CASE Refuse(r)
  BY <1>0, <1>2, FailReports DEF Refuse
<1>3. CASE Admit(r)
  BY <1>0, <1>3, GotoProceeds, AttemptProceeds DEF Admit, Valid
<1>4. CASE Rehearsed(r)
  <2>1. Proceeds(r)
    BY <1>4 DEF Rehearsed, Proceeds, Frame, Typed, TypeOK, Outcomes
  <2> QED BY <1>0, <2>1
<1>5. CASE RehearsalFails(r)
  <2>1. gate[r].attempts = 0 /\ NeedsRehearsal(gate[r].call)
    BY <1>5 DEF RehearsalFails, Reported
  <2> QED BY <1>0, <1>5, <2>1, FailReports DEF RehearsalFails
<1>6. CASE NotExposed(r)
  BY <1>0, <1>6, OnToolErrorReports DEF NotExposed, ToolErrors
<1>7. CASE Replay(r)
  BY <1>0, <1>7, GotoProceeds DEF Replay
<1>8. CASE Execute(r)
  BY <1>0, <1>8, GotoProceeds DEF Execute
<1>9. CASE TakeEffect(r)
  BY <1>0, <1>9, GotoProceeds DEF TakeEffect
<1>10. CASE Return(r)
  BY <1>0, <1>10, GotoProceeds DEF Return
<1>11. CASE HandlerRaises(r)
  BY <1>0, <1>11, OnToolErrorReports DEF HandlerRaises
<1>12. CASE Crash(r)
  BY <1>0, <1>12, GotoProceeds DEF Crash
<1>13. CASE Commit(r)
  <2>1. Proceeds(r)
    BY <1>13 DEF Commit, Proceeds, Frame, Typed, TypeOK, Outcomes
  <2> QED BY <1>0, <2>1
<1>14. CASE Suspect(r)
  BY <1>0, <1>14, FailReports DEF Suspect
<1> QED
  BY <1>1, <1>2, <1>3, <1>4, <1>5, <1>6, <1>7, <1>8, <1>9, <1>10, <1>11,
     <1>12, <1>13, <1>14 DEF Step

LEMMA ProposeReports ==
    ASSUME Typed, NEW r \in Requests, NEW c \in Calls, Propose(r, c)
    PROVE  /\ \A s \in Requests \ {r} : gate'[s] = gate[s]
           /\ gate'[r].pc = "validating" /\ gate'[r].attempts = 0
           /\ gate'[r].category = NoCategory /\ gate'[r].call = c
  BY DEF Propose, Fresh, Typed, TypeOK

LEMMA ReportedStep ==
    ASSUME Typed, Reported, TransientExhausted, [Next]_gateVars
    PROVE  Reported' /\ TransientExhausted'
<1> USE DEF Reported, TransientExhausted, NeedsRehearsal
<1>1. CASE UNCHANGED gateVars
  BY <1>1 DEF gateVars
<1>2. ASSUME NEW r \in Requests, NEW c \in Calls, Propose(r, c)
      PROVE  Reported' /\ TransientExhausted'
  BY <1>2, ProposeReports DEF NoCategory
<1>3. ASSUME NEW r \in Requests, Step(r)
      PROVE  Reported' /\ TransientExhausted'
  <2>1. gate[r].pc \notin Resting /\ gate[r].category = NoCategory
    BY <1>3, StepReports DEF Resting
  <2>2. CASE Proceeds(r)
    BY <2>1, <2>2 DEF Proceeds, Frame, NoCategory
  <2>3. ASSUME NEW c, Reports(r, c),
               c = "TOOL_TRANSIENT" =>
                  \/ gate[r].attempts = MaxToolRetries + 1
                  \/ gate[r].attempts = 0 /\ NeedsRehearsal(gate[r].call)
        PROVE  Reported' /\ TransientExhausted'
    BY <2>3 DEF Reports, Frame
  <2> QED
    BY <1>3, <2>2, <2>3, StepReports
<1> QED
  BY <1>1, <1>2, <1>3 DEF Next

\* A transient category is the last word on a call only after all its attempts,
\* or when its rehearsal met the fault.
THEOREM RetriesUsedUp == SafetySpec => []TransientExhausted
<1> DEFINE Inv == Typed /\ Reported /\ TransientExhausted
<1>1. Init => Inv
  BY TypedInit DEF Init, Reported, TransientExhausted, Untouched, Fresh, NoCategory
<1>2. Inv /\ [Next]_gateVars => Inv'
  BY TypedStep, ReportedStep
<1> QED
  BY <1>1, <1>2, PTL DEF SafetySpec
-----------------------------------------------------------------------------
\* No other invocation has r's request id.
Unshared(r) == \A s \in Requests \ {r} : RidOf[s] # RidOf[r]

\* What was applied under an unshared request id is the call its invocation
\* holds now, and is about to report or has reported as committed.
Sole ==
    ~LateFaults /\ ~ResultVerifiers =>
        \A r \in Requests : Unshared(r) =>
            \A k \in Keys :
                k[1] = RidOf[r] /\ effects[k] > 0 =>
                    /\ k = Key(r)
                    /\ \/ gate[r].pc \in {"executed", "returned"}
                       \/ gate[r].pc = "done" /\ gate[r].committed

\* An answer in hand is committed, unless it is verified.
LEMMA ReturnedStep ==
    ASSUME Typed, NEW r \in Requests, Step(r), gate[r].pc = "returned", ~ResultVerifiers
    PROVE  Frame(r) /\ gate'[r].pc = "done" /\ gate'[r].committed
<1>1. Commit(r)
  BY DEF Step, Invalid, Refuse, Admit, Valid, Rehearsed, RehearsalFails, NotExposed,
         Replay, Execute, TakeEffect, Return, HandlerRaises, Crash, Faultable, Suspect
<1> QED
  BY <1>1 DEF Commit, Frame, Typed, TypeOK, Outcomes

LEMMA SoleStep ==
    ASSUME Typed, Reported, Sole, [Next]_gateVars
    PROVE  Sole'
<1> SUFFICES ASSUME ~LateFaults, ~ResultVerifiers,
                    NEW r \in Requests, Unshared(r),
                    NEW k \in Keys, k[1] = RidOf[r], effects'[k] > 0
             PROVE  /\ k = Key(r)'
                    /\ \/ gate'[r].pc \in {"executed", "returned"}
                       \/ gate'[r].pc = "done" /\ gate'[r].committed
  BY DEF Sole, Unshared, Keys
<1>0. effects[k] > 0 =>
         /\ k = Key(r)
         /\ \/ gate[r].pc \in {"executed", "returned"}
            \/ gate[r].pc = "done" /\ gate[r].committed
  BY DEF Sole
<1>1. CASE UNCHANGED gateVars
  BY <1>0, <1>1 DEF gateVars, Key
<1>2. ASSUME NEW s \in Requests, NEW c \in Calls, Propose(s, c)
      PROVE  /\ k = Key(r)'
             /\ \/ gate'[r].pc \in {"executed", "returned"}
                \/ gate'[r].pc = "done" /\ gate'[r].committed
  <2>1. effects' = effects /\ \A q \in Requests \ {s} : gate'[q] = gate[q]
    BY <1>2, ProposeReports DEF Propose
  <2>2. s # r
    <3>1. gate[s].pc \in {"executed", "returned"} => FALSE
      BY <1>2 DEF Propose, Typed, Proposed
    <3>2. gate[s].pc = "done" => ~gate[s].committed
      BY <1>2 DEF Propose, Typed, Proposed, ShouldEscalate, Reported, Escalating, NoCategory
    <3> QED BY <1>0, <2>1, <3>1, <3>2
  <2> QED BY <1>0, <2>1, <2>2 DEF Key
<1>3. ASSUME NEW s \in Requests, Step(s)
      PROVE  /\ k = Key(r)'
             /\ \/ gate'[r].pc \in {"executed", "returned"}
                \/ gate'[r].pc = "done" /\ gate'[r].committed
  <2>1. Summary(s) /\ Key(s) \in Keys
    BY <1>3, StepSummary, GateAssumption DEF Typed, Proposed, Summary, Resting, Key, Keys
  <2>2. \A q \in Requests : Key(q)' = Key(q)
    BY <2>1 DEF Summary, Frame, Key
  <2>3. CASE s # r
    <3>1. gate'[r] = gate[r]
      BY <2>1, <2>3 DEF Summary, Frame
    <3>2. k # Key(s)
      BY <2>3 DEF Unshared, Key
    <3>3. effects'[k] = effects[k]
      BY <2>1, <3>2 DEF Summary, Typed, TypeOK
    <3> QED BY <1>0, <2>2, <3>1, <3>3
  <2>4. CASE s = r /\ effects' # effects
    <3>1. /\ gate[r].pc = "executing" /\ gate'[r].pc = "executed"
          /\ effects' = [effects EXCEPT ![Key(r)] = @ + 1]
      BY <2>1, <2>4 DEF Summary, Turns
    <3>2. k = Key(r)
      BY <1>0, <3>1 DEF Typed, TypeOK
    <3> QED BY <2>2, <3>1, <3>2
  <2>5. CASE s = r /\ effects' = effects
    <3>1. k = Key(r) /\ gate[r].pc \in {"executed", "returned"}
      BY <1>0, <2>1, <2>5 DEF Summary, Resting
    <3>2. CASE gate[r].pc = "executed"
      BY <2>1, <2>2, <2>5, <3>1, <3>2 DEF Summary, Turns
    <3>3. CASE gate[r].pc = "returned"
      BY <1>3, <2>2, <2>5, <3>1, <3>3, ReturnedStep
    <3> QED BY <3>1, <3>2, <3>3
  <2> QED
    BY <2>3, <2>4, <2>5
<1> QED
  BY <1>1, <1>2, <1>3 DEF Next

LEMMA SoleInvariant == SafetySpec => []Sole
<1> DEFINE Inv == Typed /\ Reported /\ TransientExhausted /\ Sole
<1>1. Init => Inv
  BY TypedInit, GateAssumption
  DEF Init, Reported, TransientExhausted, Sole, Untouched, Fresh, NoCategory
<1>2. Inv /\ [Next]_gateVars => Inv'
  BY TypedStep, ReportedStep, SoleStep
<1> QED
  BY <1>1, <1>2, PTL DEF SafetySpec
-----------------------------------------------------------------------------
\* A call that committed has left the gate, and one that left it uncommitted
\* has a category.
Settled ==
    \A r \in Requests :
        /\ gate[r].committed => gate[r].pc = "done"
        /\ gate[r].pc = "done" /\ ~gate[r].committed =>
              gate[r].category \in FailureCategory

\* How a step leaves its invocation's record: in the same round, and either
\* still at work or settled.
Settles(r) ==
    /\ Frame(r) /\ gate'[r].round = gate[r].round
    /\ \/ gate'[r].pc # "done" /\ gate'[r].committed = gate[r].committed
       \/ gate'[r].pc = "done" /\ gate'[r].committed
       \/ /\ gate'[r].pc = "done" /\ gate'[r].committed = FALSE
          /\ gate'[r].category \in FailureCategory

LEMMA FailSettles ==
    ASSUME Typed, NEW r \in Requests, NEW c \in FailureCategory, Fail(r, c)
    PROVE  Settles(r)
  BY DEF Fail, Settles, Frame, Typed, TypeOK, Outcomes

LEMMA AttemptSettles ==
    ASSUME Typed, NEW r \in Requests, NEW n, Attempt(r, n)
    PROVE  Settles(r)
  BY DEF Attempt, Settles, Frame, Typed, TypeOK, Outcomes

LEMMA GotoSettles ==
    ASSUME Typed, NEW r \in Requests, NEW pc, Goto(r, pc), pc # "done"
    PROVE  Settles(r)
  BY DEF Goto, Settles, Frame, Typed, TypeOK, Outcomes

LEMMA OnToolErrorSettles ==
    ASSUME Typed, NEW r \in Requests, NEW e \in ToolErrors, OnToolError(r, e)
    PROVE  Settles(r)
<1>1. CASE e = "Transient" /\ gate[r].attempts <= MaxToolRetries
  BY <1>1, AttemptSettles DEF OnToolError
<1>2. CASE ~(e = "Transient" /\ gate[r].attempts <= MaxToolRetries)
  BY <1>2, CategoryTyping, FailSettles DEF OnToolError
<1> QED
  BY <1>1, <1>2

LEMMA StepSettles ==
    ASSUME Typed, NEW r \in Requests, Step(r)
    PROVE  Settles(r)
<1>1. CASE Invalid(r) \/ Refuse(r) \/ Suspect(r)
  BY <1>1, CategoryTypes, FailSettles DEF Invalid, Refuse, Suspect
<1>2. CASE RehearsalFails(r)
  <2>1. Raisable(gate[r].call, Rehearses) \subseteq ToolErrors
    BY DEF Raisable, ToolErrors
  <2> QED BY <1>2, <2>1, CategoryTyping, FailSettles DEF RehearsalFails
<1>3. CASE Admit(r)
  BY <1>3, GotoSettles, AttemptSettles DEF Admit
<1>4. CASE Replay(r) \/ Execute(r) \/ TakeEffect(r) \/ Return(r) \/ Crash(r)
  BY <1>4, GotoSettles DEF Replay, Execute, TakeEffect, Return, Crash
<1>5. CASE NotExposed(r) \/ HandlerRaises(r)
  BY <1>5, OnToolErrorSettles DEF NotExposed, HandlerRaises, ToolErrors
<1>6. CASE Rehearsed(r)
  BY <1>6 DEF Rehearsed, Settles, Frame, Typed, TypeOK, Outcomes
<1>7. CASE Commit(r)
  BY <1>7 DEF Commit, Settles, Frame, Typed, TypeOK, Outcomes
<1> QED
  BY <1>1, <1>2, <1>3, <1>4, <1>5, <1>6, <1>7 DEF Step

LEMMA ProposeSettles ==
    ASSUME Typed, NEW r \in Requests, NEW c \in Calls, Propose(r, c)
    PROVE  /\ \A s \in Requests \ {r} : gate'[s] = gate[s]
           /\ gate'[r].pc = "validating" /\ gate'[r].committed = FALSE
           /\ gate'[r].round = gate[r].round + 1
  BY DEF Propose, Fresh, Typed, TypeOK

LEMMA SettledStep ==
    ASSUME Typed, Settled, [Next]_gateVars
    PROVE  Settled'
<1>1. CASE UNCHANGED gateVars
  BY <1>1 DEF gateVars, Settled
<1>2. ASSUME NEW r \in Requests, NEW c \in Calls, Propose(r, c)
      PROVE  Settled'
  BY <1>2, ProposeSettles DEF Settled
<1>3. ASSUME NEW r \in Requests, Step(r)
      PROVE  Settled'
  <2>1. gate[r].pc # "done"
    BY <1>3, StepSummary DEF Summary, Resting
  <2> QED BY <1>3, <2>1, StepSettles DEF Settles, Frame, Settled
<1> QED
  BY <1>1, <1>2, <1>3 DEF Next

LEMMA SettledInvariant == SafetySpec => []Settled
<1>1. Init => Settled
  BY DEF Init, Settled, Untouched, Fresh
<1>2. SafetySpec => []Typed
  BY TypedInit, TypedStep, PTL DEF SafetySpec
<1> QED
  BY <1>1, <1>2, SettledStep, PTL DEF SafetySpec
=============================================================================
