---------------------------- MODULE StdioGateway ----------------------------
(***************************************************************************)
(* The life of a StdioMCPGateway (tools/stdio_gateway.py): the threads     *)
(* that start, call and close it share its fields, without a lock, with    *)
(* the background thread whose event loop owns the MCP session.  What the  *)
(* gate does with an answer or an error is CommitGate's.                   *)
(*                                                                         *)
(* Background threads are numbered; a loop, a session, a stop event and a  *)
(* list of specs are named by the thread that made them, 0 being None.     *)
(***************************************************************************)
EXTENDS Naturals, FiniteSets

CONSTANTS
    Callers,      \* threads that use the gateway
    MaxThreads,   \* bound: background threads created
    MaxOps        \* bound: operations of all callers together

ASSUME GatewayAssumption == MaxThreads \in Nat /\ MaxOps \in Nat

Threads == 1..MaxThreads

VARIABLES
    gw,        \* the gateway's fields
    bg,        \* where each background thread is
    caller,    \* the operation of each caller
    stopped,   \* threads whose stop event is set
    ops,       \* how many operations were begun
    happened   \* history: "closed", "dropped", "raced"

gwVars == <<gw, bg, caller, stopped, ops, happened>>

Operations == {"start", "call", "rehearse", "close"}

\* A caller that is not in an operation, and how its last one ended: "answered";
\* with a ToolError ("refused"); with what the session's call raised instead of an
\* answer ("raised"); with an exception of the gateway's own ("crashed").
AtRest(outcome) ==
    [pc |-> "resting", op |-> "start", session |-> 0, loop |-> 0, outcome |-> outcome]

GatewayInit ==
    /\ gw = [thread |-> 0, loop |-> 0, session |-> 0, specs |-> 0, stop |-> 0,
             ready |-> FALSE, error |-> FALSE]
    /\ bg = [t \in Threads |-> "none"]
    /\ caller = [c \in Callers |-> AtRest("none")]
    /\ stopped = {} /\ ops = 0 /\ happened = {}

At(c, pc) == caller[c].pc = pc

To(c, pc) == caller' = [caller EXCEPT ![c].pc = pc]

Ends(c, outcome) == caller' = [caller EXCEPT ![c] = AtRest(outcome)]

Begin(c, op) ==
    /\ At(c, "resting") /\ ops < MaxOps
    /\ ops' = ops + 1
    /\ caller' = [caller EXCEPT ![c] =
         [AtRest("none") EXCEPT !.op = op,
                                 !.pc = IF op = "close" THEN "closing" ELSE "entering"]]
    /\ UNCHANGED <<gw, bg, stopped, happened>>
-----------------------------------------------------------------------------
\* "if self._thread is None: self.start()", and start()'s own test of it.
Enter(c) ==
    /\ At(c, "entering")
    /\ IF gw.thread = 0 THEN To(c, "creating") ELSE To(c, "entered")
    /\ UNCHANGED <<gw, bg, stopped, ops, happened>>

Create(c) ==
    /\ At(c, "creating")
    /\ \E t \in Threads :
         /\ bg[t] = "none" /\ \A u \in Threads : u < t => bg[u] # "none"
         /\ bg' = [bg EXCEPT ![t] = "created"]
         /\ gw' = [gw EXCEPT !.thread = t]
    /\ To(c, "launching")
    /\ happened' = IF gw.thread # 0 THEN happened \cup {"raced"} ELSE happened
    /\ UNCHANGED <<stopped, ops>>

\* self._thread.start() on whatever the field holds by now.
Launch(c) ==
    /\ At(c, "launching")
    /\ IF gw.thread # 0 /\ bg[gw.thread] = "created"
         THEN bg' = [bg EXCEPT ![gw.thread] = "starting"] /\ To(c, "awaiting")
         ELSE UNCHANGED bg /\ Ends(c, "crashed")
    /\ UNCHANGED <<gw, stopped, ops, happened>>

Started(c) ==
    /\ At(c, "awaiting") /\ gw.ready
    /\ IF gw.error THEN Ends(c, "refused") ELSE To(c, "entered")
    /\ UNCHANGED <<gw, bg, stopped, ops, happened>>

\* Faulty: start() waits without startup_timeout.
StartTimesOutNever(c) == FALSE /\ Started(c)

StartTimesOut(c) ==
    /\ At(c, "awaiting") /\ ~gw.ready
    /\ Ends(c, "refused")
    /\ UNCHANGED <<gw, bg, stopped, ops, happened>>

\* start() and list_tools() are done; call() looks the tool up, refuses dry
\* runs and takes the session's call.
Lookup(c) ==
    /\ At(c, "entered")
    /\ CASE caller[c].op = "start" -> Ends(c, "answered")
         [] caller[c].op # "start" /\ (gw.specs = 0 \/ caller[c].op = "rehearse")
              -> Ends(c, "refused")
         [] OTHER -> IF gw.session = 0 THEN Ends(c, "crashed")
                     ELSE caller' = [caller EXCEPT ![c].pc = "submitting",
                                                   ![c].session = gw.session]
    /\ UNCHANGED <<gw, bg, stopped, ops, happened>>

\* _submit(): a closed loop raises a RuntimeError.
Submit(c) ==
    /\ At(c, "submitting")
    /\ CASE gw.loop = 0            -> Ends(c, "refused")
         [] gw.loop # 0 /\ bg[gw.loop] = "closed" -> Ends(c, "crashed")
         [] OTHER -> caller' = [caller EXCEPT ![c].pc = "waiting", ![c].loop = gw.loop]
    /\ UNCHANGED <<gw, bg, stopped, ops, happened>>

\* The call runs on the loop its session belongs to, and the server answers: with a
\* result, with one marked as an error, or with a protocol error or a result that
\* fails validation, which call_tool raises and nothing here classifies.  The
\* session lives on.
Answer(c) ==
    /\ At(c, "waiting") /\ caller[c].session = caller[c].loop
    /\ bg[caller[c].loop] \in {"listing", "serving"}
    /\ \E outcome \in {"answered", "refused", "raised"} : Ends(c, outcome)
    /\ UNCHANGED <<gw, bg, stopped, ops, happened>>

\* A session of another loop: the call fails at once, if it does not hang.
Misplaced(c) ==
    /\ At(c, "waiting") /\ caller[c].session # caller[c].loop
    /\ Ends(c, "crashed")
    /\ UNCHANGED <<gw, bg, stopped, ops, happened>>

\* close(): have the loop set the stop event, join the thread, forget it.
AskToStop(c) ==
    /\ At(c, "closing")
    /\ IF gw.loop # 0 /\ gw.stop # 0
         THEN IF bg[gw.loop] = "closed" THEN Ends(c, "crashed") /\ UNCHANGED stopped
              ELSE To(c, "joining") /\ stopped' = stopped \cup {gw.stop}
         ELSE To(c, "joining") /\ UNCHANGED stopped
    /\ happened' = IF gw.loop # 0 /\ gw.stop # 0 /\ bg[gw.loop] = "closed"
                   THEN happened ELSE happened \cup {"closed"}
    /\ UNCHANGED <<gw, bg, ops>>

\* join() returns when the thread has ended, or after its timeout.
Join(c) ==
    /\ At(c, "joining")
    /\ IF gw.thread # 0 /\ bg[gw.thread] = "created"
         THEN Ends(c, "crashed") /\ UNCHANGED gw
         ELSE Ends(c, "answered") /\ gw' = [gw EXCEPT !.thread = 0]
    /\ UNCHANGED <<bg, stopped, ops, happened>>
-----------------------------------------------------------------------------
Become(t, where) == bg' = [bg EXCEPT ![t] = where]

\* _run(): the loop is published before anything runs on it.
Connect(t) ==
    /\ bg[t] = "starting" /\ Become(t, "connecting")
    /\ gw' = [gw EXCEPT !.loop = t]
    /\ UNCHANGED <<caller, stopped, ops, happened>>

\* Faulty: specs are published where the session should be, which stays None.
InitializeSpecsFirst(t) ==
    /\ bg[t] = "connecting" /\ Become(t, "listing")
    /\ gw' = [gw EXCEPT !.specs = t]
    /\ UNCHANGED <<caller, stopped, ops, happened>>

\* session.initialize()
Initialize(t) ==
    /\ bg[t] = "connecting" /\ Become(t, "listing")
    /\ gw' = [gw EXCEPT !.session = t]
    /\ UNCHANGED <<caller, stopped, ops, happened>>

\* Faulty: the gateway is ready before its tools are listed.
ListedLate(t) ==
    /\ bg[t] = "listing" /\ Become(t, "serving")
    /\ gw' = [gw EXCEPT !.stop = t, !.ready = TRUE]
    /\ UNCHANGED <<caller, stopped, ops, happened>>

\* session.list_tools(), and the gateway is ready.
Listed(t) ==
    /\ bg[t] = "listing" /\ Become(t, "serving")
    /\ gw' = [gw EXCEPT !.specs = t, !.stop = t, !.ready = TRUE]
    /\ UNCHANGED <<caller, stopped, ops, happened>>

\* Starting fails, or the session drops: reported to start(), if it waits.
Fails(t) ==
    /\ bg[t] \in {"connecting", "listing", "serving"} /\ Become(t, "closed")
    /\ gw' = [gw EXCEPT !.error = TRUE, !.ready = TRUE]
    /\ happened' = IF bg[t] = "serving" THEN happened \cup {"dropped"} ELSE happened
    /\ UNCHANGED <<caller, stopped, ops>>

Stops(t) ==
    /\ bg[t] = "serving" /\ t \in stopped /\ Become(t, "closed")
    /\ UNCHANGED <<gw, caller, stopped, ops, happened>>
-----------------------------------------------------------------------------
CallerStep(c) ==
    \/ Enter(c) \/ Create(c) \/ Launch(c) \/ Started(c) \/ StartTimesOut(c)
    \/ Lookup(c) \/ Submit(c) \/ Answer(c) \/ AskToStop(c) \/ Join(c)

ThreadStep(t) ==
    Connect(t) \/ Initialize(t) \/ Listed(t) \/ Fails(t) \/ Stops(t)

GatewayNext ==
    \/ \E c \in Callers :
         CallerStep(c) \/ Misplaced(c) \/ \E op \in Operations : Begin(c, op)
    \/ \E t \in Threads : ThreadStep(t)

\* Callers run, and a server that was initialised answers its calls; nothing is
\* assumed of a server that is starting, nor of a call on the wrong loop.
GatewayFairness == \A c \in Callers : WF_gwVars(CallerStep(c))

GatewaySpec == GatewayInit /\ [][GatewayNext]_gwVars /\ GatewayFairness
-----------------------------------------------------------------------------
\* Once the event start() waits for is set, there are tools to list or an error
\* to report, whatever the callers and earlier threads did
\* (tools/stdio_gateway.py:103-106, 121-126).
ReadyMeansLoaded == gw.ready => gw.error \/ gw.specs # 0

\* The gateway itself breaks down outside the ToolError family -- no session to call,
\* a thread that cannot be started or joined, a closed loop, a session of another
\* loop -- only if it was closed, its session dropped or two threads started it at
\* once: until then whoever finds tools listed finds the session they came from, on
\* a loop that runs (tools/stdio_gateway.py:99-102, 121-126, 141-144, 151, 180).
CrashExplained ==
    \A c \in Callers : caller[c].outcome = "crashed" => happened # {}

\* Every operation ends, whatever a starting server does, except a call left
\* waiting when its loop closes, or on a loop that is not its session's
\* (tools/stdio_gateway.py:103, 144, 151).
OperationsEnd ==
    \A c \in Callers :
        ~At(c, "resting") ~>
            \/ At(c, "resting")
            \/ At(c, "waiting") /\ bg[caller[c].loop] = "closed"
            \/ At(c, "waiting") /\ caller[c].session # caller[c].loop
=============================================================================
