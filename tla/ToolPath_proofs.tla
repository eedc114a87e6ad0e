--------------------------- MODULE ToolPath_proofs ---------------------------
(***************************************************************************)
(* Two stations of a tool call: the verifier ladder that reads it, for any *)
(* tools, texts and validator, and the stdio gateway that carries it, for  *)
(* any number of callers, threads and operations.                          *)
(***************************************************************************)
EXTENDS StdioGateway, VerifierLadder, SchemaWalk, FiniteSetTheorems, TLAPS
-----------------------------------------------------------------------------
\* The stdio gateway: what its readiness means, and when its own steps break down.

Places == {"none", "created", "starting", "connecting", "listing", "serving", "closed"}

Fields ==
    [thread: {0} \cup Threads, loop: {0} \cup Threads, session: {0} \cup Threads,
     specs: {0} \cup Threads, stop: {0} \cup Threads, ready: BOOLEAN, error: BOOLEAN]

Calling ==
    [pc: {"resting", "entering", "creating", "launching", "awaiting", "entered",
          "submitting", "waiting", "closing", "joining"},
     op: Operations, session: {0} \cup Threads, loop: {0} \cup Threads,
     outcome: {"none", "answered", "refused", "raised", "crashed"}]

GatewayTyped ==
    /\ gw \in Fields
    /\ bg \in [Threads -> Places]
    /\ caller \in [Callers -> Calling]
    /\ stopped \subseteq Threads /\ 0 \notin Threads

\* As long as nobody closes the gateway, its session does not drop and no two
\* callers start it together, there is one thread, and its fields are of it.
OneThread ==
    /\ \A t \in Threads : bg[t] # "none" => t = gw.thread
    /\ gw.thread # 0 => bg[gw.thread] # "none"
    /\ \A t \in Threads :
          /\ bg[t] \in {"connecting", "listing", "serving"} => gw.loop = t
          /\ bg[t] \in {"listing", "serving"} => gw.session = t
    /\ gw.specs # 0 => gw.thread # 0 /\ bg[gw.thread] = "serving"
    /\ gw.stop # 0 => gw.specs # 0

\* And every caller is where that thread lets it be.
Orderly ==
    /\ stopped = {}
    /\ \A c \in Callers :
          /\ At(c, "launching") => gw.thread # 0 /\ bg[gw.thread] = "created"
          /\ At(c, "submitting") \/ At(c, "waiting") =>
                gw.specs # 0 /\ caller[c].session = gw.thread
          /\ At(c, "waiting") => caller[c].loop = gw.thread
          /\ ~At(c, "joining")
    /\ \A c, d \in Callers : At(c, "launching") /\ At(d, "launching") => c = d

Undisturbed == happened = {} => OneThread /\ Orderly

GatewayInv == GatewayTyped /\ Undisturbed /\ CrashExplained /\ ReadyMeansLoaded
-----------------------------------------------------------------------------
\* What a caller's step leaves of the others, and where it leads the caller.
Others(c) == \A d \in Callers : d # c => caller'[d] = caller[d]

Moved(c, pc) ==
    /\ caller' \in [Callers -> Calling] /\ Others(c)
    /\ caller'[c].pc = pc /\ caller'[c].outcome = caller[c].outcome

Rested(c, outcome) ==
    /\ caller' \in [Callers -> Calling] /\ Others(c)
    /\ caller'[c].pc = "resting" /\ caller'[c].outcome = outcome

\* A caller is one of the records the type allows.
LEMMA CallerFields ==
    ASSUME GatewayTyped, NEW c \in Callers
    PROVE  /\ caller[c] \in Calling
           /\ caller[c] = [pc |-> caller[c].pc, op |-> caller[c].op,
                session |-> caller[c].session, loop |-> caller[c].loop,
                outcome |-> caller[c].outcome]
  BY DEF GatewayTyped, Calling

\* To moves one caller and keeps the rest of its record.
LEMMA ToMoves ==
    ASSUME GatewayTyped, NEW c \in Callers, NEW pc, To(c, pc),
           pc \in {"creating", "launching", "awaiting", "entered", "joining"}
    PROVE  Moved(c, pc)
  BY DEF GatewayTyped, Calling, To, Moved, Others

\* Ends puts one caller at rest with an outcome.
LEMMA EndsRests ==
    ASSUME GatewayTyped, NEW c \in Callers, NEW outcome, Ends(c, outcome),
           outcome \in {"answered", "refused", "raised", "crashed"}
    PROVE  Rested(c, outcome)
  BY DEF GatewayTyped, Calling, Ends, AtRest, Operations, Rested, Others

\* Become changes one thread's place.
LEMMA BecomeMoves ==
    ASSUME GatewayTyped, NEW t \in Threads, NEW where \in Places, Become(t, where)
    PROVE  /\ bg' \in [Threads -> Places] /\ bg'[t] = where
           /\ \A u \in Threads : u # t => bg'[u] = bg[u]
  BY DEF GatewayTyped, Become

\* A caller that does not end in an exception keeps every crash explained.
LEMMA NoNewCrash ==
    ASSUME CrashExplained, NEW c \in Callers, Others(c),
           happened # {} => happened' # {},
           caller'[c].outcome = "crashed" =>
               caller[c].outcome = "crashed" \/ happened' # {}
    PROVE  CrashExplained'
  BY DEF CrashExplained, Others

\* While nothing happened, a step that changes no field and no thread, and puts
\* its caller neither on the way into the gateway nor in a call, keeps order.
LEMMA OrderKept ==
    ASSUME Undisturbed, NEW c \in Callers, Others(c), UNCHANGED <<gw, bg, stopped>>,
           happened # {} => happened' # {},
           caller'[c].pc \notin {"launching", "submitting", "waiting", "joining"}
    PROVE  Undisturbed'
  <1>1. CASE happened' # {}
    BY <1>1 DEF Undisturbed
  <1>2. CASE happened' = {}
    <2>1. OneThread /\ Orderly
      BY <1>2 DEF Undisturbed
    <2>2. OneThread'
      BY <2>1 DEF OneThread
    <2>3. Orderly'
      BY <2>1 DEF Orderly, At, Others
    <2>. QED  BY <2>2, <2>3 DEF Undisturbed
  <1>. QED  BY <1>1, <1>2
-----------------------------------------------------------------------------
LEMMA BeginInv ==
    ASSUME GatewayInv, NEW c \in Callers, NEW op \in Operations, Begin(c, op)
    PROVE  GatewayInv'
  <1>. USE DEF GatewayInv
  <1>1. /\ caller' \in [Callers -> Calling] /\ Others(c)
        /\ caller'[c].pc \in {"closing", "entering"} /\ caller'[c].outcome = "none"
    BY DEF GatewayTyped, Calling, Begin, AtRest, Operations, Others
  <1>2. UNCHANGED <<gw, bg, stopped, happened>>
    BY DEF Begin
  <1>3. GatewayTyped' /\ ReadyMeansLoaded'
    BY <1>1, <1>2 DEF GatewayTyped, ReadyMeansLoaded
  <1>4. Undisturbed' /\ CrashExplained'
    BY <1>1, <1>2, OrderKept, NoNewCrash
  <1>. QED  BY <1>3, <1>4

LEMMA EnterInv ==
    ASSUME GatewayInv, NEW c \in Callers, Enter(c)
    PROVE  GatewayInv'
  <1>. USE DEF GatewayInv
  <1>1. Moved(c, "creating") \/ Moved(c, "entered")
    BY ToMoves DEF Enter
  <1>2. UNCHANGED <<gw, bg, stopped, happened>>
    BY DEF Enter
  <1>3. GatewayTyped' /\ ReadyMeansLoaded'
    BY <1>1, <1>2 DEF GatewayTyped, ReadyMeansLoaded, Moved
  <1>4. Undisturbed' /\ CrashExplained'
    BY <1>1, <1>2, OrderKept, NoNewCrash DEF Moved
  <1>. QED  BY <1>3, <1>4

\* start() makes its thread: the only one, unless another start() was as far.
LEMMA CreateInv ==
    ASSUME GatewayInv, NEW c \in Callers, Create(c)
    PROVE  GatewayInv'
  <1>. USE DEF GatewayInv
  <1>1. PICK t \in Threads :
          /\ bg[t] = "none" /\ bg' = [bg EXCEPT ![t] = "created"]
          /\ gw' = [gw EXCEPT !.thread = t]
    BY DEF Create
  <1>2. Moved(c, "launching")
    BY ToMoves DEF Create
  <1>3. /\ UNCHANGED <<stopped, ops>> /\ happened \subseteq happened'
        /\ gw.thread # 0 => happened' # {}
    BY DEF Create
  <1>4. /\ gw' \in Fields /\ gw'.thread = t /\ gw'.loop = gw.loop
        /\ gw'.session = gw.session /\ gw'.specs = gw.specs /\ gw'.stop = gw.stop
        /\ gw'.ready = gw.ready /\ gw'.error = gw.error
    BY <1>1 DEF GatewayTyped, Fields
  <1>5. /\ bg' \in [Threads -> Places] /\ bg'[t] = "created"
        /\ \A u \in Threads : u # t => bg'[u] = bg[u]
    BY <1>1, BecomeMoves DEF Become, Places
  <1>6. GatewayTyped' /\ ReadyMeansLoaded'
    BY <1>2, <1>3, <1>4, <1>5 DEF GatewayTyped, ReadyMeansLoaded, Moved
  <1>7. CrashExplained'
    BY <1>2, <1>3, NoNewCrash DEF Moved
  <1>8. ASSUME happened' = {} PROVE OneThread' /\ Orderly'
    <2>1. gw.thread = 0 /\ OneThread /\ Orderly
      BY <1>3, <1>8 DEF Undisturbed
    <2>2. t # 0 /\ \A u \in Threads : bg[u] = "none" /\ u # 0
      BY <2>1 DEF OneThread, GatewayTyped
    <2>3. OneThread'
      BY <2>1, <2>2, <1>4, <1>5 DEF OneThread
    <2>4. \A d \in Callers : ~At(d, "launching") /\ ~At(d, "submitting") /\ ~At(d, "waiting")
      BY <2>1 DEF Orderly, OneThread
    <2>5. Orderly'
      BY <2>1, <2>2, <2>4, <1>2, <1>3, <1>4, <1>5 DEF Orderly, At, Moved, Others
    <2>. QED  BY <2>3, <2>5
  <1>. QED  BY <1>6, <1>7, <1>8 DEF Undisturbed

\* The thread start() starts is its own.
LEMMA LaunchInv ==
    ASSUME GatewayInv, NEW c \in Callers, Launch(c)
    PROVE  GatewayInv'
  <1>. USE DEF GatewayInv
  <1>1. UNCHANGED <<gw, stopped, happened>> /\ At(c, "launching")
    BY DEF Launch
  <1>2. CASE gw.thread # 0 /\ bg[gw.thread] = "created"
    <2>. DEFINE t == gw.thread
    <2>1. t \in Threads /\ Become(t, "starting") /\ Moved(c, "awaiting")
      BY <1>2, ToMoves DEF Launch, Become, GatewayTyped, Fields
    <2>2. /\ bg' \in [Threads -> Places] /\ bg'[t] = "starting"
          /\ \A u \in Threads : u # t => bg'[u] = bg[u]
      BY <2>1, BecomeMoves DEF Places
    <2>3. GatewayTyped' /\ ReadyMeansLoaded' /\ CrashExplained'
      BY <1>1, <2>1, <2>2, NoNewCrash DEF GatewayTyped, ReadyMeansLoaded, Moved
    <2>4. ASSUME happened' = {} PROVE OneThread' /\ Orderly'
      <3>1. OneThread /\ Orderly
        BY <1>1, <2>4 DEF Undisturbed
      <3>2. OneThread'
        BY <3>1, <1>1, <1>2, <2>1, <2>2 DEF OneThread
      <3>3. \A d \in Callers : At(d, "launching") => d = c
        BY <3>1, <1>1 DEF Orderly
      <3>4. Orderly'
        BY <3>1, <3>3, <1>1, <2>1 DEF Orderly, At, Moved, Others
      <3>. QED  BY <3>2, <3>4
    <2>. QED  BY <2>3, <2>4 DEF Undisturbed
  <1>3. CASE ~(gw.thread # 0 /\ bg[gw.thread] = "created")
    <2>1. Rested(c, "crashed") /\ UNCHANGED bg
      BY <1>3, EndsRests DEF Launch
    <2>2. happened # {}
      BY <1>1, <1>3 DEF Undisturbed, Orderly
    <2>. QED  BY <1>1, <2>1, <2>2, NoNewCrash
              DEF GatewayTyped, ReadyMeansLoaded, Undisturbed, Rested
  <1>. QED  BY <1>2, <1>3

LEMMA StartedInv ==
    ASSUME GatewayInv, NEW c \in Callers, Started(c) \/ StartTimesOut(c)
    PROVE  GatewayInv'
  <1>. USE DEF GatewayInv
  <1>1. Rested(c, "refused") \/ Moved(c, "entered")
    BY ToMoves, EndsRests DEF Started, StartTimesOut
  <1>2. UNCHANGED <<gw, bg, stopped, happened>>
    BY DEF Started, StartTimesOut
  <1>3. GatewayTyped' /\ ReadyMeansLoaded'
    BY <1>1, <1>2 DEF GatewayTyped, ReadyMeansLoaded, Moved, Rested
  <1>4. Undisturbed' /\ CrashExplained'
    BY <1>1, <1>2, OrderKept, NoNewCrash DEF Moved, Rested
  <1>. QED  BY <1>3, <1>4

\* A tool that is listed has a session behind it, so the call can be taken.
LEMMA LookupInv ==
    ASSUME GatewayInv, NEW c \in Callers, Lookup(c)
    PROVE  GatewayInv'
  <1>. USE DEF GatewayInv
  <1>1. UNCHANGED <<gw, bg, stopped, happened>> /\ At(c, "entered")
    BY DEF Lookup
  <1>2. \/ Rested(c, "answered") \/ Rested(c, "refused")
        \/ gw.session = 0 /\ gw.specs # 0 /\ Rested(c, "crashed")
        \/ /\ gw.specs # 0
           /\ caller' = [caller EXCEPT ![c].pc = "submitting", ![c].session = gw.session]
    BY EndsRests DEF Lookup
  <1>3. GatewayTyped' /\ ReadyMeansLoaded' /\ Others(c)
    BY <1>1, <1>2 DEF GatewayTyped, ReadyMeansLoaded, Rested, Calling, Fields, Others
  <1>4. CASE Rested(c, "answered") \/ Rested(c, "refused")
    BY <1>1, <1>3, <1>4, OrderKept, NoNewCrash DEF Rested
  <1>5. CASE gw.session = 0 /\ gw.specs # 0 /\ Rested(c, "crashed")
    <2>1. happened # {}
      BY <1>5 DEF Undisturbed, OneThread, GatewayTyped, Fields
    <2>. QED  BY <1>1, <1>3, <1>5, <2>1, OrderKept, NoNewCrash DEF Rested
  <1>6. CASE /\ gw.specs # 0
             /\ caller' = [caller EXCEPT ![c].pc = "submitting", ![c].session = gw.session]
    <2>1. /\ caller'[c].pc = "submitting" /\ caller'[c].session = gw.session
          /\ caller'[c].outcome = caller[c].outcome
      BY <1>6, CallerFields DEF GatewayTyped, Calling
    <2>2. CrashExplained'
      BY <1>1, <1>3, <2>1, NoNewCrash
    <2>3. ASSUME happened' = {} PROVE OneThread' /\ Orderly'
      <3>1. OneThread /\ Orderly
        BY <1>1, <2>3 DEF Undisturbed
      <3>2. gw.session = gw.thread
        BY <3>1, <1>6 DEF OneThread, GatewayTyped, Fields
      <3>3. OneThread'
        BY <3>1, <1>1 DEF OneThread
      <3>4. Orderly'
        BY <3>1, <3>2, <1>1, <1>3, <1>6, <2>1 DEF Orderly, At, Others
      <3>. QED  BY <3>3, <3>4
    <2>. QED  BY <1>3, <2>2, <2>3 DEF Undisturbed
  <1>. QED  BY <1>2, <1>4, <1>5, <1>6

\* The loop a call is submitted to runs, and is its session's.
LEMMA SubmitInv ==
    ASSUME GatewayInv, NEW c \in Callers, Submit(c)
    PROVE  GatewayInv'
  <1>. USE DEF GatewayInv
  <1>1. UNCHANGED <<gw, bg, stopped, happened>> /\ At(c, "submitting")
    BY DEF Submit
  <1>2. \/ Rested(c, "refused")
        \/ gw.loop # 0 /\ bg[gw.loop] = "closed" /\ Rested(c, "crashed")
        \/ caller' = [caller EXCEPT ![c].pc = "waiting", ![c].loop = gw.loop]
    BY EndsRests DEF Submit
  <1>3. GatewayTyped' /\ ReadyMeansLoaded' /\ Others(c)
    BY <1>1, <1>2 DEF GatewayTyped, ReadyMeansLoaded, Rested, Calling, Fields, Others
  <1>4. happened = {} => /\ gw.specs # 0 /\ gw.thread \in Threads
                         /\ bg[gw.thread] = "serving" /\ gw.loop = gw.thread
    BY <1>1 DEF Undisturbed, OneThread, Orderly, GatewayTyped, Fields
  <1>5. CASE Rested(c, "refused")
    BY <1>1, <1>3, <1>5, OrderKept, NoNewCrash DEF Rested
  <1>6. CASE gw.loop # 0 /\ bg[gw.loop] = "closed" /\ Rested(c, "crashed")
    <2>1. happened # {}
      BY <1>4, <1>6
    <2>. QED  BY <1>1, <1>3, <1>6, <2>1, OrderKept, NoNewCrash DEF Rested
  <1>7. CASE caller' = [caller EXCEPT ![c].pc = "waiting", ![c].loop = gw.loop]
    <2>1. /\ caller'[c].pc = "waiting" /\ caller'[c].loop = gw.loop
          /\ caller'[c].session = caller[c].session
          /\ caller'[c].outcome = caller[c].outcome
      BY <1>7, CallerFields DEF GatewayTyped, Calling
    <2>2. CrashExplained'
      BY <1>1, <1>3, <2>1, NoNewCrash
    <2>3. ASSUME happened' = {} PROVE OneThread' /\ Orderly'
      <3>1. OneThread /\ Orderly
        BY <1>1, <2>3 DEF Undisturbed
      <3>2. OneThread'
        BY <3>1, <1>1 DEF OneThread
      <3>3. Orderly'
        BY <3>1, <1>1, <1>3, <1>4, <2>1, <2>3 DEF Orderly, At, Others
      <3>. QED  BY <3>2, <3>3
    <2>. QED  BY <1>3, <2>2, <2>3 DEF Undisturbed
  <1>. QED  BY <1>2, <1>5, <1>6, <1>7

\* A call ends: unexpectedly only when its session dropped or is another loop's.
LEMMA AnswerInv ==
    ASSUME GatewayInv, NEW c \in Callers, Answer(c) \/ Misplaced(c)
    PROVE  GatewayInv'
  <1>. USE DEF GatewayInv
  <1>1. UNCHANGED <<gw, bg, stopped>> /\ At(c, "waiting") /\ happened \subseteq happened'
    BY DEF Answer, Misplaced
  <1>2. \/ Rested(c, "answered") \/ Rested(c, "refused") \/ Rested(c, "raised")
        \/ Rested(c, "crashed") /\ happened' # {}
    <2>1. CASE Answer(c)
      BY <2>1, EndsRests DEF Answer
    <2>2. CASE Misplaced(c)
      <3>1. happened # {}
        BY <2>2 DEF Misplaced, Undisturbed, Orderly
      <3>. QED  BY <2>2, <3>1, EndsRests DEF Misplaced
    <2>. QED  BY <2>1, <2>2
  <1>3. GatewayTyped' /\ ReadyMeansLoaded'
    BY <1>1, <1>2 DEF GatewayTyped, ReadyMeansLoaded, Rested
  <1>4. Undisturbed' /\ CrashExplained'
    BY <1>1, <1>2, OrderKept, NoNewCrash DEF Rested
  <1>. QED  BY <1>3, <1>4

\* Closing is one of the things that happened, when it does not crash at once.
LEMMA CloseInv ==
    ASSUME GatewayInv, NEW c \in Callers, AskToStop(c) \/ Join(c)
    PROVE  GatewayInv'
  <1>. USE DEF GatewayInv
  <1>1. happened' # {}
    <2>1. CASE AskToStop(c)
      <3>1. CASE gw.loop # 0 /\ gw.stop # 0 /\ bg[gw.loop] = "closed"
        <4>1. happened # {}
          BY <3>1 DEF Undisturbed, OneThread, GatewayTyped, Fields
        <4>. QED  BY <2>1, <3>1, <4>1 DEF AskToStop
      <3>2. CASE ~(gw.loop # 0 /\ gw.stop # 0 /\ bg[gw.loop] = "closed")
        BY <2>1, <3>2 DEF AskToStop
      <3>. QED  BY <3>1, <3>2
    <2>2. CASE Join(c)
      BY <2>2 DEF Join, Undisturbed, Orderly
    <2>. QED  BY <2>1, <2>2
  <1>2. \/ Rested(c, "answered") \/ Rested(c, "crashed") \/ Moved(c, "joining")
    BY EndsRests, ToMoves DEF AskToStop, Join
  <1>3. stopped' \subseteq Threads /\ UNCHANGED bg
    BY DEF AskToStop, Join, GatewayTyped, Fields
  <1>4. gw' \in Fields /\ gw'.ready = gw.ready /\ gw'.error = gw.error /\ gw'.specs = gw.specs
    BY DEF AskToStop, Join, GatewayTyped, Fields
  <1>5. GatewayTyped' /\ ReadyMeansLoaded'
    BY <1>2, <1>3, <1>4 DEF GatewayTyped, ReadyMeansLoaded, Moved, Rested
  <1>6. CrashExplained'
    BY <1>1, <1>2, NoNewCrash DEF Moved, Rested
  <1>. QED  BY <1>1, <1>5, <1>6 DEF Undisturbed
-----------------------------------------------------------------------------
\* The background thread publishes its loop, its session and its tools in turn.
LEMMA PublishInv ==
    ASSUME GatewayInv, NEW t \in Threads, Connect(t) \/ Initialize(t) \/ Listed(t)
    PROVE  GatewayInv'
  <1>. USE DEF GatewayInv
  <1>1. UNCHANGED <<caller, stopped, happened>>
    BY DEF Connect, Initialize, Listed
  <1>2. PICK where \in {"connecting", "listing", "serving"} : Become(t, where)
    BY DEF Connect, Initialize, Listed
  <1>3. /\ bg' \in [Threads -> Places] /\ bg'[t] = where
        /\ \A u \in Threads : u # t => bg'[u] = bg[u]
    BY <1>2, BecomeMoves DEF Places
  <1>4. gw' \in Fields /\ gw'.thread = gw.thread
    BY DEF Connect, Initialize, Listed, GatewayTyped, Fields
  <1>5. GatewayTyped' /\ ReadyMeansLoaded' /\ CrashExplained'
    BY <1>1, <1>3, <1>4 DEF GatewayTyped, ReadyMeansLoaded, CrashExplained,
         Connect, Initialize, Listed, Fields
  <1>6. ASSUME happened' = {} PROVE OneThread' /\ Orderly'
    <2>1. OneThread /\ Orderly
      BY <1>1, <1>6 DEF Undisturbed
    <2>2. bg[t] \in {"starting", "connecting", "listing"} /\ t = gw.thread /\ t # 0
      BY <2>1 DEF OneThread, GatewayTyped, Connect, Initialize, Listed
    <2>3. gw.specs = 0 /\ gw.stop = 0
      BY <2>1, <2>2 DEF OneThread
    <2>4. OneThread'
      <3>1. CASE Connect(t)
        BY <3>1, <2>1, <2>2, <2>3, <1>3 DEF OneThread, Connect, Become, GatewayTyped, Fields
      <3>2. CASE Initialize(t)
        BY <3>2, <2>1, <2>2, <2>3, <1>3 DEF OneThread, Initialize, Become, GatewayTyped, Fields
      <3>3. CASE Listed(t)
        BY <3>3, <2>1, <2>2, <2>3, <1>3 DEF OneThread, Listed, Become, GatewayTyped, Fields
      <3>. QED  BY <3>1, <3>2, <3>3
    <2>5. \A c \in Callers : ~At(c, "launching") /\ ~At(c, "submitting") /\ ~At(c, "waiting")
      BY <2>1, <2>2, <2>3 DEF Orderly
    <2>6. Orderly'
      BY <2>1, <2>5, <1>1 DEF Orderly, At
    <2>. QED  BY <2>4, <2>6
  <1>. QED  BY <1>5, <1>6 DEF Undisturbed

\* A thread ends: while it starts, nobody is in a call; if it serves, it was
\* told to or dropped its session.
LEMMA EndInv ==
    ASSUME GatewayInv, NEW t \in Threads, Fails(t) \/ Stops(t)
    PROVE  GatewayInv'
  <1>. USE DEF GatewayInv
  <1>1. UNCHANGED <<caller, stopped>> /\ happened \subseteq happened' /\ Become(t, "closed")
    BY DEF Fails, Stops
  <1>2. /\ bg' \in [Threads -> Places] /\ bg'[t] = "closed"
        /\ \A u \in Threads : u # t => bg'[u] = bg[u]
    BY <1>1, BecomeMoves DEF Places
  <1>3. /\ gw' \in Fields /\ gw'.thread = gw.thread /\ gw'.loop = gw.loop
        /\ gw'.session = gw.session /\ gw'.specs = gw.specs /\ gw'.stop = gw.stop
        /\ (gw'.ready = gw.ready /\ gw'.error = gw.error) \/ gw'.error
    BY DEF Fails, Stops, GatewayTyped, Fields
  <1>4. GatewayTyped' /\ ReadyMeansLoaded' /\ CrashExplained'
    BY <1>1, <1>2, <1>3 DEF GatewayTyped, ReadyMeansLoaded, CrashExplained
  <1>5. ASSUME happened' = {} PROVE OneThread' /\ Orderly'
    <2>1. OneThread /\ Orderly /\ happened = {}
      BY <1>1, <1>5 DEF Undisturbed
    <2>2. bg[t] \in {"connecting", "listing"} /\ t = gw.thread
      <3>1. CASE Fails(t)
        BY <3>1, <2>1, <1>5 DEF Fails, OneThread
      <3>2. CASE Stops(t)
        BY <3>2, <2>1 DEF Stops, Orderly
      <3>. QED  BY <3>1, <3>2
    <2>3. gw.specs = 0
      BY <2>1, <2>2 DEF OneThread
    <2>4. OneThread'
      BY <2>1, <2>2, <2>3, <1>2, <1>3 DEF OneThread
    <2>5. \A c \in Callers : ~At(c, "launching") /\ ~At(c, "submitting") /\ ~At(c, "waiting")
      BY <2>1, <2>2, <2>3 DEF Orderly
    <2>6. Orderly'
      BY <2>1, <2>5, <1>1 DEF Orderly, At
    <2>. QED  BY <2>4, <2>6
  <1>. QED  BY <1>4, <1>5 DEF Undisturbed
-----------------------------------------------------------------------------
LEMMA GatewayInitInv == GatewayInit => GatewayInv
  <1>. SUFFICES ASSUME GatewayInit PROVE GatewayInv
    OBVIOUS
  <1>1. 0 \notin Threads
    BY DEF Threads
  <1>2. GatewayTyped
    BY <1>1 DEF GatewayInit, GatewayTyped, Fields, Places, Calling, AtRest, Operations
  <1>3. Undisturbed
    BY <1>1 DEF GatewayInit, Undisturbed, OneThread, Orderly, At, AtRest
  <1>. QED  BY <1>2, <1>3 DEF GatewayInit, GatewayInv, CrashExplained, ReadyMeansLoaded, AtRest

LEMMA GatewayStepInv == GatewayInv /\ [GatewayNext]_gwVars => GatewayInv'
  <1>. SUFFICES ASSUME GatewayInv, [GatewayNext]_gwVars PROVE GatewayInv'
    OBVIOUS
  <1>1. ASSUME NEW c \in Callers, CallerStep(c) PROVE GatewayInv'
    BY <1>1, EnterInv, CreateInv, LaunchInv, StartedInv, LookupInv, SubmitInv,
       AnswerInv, CloseInv DEF CallerStep
  <1>2. ASSUME NEW c \in Callers, Misplaced(c) PROVE GatewayInv'
    BY <1>2, AnswerInv
  <1>3. ASSUME NEW c \in Callers, NEW op \in Operations, Begin(c, op) PROVE GatewayInv'
    BY <1>3, BeginInv
  <1>4. ASSUME NEW t \in Threads, ThreadStep(t) PROVE GatewayInv'
    BY <1>4, PublishInv, EndInv DEF ThreadStep
  <1>5. CASE UNCHANGED gwVars
    BY <1>5 DEF gwVars, GatewayInv, GatewayTyped, Undisturbed, OneThread, Orderly, At,
         CrashExplained, ReadyMeansLoaded
  <1>. QED  BY <1>1, <1>2, <1>3, <1>4, <1>5 DEF GatewayNext

\* The whole invariant holds of the gateway, for any number of callers, of
\* background threads and of operations (tools/stdio_gateway.py).
THEOREM GatewayInvariant == GatewaySpec => []GatewayInv
  BY GatewayInitInv, GatewayStepInv, PTL DEF GatewaySpec

\* Whoever waited for the gateway to be ready finds its tools or its error,
\* however starts, closes and failures of earlier threads interleaved
\* (tools/stdio_gateway.py:103-106, 121-126).
THEOREM ReadyIsLoaded == GatewaySpec => []ReadyMeansLoaded
  <1>1. GatewayInv => ReadyMeansLoaded
    BY DEF GatewayInv
  <1>. QED  BY <1>1, GatewayInvariant, PTL

\* The gateway's own steps fail outside the ToolError family only after a close, a
\* dropped session or two starts at once.  Without them every call ends, if it ends,
\* with a ToolError or with what the session's call returned or raised
\* (tools/stdio_gateway.py:99-102, 121-126, 141-144, 151, 180).
THEOREM CrashesExplained == GatewaySpec => []CrashExplained
  <1>1. GatewayInv => CrashExplained
    BY DEF GatewayInv
  <1>. QED  BY <1>1, GatewayInvariant, PTL
-----------------------------------------------------------------------------
\* The ladder: it and the commit gate read a call alike.

ToolCategories == {"TOOL_NOT_FOUND", "TOOL_ARG_INVALID"}

\* What was climbed was passed, the top is reached by climbing, only the tool-call
\* verifier has anything to say of tools, and only a text that does not parse
\* violates the schema.
Climbed ==
    /\ response = Nobody => rung = 0 /\ verdict = "open"
    /\ rung \in 0..Len(Verifiers)
    /\ \A i \in 1..rung : Checked(Verifiers[i], response) = NoCategory
    /\ verdict = "passed" => rung = Len(Verifiers)
    /\ verdict \in ToolCategories => ToolCallVerdict(response.text) = verdict
    /\ verdict = "SCHEMA_VIOLATION" => response.text = NotJson

LEMMA OnlyToolCallSpeaks ==
    ASSUME NEW verifier, NEW r, Checked(verifier, r) \in ToolCategories
    PROVE  Checked(verifier, r) = ToolCallVerdict(r.text)
<1>1. CheapVerdict(verifier, r) \notin ToolCategories
  BY DEF CheapVerdict, CategoryIf, NoCategory, ToolCategories
<1> QED BY <1>1 DEF Checked, CategoryIf, NoCategory, ToolCategories

LEMMA OnlyNotJsonViolatesSchema ==
    ASSUME NEW verifier, NEW r, Checked(verifier, r) = "SCHEMA_VIOLATION"
    PROVE  r.text = NotJson
<1>1. CheapVerdict(verifier, r) # "SCHEMA_VIOLATION"
  BY DEF CheapVerdict, CategoryIf, NoCategory
<1>2. ToolCallVerdict(r.text) # "SCHEMA_VIOLATION"
  BY DEF ToolCallVerdict, GateVerdict, NoCategory
<1> QED BY <1>1, <1>2 DEF Checked, CategoryIf, NoCategory

LEMMA LadderInvariant == LadderSpec => []Climbed
<1>1. LadderInit => Climbed
  <2>1. Len(Verifiers) \in Nat
    BY LadderAssumption
  <2> QED BY <2>1 DEF LadderInit, Climbed, ToolCategories
<1>2. Climbed /\ [LadderNext]_ladderVars => Climbed'
  <2> SUFFICES ASSUME Climbed, [LadderNext]_ladderVars PROVE Climbed'
    OBVIOUS
  <2>0. Len(Verifiers) \in Nat
    BY LadderAssumption
  <2>1. CASE Submitted
    <3>1. rung = 0 /\ verdict = "open" /\ rung' = rung /\ verdict' = verdict
      BY <2>1 DEF Submitted, Climbed
    <3> QED BY <2>0, <3>1 DEF Climbed, ToolCategories
  <2>2. CASE Climb
    <3> DEFINE category == Checked(Verifiers[rung + 1], response)
    <3>1. /\ response # Nobody /\ response' = response /\ rung < Len(Verifiers)
          /\ \/ category = NoCategory /\ rung' = rung + 1 /\ verdict' = "open"
             \/ category # NoCategory /\ verdict' = category /\ rung' = rung
      BY <2>2 DEF Climb
    <3>2. rung \in Nat /\ \A i \in 1..rung : Checked(Verifiers[i], response) = NoCategory
      BY <2>0 DEF Climbed
    <3>3. CASE category = NoCategory
      <4>1. rung' = rung + 1 /\ verdict' = "open"
        BY <3>1, <3>3
      <4>2. \A i \in 1..(rung + 1) : i \in 1..rung \/ i = rung + 1
        BY <3>2
      <4>3. \A i \in 1..(rung + 1) : Checked(Verifiers[i], response) = NoCategory
        BY <3>2, <3>3, <4>2
      <4>4. rung + 1 \in 0..Len(Verifiers)
        BY <2>0, <3>1, <3>2
      <4> QED BY <3>1, <4>1, <4>3, <4>4 DEF Climbed, ToolCategories
    <3>4. CASE category # NoCategory
      <4>1. rung' = rung /\ verdict' = category
        BY <3>1, <3>4
      <4>2. category # "passed"
        BY DEF Checked, CheapVerdict, CategoryIf, NoCategory, ToolCallVerdict, GateVerdict
      <4>3. category \in ToolCategories => ToolCallVerdict(response.text) = category
        BY OnlyToolCallSpeaks
      <4>4. category = "SCHEMA_VIOLATION" => response.text = NotJson
        BY OnlyNotJsonViolatesSchema
      <4> HIDE DEF category
      <4> QED BY <3>1, <4>1, <4>2, <4>3, <4>4 DEF Climbed
    <3> QED BY <3>3, <3>4
  <2>3. CASE Judged
    <3>1. /\ response # Nobody /\ rung = Len(Verifiers)
          /\ verdict' \in {"SILENT_SEMANTIC", "passed", "raised"}
          /\ response' = response /\ rung' = rung
      BY <2>3 DEF Judged, AtTop
    <3> QED BY <3>1 DEF Climbed, ToolCategories
  <2>4. CASE NotJudged
    <3>1. /\ response # Nobody /\ rung = Len(Verifiers) /\ verdict' = "passed"
          /\ response' = response /\ rung' = rung
      BY <2>4 DEF NotJudged, AtTop
    <3> QED BY <3>1 DEF Climbed, ToolCategories
  <2>5. CASE UNCHANGED ladderVars
    BY <2>5 DEF ladderVars, Climbed
  <2> QED BY <2>1, <2>2, <2>3, <2>4, <2>5 DEF LadderNext
<1> QED BY <1>1, <1>2, PTL DEF LadderSpec

\* Not every ladder before a commit gate has the verifier (tools/yantra_demo.py:94).
VerifiesCalls == "tool_call" \in ToSet(Verifiers)

\* LadderAgreesWithGate: whatever validates arguments, what a ladder with a tool-call
\* verifier passed the gate accepts if it takes it for a call, and what the ladder
\* rejects for its tool or arguments the gate refuses alike (ToolCallVerifier.check,
\* propose, validate).
THEOREM LadderAndGateAgree ==
    ASSUME VerifiesCalls PROVE LadderSpec => []LadderAgreesWithGate
<1>1. Climbed => LadderAgreesWithGate
  <2> SUFFICES ASSUME Climbed PROVE LadderAgreesWithGate
    OBVIOUS
  <2> DEFINE text == response.text
  <2>1. ASSUME verdict = "passed", Proposes(text) PROVE GateAccepts(text)
    <3>1. PICK i \in 1..Len(Verifiers) : Verifiers[i] = "tool_call"
      BY LadderAssumption DEF VerifiesCalls, ToSet
    <3>2. Checked("tool_call", response) = NoCategory
      BY <2>1, <3>1 DEF Climbed
    <3>3. ToolCallVerdict(text) = NoCategory
      BY <3>2 DEF Checked
    <3>4. GateVerdict(text) = NoCategory
      BY <2>1, <3>3 DEF ToolCallVerdict, Proposes
    <3> QED BY <2>1, <3>4 DEF GateAccepts
  <2>2. ASSUME verdict \in ToolCategories
        PROVE  \/ Proposes(text) /\ GateVerdict(text) = verdict
               \/ IsEnvelope(text) /\ ~Proposes(text)
    <3>1. ToolCallVerdict(text) = verdict /\ verdict # NoCategory
      BY <2>2 DEF Climbed, ToolCategories, NoCategory
    <3> QED BY <3>1 DEF ToolCallVerdict, Proposes
  <2> QED BY <2>1, <2>2 DEF LadderAgreesWithGate, ToolCategories
<1> QED BY <1>1, LadderInvariant, PTL
-----------------------------------------------------------------------------
\* What a decoder held to envelope_schema emits.

\* The validator is at least as strict as one level of its walk: validate_schema(),
\* which is that walk at every level, and whatever rejects more.
Walks == \A v, schema : Accepts(v, schema) => Walk(Accepts, v, schema)

\* Every tool takes an object, as ToolSpecs without a schema of their own and MCP's
\* inputSchemas do.
TakesObjects ==
    \A spec \in Tools :
       Has("type", SchemaForArguments(spec)) /\ SchemaForArguments(spec).type = {"object"}

LEMMA SetToSeqRange ==
    ASSUME NEW S, IsFiniteSet(S)
    PROVE  \A i \in DOMAIN SetToSeq(S) : SetToSeq(S)[i] \in S
<1>1. PICK f : f \in Bijection(1..Cardinality(S), S)
  BY FS_CardinalityType DEF ExistsBijection
<1>2. f \in [1..Cardinality(S) -> S] /\ IsInjective(f)
  BY <1>1 DEF Bijection, Injection
<1>3. SetToSeq(S) \in [1..Cardinality(S) -> S]
  BY <1>2 DEF SetToSeq
<1> QED BY <1>3

\* A string constant accepts that string only.
LEMMA ConstantString ==
    ASSUME NEW v, NEW name, PyEqual(v, [str |-> name])
    PROVE  v = [str |-> name]
<1>1. Number([str |-> name]) = [str |-> name]
  BY DEF Number, Is
<1>2. Number(v) = [str |-> name]
  BY <1>1 DEF PyEqual
<1>3. CASE Is("bool", v)
  <2>1. PICK n : Number(v) = [int |-> n]
    BY <1>3 DEF Number
  <2>2. DOMAIN [int |-> n] # DOMAIN [str |-> name]
    OBVIOUS
  <2> QED BY <1>2, <2>1, <2>2
<1>4. CASE ~Is("bool", v)
  BY <1>2, <1>4 DEF Number
<1> QED BY <1>3, <1>4

\* The envelope of a registry that has a tool is the call of one of them.
LEMMA EnvelopeIsACall ==
    ASSUME Walks, Tools # {}, NEW v, Accepts(v, EnvelopeSchema(Tools))
    PROVE  \E spec \in Tools : Accepts(v, JsonSchema(spec))
<1> DEFINE S == {JsonSchema(spec) : spec \in Tools}
           f == [spec \in Tools |-> JsonSchema(spec)]
<1>1. IsFiniteSet(S)
  <2>1. f \in Surjection(Tools, S)
    BY DEF Surjection
  <2> HIDE DEF f
  <2> QED BY <2>1, FS_Surjection, LadderAssumption
<1>2. EnvelopeSchema(Tools) = [oneOf |-> SetToSeq(S)]
  BY DEF EnvelopeSchema
<1> HIDE DEF S
<1>3. Walk(Accepts, v, EnvelopeSchema(Tools))
  BY DEF Walks
<1>4. \E i \in DOMAIN SetToSeq(S) : Accepts(v, SetToSeq(S)[i])
  BY <1>2, <1>3 DEF Walk, Has
<1>5. \E schema \in S : Accepts(v, schema)
  BY <1>1, <1>4, SetToSeqRange
<1> QED BY <1>5 DEF S

\* What a tool's schema accepts names the tool and has arguments for it.
LEMMA CallIsComplete ==
    ASSUME Walks, NEW spec \in Tools, NEW v, Accepts(v, JsonSchema(spec))
    PROVE  /\ Is("obj", v) /\ {"tool", "arguments"} \subseteq DOMAIN v.obj
           /\ v.obj.tool = [str |-> spec.name]
           /\ Accepts(v.obj.arguments, SchemaForArguments(spec))
<1> DEFINE schema == JsonSchema(spec)
<1>1. Walk(Accepts, v, schema)
  BY DEF Walks
<1>2. Has("type", schema) /\ schema.type = {"object"}
  BY DEF JsonSchema, Has
<1>3. Is("obj", v)
  BY <1>1, <1>2 DEF Walk, KeywordsOk, TypeOk
<1>4. ObjectOk(v, schema)
  BY <1>1, <1>3 DEF Walk, KeywordsOk
<1>5. /\ Has("required", schema) /\ schema.required = {"tool", "arguments"}
      /\ Properties(schema) = [tool |-> [const |-> [str |-> spec.name]],
                               arguments |-> SchemaForArguments(spec)]
  BY DEF JsonSchema, Has, Properties
<1> HIDE DEF schema
<1>6. {"tool", "arguments"} \subseteq DOMAIN v.obj
  BY <1>4, <1>5 DEF ObjectOk
<1>7. /\ Accepts(v.obj.tool, [const |-> [str |-> spec.name]])
      /\ Accepts(v.obj.arguments, SchemaForArguments(spec))
  BY <1>1, <1>3, <1>5, <1>6 DEF Walk
<1>8. Walk(Accepts, v.obj.tool, [const |-> [str |-> spec.name]])
  BY <1>7 DEF Walks
<1>9. PyEqual(v.obj.tool, [str |-> spec.name])
  BY <1>8 DEF Walk, KeywordsOk, Has
<1> QED BY <1>3, <1>6, <1>7, <1>9, ConstantString

\* An empty object of arguments is itself, not another empty value.
LEMMA ArgumentsAreTheObject ==
    ASSUME NEW v, "arguments" \in DOMAIN v.obj, Is("obj", v.obj.arguments)
    PROVE  Arguments(v) = v.obj.arguments
<1> DEFINE w == v.obj.arguments
<1>1. "obj" \in DOMAIN w
  BY DEF Is
<1>2. CASE Falsy(w)
  <2>1. /\ w # [null |-> TRUE] /\ w # [bool |-> FALSE] /\ w # [int |-> 0]
        /\ w # [str |-> ""] /\ w # [arr |-> <<>>]
    <3>1. /\ "obj" \notin DOMAIN [null |-> TRUE] /\ "obj" \notin DOMAIN [bool |-> FALSE]
          /\ "obj" \notin DOMAIN [int |-> 0] /\ "obj" \notin DOMAIN [str |-> ""]
          /\ "obj" \notin DOMAIN [arr |-> <<>>]
      OBVIOUS
    <3> QED BY <1>1, <3>1, Zenon
  <2>2. w = [obj |-> <<>>]
    BY <1>2, <2>1, Zenon DEF Falsy
  <2> QED BY <1>2, <2>2, Zenon DEF Arguments
<1>3. CASE ~Falsy(w)
  BY <1>3, Zenon DEF Arguments
<1> QED BY <1>2, <1>3

\* The gate accepts every call of the envelope: its schema is the registry's, and
\* names are unique in it.
LEMMA EnvelopeIsAccepted ==
    ASSUME Walks, TakesObjects, Tools # {}, NEW v, v # NotJson,
           Accepts(v, EnvelopeSchema(Tools))
    PROVE  GateAccepts(v)
<1>1. PICK spec \in Tools : Accepts(v, JsonSchema(spec))
  BY EnvelopeIsACall
<1>2. /\ Is("obj", v) /\ {"tool", "arguments"} \subseteq DOMAIN v.obj
      /\ v.obj.tool = [str |-> spec.name]
      /\ Accepts(v.obj.arguments, SchemaForArguments(spec))
  BY <1>1, CallIsComplete
<1>3. Walk(Accepts, v.obj.arguments, SchemaForArguments(spec))
  BY <1>2 DEF Walks
<1>4. Is("obj", v.obj.arguments)
  BY <1>3 DEF Walk, KeywordsOk, TakesObjects, TypeOk
<1>5. Arguments(v) = v.obj.arguments
  BY <1>2, <1>4, ArgumentsAreTheObject
<1>6. SpecOf(v) = {spec}
  <2>1. Is("str", v.obj.tool) /\ v.obj.tool.str = spec.name
    BY <1>2 DEF Is
  <2> QED BY <2>1, LadderAssumption DEF SpecOf, SpecNamed
<1> QED BY <1>2, <1>4, <1>5, <1>6 DEF GateAccepts, Proposes, IsEnvelope, GateVerdict

\* ConstrainedAccepted: for every registry that has a tool, whose tools take objects,
\* and a validator that walks schemas, a text that the envelope schema accepts is
\* a call the gate accepts, and no verifier rejects it for its form, its tool or
\* its arguments (envelope_schema, validate_schema, ToolCallVerifier, validate).
THEOREM ConstrainedIsAccepted ==
    ASSUME Walks, TakesObjects, Tools # {}
    PROVE  LadderSpec => []ConstrainedAccepted
<1>1. Climbed => ConstrainedAccepted
  <2> SUFFICES ASSUME Climbed, response # Nobody, response.text # NotJson,
                      Accepts(response.text, EnvelopeSchema(Tools))
               PROVE  /\ GateAccepts(response.text)
                      /\ verdict \notin {"SCHEMA_VIOLATION", "TOOL_NOT_FOUND", "TOOL_ARG_INVALID"}
    BY DEF ConstrainedAccepted
  <2>1. GateAccepts(response.text)
    BY EnvelopeIsAccepted
  <2>2. ToolCallVerdict(response.text) = NoCategory
    BY <2>1 DEF GateAccepts, Proposes, ToolCallVerdict
  <2> QED BY <2>1, <2>2 DEF Climbed, ToolCategories, NoCategory
<1> QED BY <1>1, LadderInvariant, PTL
=============================================================================
