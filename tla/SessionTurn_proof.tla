-------------------------- MODULE SessionTurn_proof --------------------------
(***************************************************************************)
(* Proofs about a session controller and its engine: whatever is cancelled,*)
(* raised or killed, no finished step is missing from the session file     *)
(* while the engine awaits, and the turn that settles leaves the whole run *)
(* in the tree (TurnInv).  In a session whose saves are protected and in   *)
(* which nothing raises or dies, what a turn leaves can be sent            *)
(* (ProtectedInv).  In one that makes one call at a time and may die       *)
(* anywhere, what is resumed can be sent (OneCallInv).                     *)
(***************************************************************************)
EXTENDS SessionTurn, AgentRun_proof, FiniteSetTheorems, SequenceTheorems

----------------------------------------------------------------------------
(* A history without environment blocks is what the hooks of the CLI make   *)
(* of it.                                                                   *)

\* Every set of numbers has a least one, by the finite sets below its members.
LEMMA LeastOf ==
  ASSUME NEW N \in SUBSET Nat, N # {}
  PROVE  \E n \in N : \A m \in N : n <= m
<1> DEFINE Below(n) == 1..n
           T == {Below(n) : n \in N}
<1>1. T \subseteq FiniteSubsetsOf(Nat) /\ T # {}
  <2>1. ASSUME NEW n \in N PROVE Below(n) \in FiniteSubsetsOf(Nat)
    <3>1. 1 \in Int /\ n \in Int
      OBVIOUS
    <3>2. IsFiniteSet(Below(n))
      BY <3>1, FS_Interval, Zenon
    <3>3. QED
      BY <3>2 DEF FiniteSubsetsOf
  <2>2. QED
    BY <2>1, Zenon
<1>2. PICK t \in T : \A u \in T : ~(<<u, t>> \in StrictSubsetOrdering(Nat))
  BY <1>1, WFMin, FS_StrictSubsetOrderingWellFounded
<1>3. PICK n \in N : t = Below(n)
  OBVIOUS
<1>4. ASSUME NEW m \in N, m < n PROVE FALSE
  <2>1. m \in Nat /\ n \in Nat
    OBVIOUS
  <2>2. Below(m) \subseteq Below(n) /\ n \in Below(n) /\ n \notin Below(m)
    BY ONLY <1>4, <2>1
  <2>3. Below(m) \in SUBSET Nat /\ Below(n) \in SUBSET Nat /\ Below(m) # Below(n)
    BY ONLY <2>1, <2>2
  <2>4. <<Below(m), Below(n)>> \in StrictSubsetOrdering(Nat)
    BY <2>2, <2>3 DEF StrictSubsetOrdering
  <2>5. QED
    BY <1>2, <1>3, <2>4
<1>5. QED
  BY <1>4

\* The form of induction these proofs use: a set of numbers with no least one is empty.
LEMMA NoDescent ==
  ASSUME NEW N \in SUBSET Nat, \A n \in N : \E m \in N : m < n
  PROVE  N = {}
<1>1. SUFFICES ASSUME N # {} PROVE FALSE
  OBVIOUS
<1>2. PICK n \in N : \A m \in N : n <= m
  BY <1>1, LeastOf
<1>3. QED
  BY <1>2

\* What FlattenSeq computes along the way.
Sums(q, n, g) == \A i \in 1..n : g[i] = IF i = 1 THEN q[i] ELSE g[i - 1] \o q[i]

LEMMA SumsUnique ==
  ASSUME NEW q, NEW n \in Nat, NEW f, NEW g,
         Sums(q, n, f), Sums(q, n, g)
  PROVE  \A i \in 1..n : f[i] = g[i]
<1> DEFINE Bad == {i \in 1..n : f[i] # g[i]}
<1>1. ASSUME NEW m \in Bad PROVE m - 1 \in Bad /\ m - 1 < m
  BY DEF Sums
<1>2. Bad \in SUBSET Nat
  OBVIOUS
<1>3. Bad = {}
  <2> HIDE DEF Bad
  <2>1. QED
    BY <1>1, <1>2, NoDescent
<1>4. QED
  BY <1>3

LEMMA StripNothing ==
  ASSUME NEW h \in Seq(Message), NoEnv(h)
  PROVE  StripEnv(h) = h
<1> DEFINE q == [i \in DOMAIN h |-> <<h[i]>>]
           n == Len(h)
           Solves(f) == f = [i \in 1..Len(q) |-> IF i = 1 THEN q[i] ELSE f[i - 1] \o q[i]]
           flatten == CHOOSE f : Solves(f)
           g == [i \in 1..n |-> SubSeq(h, 1, i)]
<1>1. StripEnv(h) = FlattenSeq(q)
  BY DEF StripEnv, NoEnv
<1>2. /\ n \in Nat /\ DOMAIN h = 1..n /\ Len(q) = n
      /\ \A i \in 1..n : q[i] = <<h[i]>>
  OBVIOUS
<1>3. CASE n = 0
  <2>1. q = <<>> /\ h = <<>>
    BY <1>3
  <2>2. FlattenSeq(<<>>) = <<>>
    BY DEF FlattenSeq
  <2>3. QED
    BY <1>1, <2>1, <2>2
<1>4. CASE n # 0
  <2>1. FlattenSeq(q) = flatten[n]
    BY <1>2, <1>4 DEF FlattenSeq
  <2>2. \A i \in 1..n : g[i] = IF i = 1 THEN q[i] ELSE g[i - 1] \o q[i]
    <3> TAKE i \in 1..n
    <3>1. CASE i = 1
      BY <3>1
    <3>2. CASE i # 1
      <4>1. i - 1 \in 1..n /\ g[i - 1] = SubSeq(h, 1, i - 1) /\ g[i] = SubSeq(h, 1, i)
        BY <3>2
      <4>2. SubSeq(h, 1, i) = SubSeq(h, 1, i - 1) \o <<h[i]>>
        BY <3>2
      <4>3. QED
        BY <3>2, <4>1, <4>2, <1>2
    <3>3. QED
      BY <3>1, <3>2
  <2>3. Solves(g)
    <3>1. g = [i \in 1..n |-> g[i]]
      OBVIOUS
    <3> HIDE DEF g, q
    <3>2. QED
      BY <1>2, <2>2, <3>1
  <2>4. Solves(flatten)
    BY <2>3
  <2> HIDE DEF flatten, g, q
  <2>5. Sums(q, n, flatten) /\ Sums(q, n, g)
    BY <1>2, <2>2, <2>4 DEF Sums
  <2>6. \A i \in 1..n : flatten[i] = g[i]
    <3>1. n \in Nat
      OBVIOUS
    <3> HIDE DEF n
    <3>2. QED
      BY <2>5, <3>1, SumsUnique
  <2>7. g[n] = h
    BY <1>2, <1>4 DEF g
  <2>8. QED
    BY <1>1, <1>2, <1>4, <2>1, <2>6, <2>7
<1>5. QED
  BY <1>3, <1>4

----------------------------------------------------------------------------
(* What the engine's steps do to its variables, whatever its history is.    *)

Shape == TypeOK /\ SingleFlight /\ \A c \in Callers : Locals(pc[c])

\* The generator of c, if any, is the only one, and the step leaves it at q.
Moved(c, q) ==
    /\ pc' = [pc EXCEPT ![c] = q]
    /\ pc'[c] = q
    /\ \A d \in Callers : d # c => pc[d] = "idle" /\ pc'[d] = "idle"

\* The history has grown, by messages that are no environment blocks.
Grown ==
    /\ Len(history) <= Len(history')
    /\ SubSeq(history', 1, Len(history)) = history
    /\ NoEnv(history) => NoEnv(history')

LEMMA ShapeStutter == Shape /\ UNCHANGED vars => Shape'
<1> SUFFICES ASSUME Shape, UNCHANGED vars PROVE Shape'
  OBVIOUS
<1> USE DEF vars, Shape
<1>1. TypeOK'
  BY DEF TypeOK
<1>2. SingleFlight'
  BY DEF SingleFlight, Active
<1>3. \A c \in Callers : Locals(pc[c])'
  BY DEF Locals
<1> QED
  BY <1>1, <1>2, <1>3

LEMMA ShapeMove ==
    ASSUME Shape, NEW c \in Callers, NEW q \in Phases,
           pc[c] # "idle" \/ ~running,
           pc' = [pc EXCEPT ![c] = q],
           running' = (q # "idle"),
           TypeOK', Locals(q)'
    PROVE  Shape' /\ Moved(c, q)
<1>1. \A d \in Callers : d # c => pc[d] = "idle"
  BY OthersIdle DEF Shape
<1>2. Moved(c, q)
  BY <1>1 DEF Moved, Shape, TypeOK
<1>3. SingleFlight'
  BY <1>2 DEF Moved, SingleFlight, Active
<1>4. Locals("idle")'
  BY DEF Locals
<1>5. \A d \in Callers : Locals(pc[d])'
  <2> TAKE d \in Callers
  <2>1. CASE d = c
    BY <2>1, <1>2 DEF Moved
  <2>2. CASE d # c
    <3>1. pc'[d] = "idle"
      BY <1>2, <2>2 DEF Moved
    <3> QED
      BY <3>1, <1>4
  <2> QED
    BY <2>1, <2>2
<1> QED
  BY <1>2, <1>3, <1>5 DEF Shape

\* The generator is where it was.
LEMMA ShapeStay ==
    ASSUME Shape, NEW c \in Callers, NEW h \in Seq(Message), history' = h,
           pc[c] # "idle",
           UNCHANGED <<running, pc, iter, calls, k, reply, nextId, cards, outcome, runs>>
    PROVE  Shape' /\ \A d \in Callers : d # c => pc[d] = "idle"
<1>1. TypeOK'
  BY DEF Shape, TypeOK
<1>2. SingleFlight'
  BY DEF Shape, SingleFlight, Active
<1>3. \A d \in Callers : Locals(pc[d])'
  BY DEF Shape, Locals
<1> QED
  BY <1>1, <1>2, <1>3, OthersIdle DEF Shape

LEMMA ShapeLeave ==
    ASSUME Shape, NEW c \in Callers, NEW how \in Outcomes, Leave(c, how), pc[c] # "idle",
           nextId' = nextId, runs' = runs, history' \in Seq(Message)
    PROVE  Shape' /\ Moved(c, "idle")
<1>1. TypeOK'
  <2>1. /\ pc' \in [Callers -> Phases] /\ outcome' \in [Callers -> Outcomes]
        /\ running' \in BOOLEAN /\ nextId' \in Nat /\ runs' \in 0..MaxRuns
    BY PhaseFacts DEF Shape, Leave, Goto, TypeOK
  <2>2. calls' \in Seq(Nat) /\ k' \in 0..Len(calls')
    BY DEF Leave, FreshLocals
  <2>3. iter' \in 0..MaxIterations /\ cards' \in SUBSET Nat
        /\ reply' \in {"none", "failed", "final", "calls"}
    BY EngineAssumption DEF Leave, FreshLocals
  <2> QED
    BY <2>1, <2>2, <2>3 DEF TypeOK
<1>2. Locals("idle")'
  BY DEF Locals
<1> QED
  BY <1>1, <1>2, ShapeMove, PhaseFacts DEF Leave, Goto

LEMMA PlainTexts ==
    /\ UserText.text # "env" /\ Image.text # "env"
    /\ \A id : ToolResult(id).text # "env"
    /\ \A S : Assistant(S).text # "env"
BY DEF UserText, Image, ToolResult, Assistant

LEMMA GrowNothing == Shape /\ history' = history => Grown /\ history' \in Seq(Message)
BY DEF Shape, TypeOK, Grown

LEMMA GrowBy ==
    ASSUME Shape, NEW g \in Seq(Message), NoEnv(g), history' = history \o g
    PROVE  Grown /\ history' \in Seq(Message)
<1>1. history \in Seq(Message)
  BY DEF Shape, TypeOK
<1> DEFINE h == history
<1>2. /\ history' \in Seq(Message) /\ Len(history') = Len(h) + Len(g)
      /\ Len(h) \in Nat /\ Len(g) \in Nat
      /\ DOMAIN history' = 1..(Len(h) + Len(g)) /\ DOMAIN g = 1..Len(g) /\ DOMAIN h = 1..Len(h)
      /\ SubSeq(history', 1, Len(h)) = h
  BY <1>1, ConcatPrefix
<1>3. \A i \in DOMAIN history' : history'[i] = IF i <= Len(h) THEN h[i] ELSE g[i - Len(h)]
  BY <1>1
<1>4. NoEnv(h) => NoEnv(history')
  <2> SUFFICES ASSUME NoEnv(h), NEW i \in DOMAIN history' PROVE history'[i].text # "env"
    BY DEF NoEnv
  <2>1. CASE i <= Len(h)
    BY <1>2, <1>3, <2>1 DEF NoEnv
  <2>2. CASE ~(i <= Len(h))
    <3>1. i - Len(h) \in DOMAIN g
      BY <1>2, <2>2
    <3> QED
      BY <1>3, <2>2, <3>1 DEF NoEnv
  <2> QED
    BY <2>1, <2>2
<1> QED
  BY <1>2, <1>4 DEF Grown

LEMMA GrowByOne ==
    ASSUME Shape, NEW m \in Message, m.text # "env", history' = Append(history, m)
    PROVE  Grown /\ history' \in Seq(Message)
<1>1. <<m>> \in Seq(Message) /\ NoEnv(<<m>>)
  BY DEF NoEnv
<1>2. history' = history \o <<m>>
  BY DEF Shape, TypeOK
<1> QED
  BY <1>1, <1>2, GrowBy

\* Where the call being executed comes from.
LEMMA CurrentCall ==
    ASSUME Shape, NEW c \in Callers, pc[c] \in {"gate", "started", "handler"}
    PROVE  /\ k \in 1..Len(calls) /\ calls \in Seq(Nat) /\ calls[k] \in Nat
           /\ ToolResult(calls[k]) \in Message
<1>1. k \in 1..Len(calls) /\ calls \in Seq(Nat)
  BY DEF Shape, Locals, TypeOK
<1>2. calls[k] \in Nat
  BY <1>1
<1> QED
  BY <1>1, <1>2, MessageTypes

\* The steps between two events of the engine that the session reports.
LEMMA UnreportedStep ==
    ASSUME Shape, NEW c \in Callers,
           BeginIteration(c) \/ GiveUp(c) \/ IterationFailed(c) \/ IterationFinal(c)
              \/ DispatchCalls(c) \/ InvokeHandler(c) \/ NextCall(c)
    PROVE  /\ Shape' /\ Grown
           /\ pc[c] \notin {"idle", "abandoned"}
           /\ \E q \in Phases \ {"idle", "abandoned"} : Moved(c, q)
           /\ pc'[c] \in InStep => history' = history /\ pc[c] \in InStep
<1> USE DEF InStep
<1>t. TypeOK /\ Locals(pc[c]) /\ (pc[c] # "idle" => running = TRUE)
  BY OthersIdle DEF Shape
<1>m. ASSUME NEW q \in Phases \ {"idle", "abandoned"}, pc[c] # "idle", running' = running, Goto(c, q),
             TypeOK', Locals(q)'
      PROVE  Shape' /\ Moved(c, q)
  BY <1>m, <1>t, ShapeMove DEF Goto
<1>1. CASE BeginIteration(c)
  <2>1. TypeOK'
    BY <1>1, <1>t, EngineAssumption, PhaseFacts DEF BeginIteration, Goto, TypeOK
  <2>2. Locals("before")'
    BY <1>1, <1>t DEF BeginIteration, Locals
  <2> QED
    BY <1>1, <2>1, <2>2, <1>m, PhaseFacts, GrowNothing DEF BeginIteration, Moved
<1>2. CASE GiveUp(c)
  <2>1. TypeOK'
    BY <1>2, <1>t, PhaseFacts DEF GiveUp, Goto, TypeOK, Outcomes
  <2>2. Locals("ended")'
    BY <1>2, <1>t DEF GiveUp, Locals
  <2> QED
    BY <1>2, <2>1, <2>2, <1>m, PhaseFacts, GrowNothing DEF GiveUp, Moved
<1>3. CASE IterationFailed(c)
  <2>1. TypeOK'
    BY <1>3, <1>t, PhaseFacts DEF IterationFailed, Goto, TypeOK, Outcomes
  <2>2. Locals("ended")'
    BY <1>3, <1>t DEF IterationFailed, Locals
  <2> QED
    BY <1>3, <2>1, <2>2, <1>m, PhaseFacts, GrowNothing DEF IterationFailed, Moved
<1>4. CASE IterationFinal(c)
  <2>1. Grown /\ history' \in Seq(Message)
    BY <1>4, GrowByOne, MessageTypes, PlainTexts DEF IterationFinal
  <2>2. TypeOK'
    BY <1>4, <1>t, <2>1, PhaseFacts DEF IterationFinal, Goto, TypeOK, Outcomes
  <2>3. Locals("ended")'
    BY <1>4, <1>t DEF IterationFinal, Locals
  <2> QED
    BY <1>4, <2>1, <2>2, <2>3, <1>m, PhaseFacts DEF IterationFinal, Moved
<1>5. CASE DispatchCalls(c)
  <2>1. calls \in Seq(Nat) /\ Len(calls) > 0
    BY <1>5, <1>t DEF DispatchCalls, Locals, TypeOK
  <2>2. Grown /\ history' \in Seq(Message)
    <3>1. Assistant(Ids(calls)) \in Message
      BY <2>1, IdsNat, MessageTypes
    <3> QED
      BY <1>5, <3>1, GrowByOne, PlainTexts DEF DispatchCalls
  <2>3. k' \in 0..Len(calls')
    BY <1>5, <2>1 DEF DispatchCalls
  <2>4. TypeOK'
    BY <1>5, <1>t, <2>2, <2>3, PhaseFacts DEF DispatchCalls, Goto, TypeOK
  <2>5. Locals("gate")'
    BY <1>5 DEF DispatchCalls, Locals
  <2> QED
    BY <1>5, <2>2, <2>4, <2>5, <1>m, PhaseFacts DEF DispatchCalls, Moved
<1>6. CASE InvokeHandler(c)
  <2>1. TypeOK'
    BY <1>6, <1>t, PhaseFacts DEF InvokeHandler, Goto, TypeOK
  <2>2. Locals("handler")'
    BY <1>6, <1>t DEF InvokeHandler, Locals
  <2> QED
    BY <1>6, <2>1, <2>2, <1>m, PhaseFacts, GrowNothing DEF InvokeHandler, Moved
<1>7. CASE NextCall(c)
  <2>1. k \in 1..Len(calls)
    BY <1>7, <1>t DEF NextCall, Locals, TypeOK
  <2>2. CASE k < Len(calls) /\ k' = k + 1 /\ Goto(c, "gate")
    <3>1. k' \in 0..Len(calls') /\ k' > 0
      BY <1>7, <2>1, <2>2 DEF NextCall
    <3>2. TypeOK'
      BY <1>7, <1>t, <2>2, <3>1, PhaseFacts DEF NextCall, Goto, TypeOK
    <3>3. Locals("gate")'
      BY <3>1 DEF Locals
    <3> QED
      BY <1>7, <2>2, <3>2, <3>3, <1>m, PhaseFacts, GrowNothing DEF NextCall, Moved
  <2>3. CASE k = Len(calls) /\ k' = 0 /\ Goto(c, "loop")
    <3>1. k' \in 0..Len(calls') /\ k' = 0
      BY <1>7, <2>1, <2>3 DEF NextCall
    <3>2. TypeOK'
      BY <1>7, <1>t, <2>3, <3>1, PhaseFacts DEF NextCall, Goto, TypeOK
    <3>3. Locals("loop")'
      BY <3>1 DEF Locals
    <3> QED
      BY <1>7, <2>3, <3>2, <3>3, <1>m, PhaseFacts, GrowNothing DEF NextCall, Moved
  <2> QED
    BY <1>7, <2>2, <2>3 DEF NextCall
<1> QED
  BY <1>1, <1>2, <1>3, <1>4, <1>5, <1>6, <1>7

\* The steps that end at an event the session mirrors.
LEMMA ReportedStep ==
    ASSUME Shape, NEW c \in Callers,
           LlmStreamEnds(c) \/ AnswerUnrun(c) \/ AllowCall(c) \/ AnswerCall(c)
    PROVE  /\ Shape' /\ Grown
           /\ pc[c] \notin {"idle", "abandoned"}
           /\ \E q \in {"stepped", "started", "answered"} : Moved(c, q)
<1>t. TypeOK /\ Locals(pc[c]) /\ (pc[c] # "idle" => running = TRUE)
  BY OthersIdle DEF Shape
<1>m. ASSUME NEW q \in {"stepped", "started", "answered"}, pc[c] # "idle", running' = running,
             Goto(c, q), TypeOK', Locals(q)'
      PROVE  Shape' /\ Moved(c, q)
  BY <1>m, <1>t, ShapeMove, PhaseFacts DEF Goto
<1>c. ASSUME pc[c] \in {"gate", "handler"}
      PROVE  /\ k \in 1..Len(calls) /\ ToolResult(calls[k]) \in Message
             /\ calls[k] \in Nat /\ ToolResult(calls[k]).text # "env"
  BY <1>c, CurrentCall, PlainTexts
<1>1. CASE LlmStreamEnds(c)
  <2>1. reply' \in {"none", "failed", "final", "calls"} /\ calls' \in Seq(Nat) /\ nextId' \in Nat
        /\ (reply' = "calls" => Len(calls') > 0)
    <3>1. CASE reply' \in {"failed", "final"} /\ calls' = <<>> /\ UNCHANGED nextId
      BY <3>1, <1>t DEF TypeOK
    <3>2. ASSUME NEW n \in 1..MaxCalls, reply' = "calls",
                 calls' = [i \in 1..n |-> nextId + i - 1], nextId' = nextId + n
          PROVE  calls' \in Seq(Nat) /\ nextId' \in Nat /\ Len(calls') > 0
      <4>1. n \in Nat /\ n > 0 /\ nextId \in Nat
        BY <1>t DEF TypeOK
      <4>2. \A i \in 1..n : nextId + i - 1 \in Nat
        BY <4>1
      <4>3. calls' \in Seq(Nat)
        BY ONLY <3>2, <4>1, <4>2, IsASeq
      <4>4. Len(calls') = n
        BY ONLY <3>2, <4>1, <4>3, LenProperties
      <4> QED
        BY <3>2, <4>1, <4>3, <4>4
    <3> QED
      BY <1>1, <3>1, <3>2 DEF LlmStreamEnds
  <2>2. k' = 0
    BY <1>1, <1>t DEF LlmStreamEnds, Locals
  <2>3. k' \in 0..Len(calls')
    BY <2>1, <2>2
  <2>4. TypeOK'
    BY <1>1, <1>t, <2>1, <2>3, PhaseFacts DEF LlmStreamEnds, Goto, TypeOK
  <2>5. Locals("stepped")'
    BY <2>1, <2>2 DEF Locals
  <2> QED
    BY <1>1, <2>4, <2>5, <1>m, GrowNothing DEF LlmStreamEnds
<1>2. CASE AnswerUnrun(c)
  <2>1. Grown /\ history' \in Seq(Message)
    BY <1>2, <1>c, GrowByOne DEF AnswerUnrun
  <2>2. TypeOK'
    BY <1>2, <1>t, <2>1, PhaseFacts DEF AnswerUnrun, Goto, TypeOK
  <2>3. Locals("answered")'
    BY <1>2, <1>t DEF AnswerUnrun, Locals
  <2> QED
    BY <1>2, <2>1, <2>2, <2>3, <1>m DEF AnswerUnrun
<1>3. CASE AllowCall(c)
  <2>1. cards' \in SUBSET Nat
    BY <1>3, <1>c, <1>t DEF AllowCall, TypeOK
  <2>2. TypeOK'
    BY <1>3, <1>t, <2>1, PhaseFacts DEF AllowCall, Goto, TypeOK
  <2>3. Locals("started")'
    BY <1>3, <1>t DEF AllowCall, Locals
  <2> QED
    BY <1>3, <2>2, <2>3, <1>m, GrowNothing DEF AllowCall
<1>4. CASE AnswerCall(c)
  <2> DEFINE m == ToolResult(calls[k])
  <2>1. m \in Message /\ m.text # "env" /\ Image \in Message /\ Image.text # "env"
    BY <1>4, <1>c, MessageTypes, PlainTexts DEF AnswerCall
  <2>2. history' \in {Append(history, m), Append(Append(history, m), Image)}
    BY <1>4 DEF AnswerCall
  <2> HIDE DEF m
  <2>3. Grown /\ history' \in Seq(Message)
    <3>1. CASE history' = Append(history, m)
      BY <2>1, <3>1, GrowByOne
    <3>2. CASE history' = Append(Append(history, m), Image)
      <4>1. <<m, Image>> \in Seq(Message) /\ NoEnv(<<m, Image>>)
        BY <2>1 DEF NoEnv
      <4>2. history' = history \o <<m, Image>>
        <5>1. history \in Seq(Message)
          BY <1>t DEF TypeOK
        <5>2. Append(Append(history, m), Image) = history \o <<m, Image>>
          BY ONLY <2>1, <5>1
        <5> QED
          BY <3>2, <5>2
      <4> QED
        BY <4>1, <4>2, GrowBy
    <3> QED
      BY <2>2, <3>1, <3>2
  <2>4. TypeOK'
    BY <1>4, <1>t, <2>3, PhaseFacts DEF AnswerCall, Goto, TypeOK
  <2>5. Locals("answered")'
    BY <1>4, <1>t DEF AnswerCall, Locals
  <2> QED
    BY <1>4, <2>3, <2>4, <2>5, <1>m DEF AnswerCall
<1> QED
  BY <1>1, <1>2, <1>3, <1>4

\* The ways out of a run.
LEMMA LeavingStep ==
    ASSUME Shape, NEW c \in Callers, Finish(c) \/ Raise(c) \/ Finalize(c) \/ Cancel(c)
    PROVE  /\ Shape' /\ Grown
           /\ Moved(c, "idle")
           /\ pc[c] # "idle"
           /\ ~Cancel(c) => history' = history
<1>t. TypeOK /\ outcome[c] \in Outcomes /\ history \in Seq(Message)
  BY DEF Shape, TypeOK
<1>1. CASE Finish(c)
  BY <1>1, <1>t, ShapeLeave, GrowNothing DEF Finish
<1>2. CASE Raise(c)
  BY <1>2, <1>t, ShapeLeave, GrowNothing DEF Raise, Outcomes
<1>3. CASE Finalize(c)
  BY <1>3, <1>t, ShapeLeave, GrowNothing DEF Finalize
<1>4. CASE Cancel(c)
  <2>1. Grown /\ history' \in Seq(Message)
    <3>1. CASE pc[c] \in {"gate", "handler"}
      <4> DEFINE p == SubSeq(calls, k, Len(calls))
                 g == [i \in 1..Len(p) |-> ToolResult(p[i])]
      <4>1. k \in 1..Len(calls) /\ calls \in Seq(Nat)
        BY <3>1, CurrentCall
      <4>2. p \in Seq(Nat)
        BY <4>1
      <4>3. history' = history \o g
        BY <1>4, <3>1 DEF Cancel, Backfill
      <4> HIDE DEF p
      <4>4. g \in Seq(Message) /\ NoEnv(g)
        BY <4>2, MessageTypes, PlainTexts DEF NoEnv
      <4> HIDE DEF g
      <4> QED
        BY <4>3, <4>4, GrowBy
    <3>2. CASE pc[c] \notin {"gate", "handler"}
      BY <1>4, <3>2, GrowNothing DEF Cancel
    <3> QED
      BY <3>1, <3>2
  <2> QED
    BY <1>4, <2>1, ShapeLeave DEF Cancel, Awaits, Outcomes
<1> QED
  BY <1>1, <1>2, <1>3, <1>4

LEMMA AbandonStep ==
    ASSUME Shape, NEW c \in Callers, Abandon(c)
    PROVE  /\ Shape' /\ history' = history
           /\ Moved(c, "abandoned")
           /\ pc[c] \notin {"idle", "abandoned"}
<1>1. TypeOK'
  BY PhaseFacts DEF Shape, Abandon, Goto, TypeOK, Outcomes
<1>2. Locals("abandoned")'
  BY DEF Locals
<1>3. pc[c] \notin {"idle", "abandoned"} /\ running = TRUE
  BY OthersIdle DEF Abandon, Yields, Shape
<1> QED
  BY <1>1, <1>2, <1>3, ShapeMove, PhaseFacts DEF Abandon, Goto

LEMMA StartStep ==
    ASSUME Shape, NEW c \in Callers, NEW h \in Seq(Message), StartWith(c, h)
    PROVE  Shape' /\ history' = h /\ Moved(c, "loop")
<1>1. TypeOK'
  BY EngineAssumption, PhaseFacts DEF Shape, StartWith, Goto, FreshLocals, TypeOK, Outcomes
<1>2. Locals("loop")'
  BY DEF StartWith, FreshLocals, Locals
<1> QED
  BY <1>1, <1>2, ShapeMove, PhaseFacts DEF StartWith, Goto

LEMMA HooksStep ==
    ASSUME Shape, NEW c \in Callers, NEW h \in Seq(Message), HooksReturn(c, h)
    PROVE  Shape' /\ history' = h /\ Moved(c, "llm") /\ pc[c] = "before"
<1>1. TypeOK'
  BY PhaseFacts DEF Shape, HooksReturn, Goto, TypeOK
<1>2. Locals("llm")'
  BY DEF Shape, HooksReturn, Locals
<1>3. pc[c] = "before" /\ running = TRUE
  BY OthersIdle DEF HooksReturn, Shape
<1> QED
  BY <1>1, <1>2, <1>3, ShapeMove, PhaseFacts DEF HooksReturn, Goto

\* A cut leaves a history that is a banner and what was kept.
LEMMA CutTypes ==
    ASSUME NEW h \in Seq(Message), NEW cut \in 1..Len(h)
    PROVE  /\ CutAt(h, cut) \in Seq(Message) /\ CutAt(h, cut) # <<>>
           /\ NoEnv(h) => NoEnv(CutAt(h, cut))
<1> DEFINE s == SubSeq(h, cut, Len(h))
<1>1. /\ s \in Seq(Message) /\ Len(s) = Len(h) - cut + 1
      /\ \A i \in 1..(Len(h) - cut + 1) : s[i] = h[cut + i - 1] /\ cut + i - 1 \in DOMAIN h
  OBVIOUS
<1>2. UserText \in Message /\ UserText.text # "env"
  BY MessageTypes, PlainTexts
<1>3. CutAt(h, cut) = <<UserText>> \o s
  BY DEF CutAt
<1>4. NoEnv(h) => NoEnv(s)
  BY <1>1 DEF NoEnv
<1> HIDE DEF s
<1>5. <<UserText>> \o s \in Seq(Message) /\ Len(<<UserText>> \o s) = 1 + Len(s) /\ Len(s) \in Nat
  <2>1. <<UserText>> \in Seq(Message) /\ Len(<<UserText>>) = 1
    BY <1>2
  <2> QED
    BY <1>1, <2>1, ConcatProperties, LenProperties
<1>6. \A i \in 1..(1 + Len(s)) :
         (<<UserText>> \o s)[i] = IF i = 1 THEN UserText ELSE s[i - 1]
  BY <1>1, <1>2
<1>7. NoEnv(s) => NoEnv(<<UserText>> \o s)
  <2> SUFFICES ASSUME NoEnv(s), NEW i \in 1..(1 + Len(s))
               PROVE  (<<UserText>> \o s)[i].text # "env"
    BY <1>5 DEF NoEnv
  <2>1. i # 1 => i - 1 \in DOMAIN s
    BY <1>1, <1>5
  <2> QED
    BY <1>2, <1>6, <2>1 DEF NoEnv
<1>8. <<UserText>> \o s # <<>>
  BY <1>5
<1> QED
  BY <1>3, <1>4, <1>5, <1>7, <1>8

\* safe_cut_index stops at the last message, from the one it starts at backwards, that holds
\* no results, or at the first.
LEMMA SafeCut ==
    ASSUME NEW h \in Seq(Message), NEW n \in DOMAIN h
    PROVE  LET start == IF n < Len(h) THEN Len(h) - n + 1 ELSE 1
               cut == SafeCutIndex(h, n)
           IN  /\ start \in 1..Len(h) /\ cut \in 1..start
               /\ cut = 1 \/ h[cut].answers = {}
               /\ \A j \in (cut + 1)..start : h[j].answers # {}
<1> DEFINE start == IF n < Len(h) THEN Len(h) - n + 1 ELSE 1
           Stop(m) == m = 1 \/ h[m].answers = {}
           Steps == {s \in 0..(start - 1) : Stop(start - s)}
           Fits(m) == Stop(m) /\ \A j \in (m + 1)..start : h[j].answers # {}
<1>1. start \in 1..Len(h)
  OBVIOUS
<1> HIDE DEF start
<1>2. Steps \in SUBSET Nat /\ start - 1 \in Steps
  <2>1. start - 1 \in 0..(start - 1) /\ start - (start - 1) = 1
    BY <1>1
  <2> QED
    BY <2>1
<1>3. PICK s \in Steps : \A t \in Steps : s <= t
  <2> HIDE DEF Steps
  <2> QED
    BY <1>2, LeastOf
<1>4. start - s \in 1..start /\ Stop(start - s)
  BY <1>1
<1>5. \A j \in (start - s + 1)..start : h[j].answers # {}
  <2> SUFFICES ASSUME NEW j \in (start - s + 1)..start, h[j].answers = {} PROVE FALSE
    OBVIOUS
  <2>1. start - j \in 0..(start - 1) /\ start - (start - j) = j /\ start - j < s
    BY <1>1
  <2>2. start - j \in Steps
    BY <2>1
  <2> QED
    BY <1>3, <2>1, <2>2
<1>6. Fits(start - s)
  BY <1>4, <1>5
<1>7. SafeCutIndex(h, n) = CHOOSE m \in 1..start : Fits(m)
  BY DEF SafeCutIndex, start
<1> HIDE DEF Fits
<1>8. SafeCutIndex(h, n) \in 1..start /\ Fits(SafeCutIndex(h, n))
  BY <1>4, <1>6, <1>7
<1> QED
  BY <1>1, <1>8 DEF start, Fits

LEMMA SafeCutInRange ==
    ASSUME NEW h \in Seq(Message), NEW n \in DOMAIN h
    PROVE  SafeCutIndex(h, n) \in 1..Len(h)
<1> DEFINE start == IF n < Len(h) THEN Len(h) - n + 1 ELSE 1
<1>1. start \in 1..Len(h) /\ SafeCutIndex(h, n) \in 1..start
  BY SafeCut
<1> HIDE DEF start
<1> QED
  BY <1>1

LEMMA CutStep ==
    ASSUME Shape, NEW c \in Callers, NEW cut \in 1..Len(history), CompactTo(c, cut)
    PROVE  /\ Shape' /\ history' = CutAt(history, cut) /\ pc' = pc
           /\ pc[c] \notin {"idle", "abandoned"}
           /\ \A d \in Callers : d # c => pc[d] = "idle"
<1>1. history \in Seq(Message)
  BY DEF Shape, TypeOK
<1>2. CutAt(history, cut) \in Seq(Message)
  BY <1>1, CutTypes
<1> QED
  BY <1>2, ShapeStay DEF CompactTo

----------------------------------------------------------------------------
(* The first invariant: every step of a session keeps it, whatever goes     *)
(* wrong, when the session file holds no environment blocks.                *)

LEMMA PrefixOfPrefix ==
    ASSUME NEW h \in Seq(Message), NEW g \in Seq(Message), NEW n \in Nat,
           n <= Len(h), Len(h) <= Len(g), SubSeq(g, 1, Len(h)) = h
    PROVE  SubSeq(g, 1, n) = SubSeq(h, 1, n)
<1>1. \A i \in 1..n : h[i] = g[i]
  <2> TAKE i \in 1..n
  <2>1. i \in 1..Len(h)
    OBVIOUS
  <2>2. SubSeq(g, 1, Len(h))[i] = g[i]
    BY <2>1
  <2> QED
    BY <2>2
<1>2. /\ SubSeq(g, 1, n) = [i \in 1..n |-> g[i]]
      /\ SubSeq(h, 1, n) = [i \in 1..n |-> h[i]]
  OBVIOUS
<1> QED
  BY <1>1, <1>2

LEMMA TurnShape == TurnInv => Shape
BY DEF TurnInv, SessionTypeOK, Driven, Shape

\* The mirror makes the active path the history it is given.
LEMMA MirrorWhole ==
    ASSUME NEW h \in Seq(Message), cursor \in Seq(Message), latest = cursor, synced \in Nat,
           compacted \in BOOLEAN,
           ~compacted => synced = Len(cursor) /\ synced <= Len(h) /\ SubSeq(h, 1, synced) = cursor,
           Mirror(h)
    PROVE  cursor' = h /\ latest' = h /\ synced' = Len(h) /\ compacted' = FALSE
<1>1. CASE compacted
  BY <1>1 DEF Mirror, Rebase, AppendTail, NothingNew, Extend
<1>2. CASE ~compacted /\ Len(h) > synced
  <2>1. AppendTail(h)
    <3>1. ~Rebase(h)
      BY <1>2 DEF Rebase
    <3>2. ~NothingNew(h)
      <4>1. Len(h) \in Nat
        OBVIOUS
      <4> QED
        BY <1>2, <4>1 DEF NothingNew
    <3> QED
      BY <3>1, <3>2 DEF Mirror
  <2>2. cursor' = cursor \o SubSeq(h, synced + 1, Len(h)) /\ latest' = cursor'
        /\ synced' = Len(h) /\ compacted' = FALSE
    BY <1>2, <2>1 DEF AppendTail, Extend
  <2>3. cursor = SubSeq(h, 1, synced)
    BY <1>2
  <2>4. SubSeq(h, 1, synced) \o SubSeq(h, synced + 1, Len(h)) = SubSeq(h, 1, Len(h))
    <3>1. /\ 1 \in 1..(Len(h) + 1) /\ synced \in (1 - 1)..Len(h) /\ Len(h) \in synced..Len(h)
      BY <1>2
    <3> QED
      BY <3>1, ConcatAdjacentSubSeq
  <2>5. SubSeq(h, 1, Len(h)) = h
    BY SubSeqFull
  <2> QED
    BY ONLY <2>2, <2>3, <2>4, <2>5
<1>3. CASE ~compacted /\ ~(Len(h) > synced)
  <2>1. UNCHANGED <<cursor, latest, synced, compacted>>
    BY <1>3 DEF Mirror, Rebase, AppendTail, NothingNew
  <2>2. synced = Len(h) /\ SubSeq(h, 1, Len(h)) = h
    BY <1>3
  <2> QED
    BY <1>3, <2>1, <2>2
<1> QED
  BY <1>1, <1>2, <1>3

LEMMA MirrorGrown ==
    ASSUME TurnInv, Shape', Grown, turn \in {"running", "saving"}, Mirror(history')
    PROVE  cursor' = history' /\ latest' = history' /\ synced' = Len(history') /\ compacted' = FALSE
<1>1. /\ history \in Seq(Message) /\ history' \in Seq(Message)
      /\ cursor \in Seq(Message) /\ latest = cursor /\ synced \in Nat /\ compacted \in BOOLEAN
  BY DEF TurnInv, SessionTypeOK, Shape, TypeOK, Newest
<1>2. ~compacted => synced = Len(cursor) /\ synced <= Len(history) /\ SubSeq(history, 1, synced) = cursor
  BY DEF TurnInv, Mirrored
<1>3. Len(history) <= Len(history') /\ SubSeq(history', 1, Len(history)) = history
  BY DEF Grown
<1>4. ~compacted => synced <= Len(history') /\ SubSeq(history', 1, synced) = cursor
  <2>1. Len(history) \in Nat /\ Len(history') \in Nat
    BY <1>1
  <2> QED
    BY <1>1, <1>2, <1>3, <2>1, PrefixOfPrefix
<1> QED
  BY <1>1, <1>2, <1>4, MirrorWhole

LEMMA NonEmpty ==
    ASSUME NEW h \in Seq(Message), h # <<>>
    PROVE  /\ Len(h) > 0
           /\ \A g \in Seq(Message) : Len(h) <= Len(g) => g # <<>>
OBVIOUS

\* The saves.
LEMMA SaveTurn ==
    ASSUME TurnInv, Opened \/ Checkpointed \/ Settled \/ Rewritten \/ CancelSave
    PROVE  TurnInv'
<1>1. /\ UNCHANGED <<vars, treeVars, streaming, status, counters>>
      /\ disk' \in {disk, Snapshot}
      /\ turn \notin {"off", "idle"}
      /\ \/ turn = "opening" /\ turn' = "preparing" /\ disk' = Snapshot
         \/ turn = "saving" /\ turn' = "running" /\ disk' = Snapshot
         \/ turn \in {"settling", "rewriting"} /\ turn' = "idle"
  BY DEF Opened, Checkpointed, Settled, Rewritten, CancelSave, Save
<1>2. Shape' /\ pc' = pc /\ history' = history
  BY <1>1, TurnShape, ShapeStutter DEF vars
<1>3. Snapshot \in [path : Seq(Message), status : Statuses] /\ Snapshot.path = latest
      /\ latest # <<>> /\ Snapshot.status \in Statuses
  BY <1>1 DEF TurnInv, SessionTypeOK, Newest, Snapshot
<1>4. SessionTypeOK'
  BY <1>1, <1>2, <1>3 DEF TurnInv, SessionTypeOK, Shape, TurnPhases, treeVars, counters
<1>5. Clean'
  BY <1>1, <1>2, <1>3 DEF TurnInv, Clean, treeVars, NoEnv
<1>6. Driven'
  BY <1>1, <1>2 DEF TurnInv, Driven, Shape
<1>7. Newest'
  BY <1>1, <1>3 DEF TurnInv, Newest, treeVars, NoFile
<1>8. Mirrored'
  BY <1>1, <1>2 DEF TurnInv, Mirrored, treeVars
<1> QED
  BY <1>2, <1>4, <1>5, <1>6, <1>7, <1>8 DEF TurnInv, Shape

\* A generator moves and the session is not told.
LEMMA EngineTurn ==
    ASSUME TurnInv, Shape', UNCHANGED sessionVars, turn = "running",
           NEW c \in Callers, NEW q \in Phases \ {"idle", "abandoned"}, Moved(c, q),
           NoEnv(history) => NoEnv(history'),
           history' # <<>>,
           ~compacted => /\ synced <= Len(history') /\ SubSeq(history', 1, synced) = cursor
                         /\ (q \in InStep => cursor = history')
    PROVE  TurnInv'
<1>1. UNCHANGED <<turn, cursor, latest, synced, compacted, streaming, status, disk, turns, crashes, moves>>
  BY DEF sessionVars, treeVars, counters
<1>2. SessionTypeOK'
  BY <1>1 DEF TurnInv, SessionTypeOK, Shape
<1>3. Clean'
  BY <1>1 DEF TurnInv, Clean, NoEnv
<1>4. Driven'
  BY <1>1 DEF TurnInv, Driven, Shape, Moved
<1>5. Newest'
  BY <1>1 DEF TurnInv, Newest
<1>6. Mirrored'
  <2>1. \A d \in Callers : pc'[d] \in InStep => q \in InStep
    BY DEF Moved, InStep
  <2> QED
    BY <1>1, <2>1 DEF TurnInv, Mirrored
<1> QED
  BY <1>2, <1>3, <1>4, <1>5, <1>6 DEF TurnInv, Shape

LEMMA UnreportedTurn ==
    ASSUME TurnInv, NEW c \in Callers, Unreported(c)
    PROVE  TurnInv'
<1>1. turn = "running" /\ UNCHANGED sessionVars
  BY DEF Unreported
<1>2. /\ Shape' /\ Grown /\ pc[c] \notin {"idle", "abandoned"}
      /\ pc'[c] \in InStep => history' = history /\ pc[c] \in InStep
  BY TurnShape, UnreportedStep DEF Unreported
<1>3. PICK q \in Phases \ {"idle", "abandoned"} : Moved(c, q)
  BY TurnShape, UnreportedStep DEF Unreported
<1>4. history \in Seq(Message) /\ history' \in Seq(Message) /\ synced \in Nat
  BY <1>2 DEF TurnInv, SessionTypeOK, Shape, TypeOK
<1>5. history' # <<>>
  BY <1>1, <1>2, <1>4, NonEmpty DEF TurnInv, Mirrored, Grown
<1>6. ~compacted => synced <= Len(history') /\ SubSeq(history', 1, synced) = cursor
  <2>1. Len(history) \in Nat /\ Len(history') \in Nat
    BY <1>4
  <2>2. ~compacted => synced <= Len(history) /\ SubSeq(history, 1, synced) = cursor
    BY <1>1 DEF TurnInv, Mirrored
  <2> QED
    BY <1>2, <1>4, <2>1, <2>2, PrefixOfPrefix DEF Grown
<1>7. ~compacted /\ q \in InStep => cursor = history'
  BY <1>1, <1>2, <1>3 DEF TurnInv, Mirrored, Moved
<1> QED
  BY <1>1, <1>2, <1>3, <1>5, <1>6, <1>7, EngineTurn DEF Grown

LEMMA HooksTurn ==
    ASSUME TurnInv, NEW c \in Callers, CliHooks(c)
    PROVE  TurnInv'
<1>1. turn = "running" /\ UNCHANGED sessionVars /\ history \in Seq(Message) /\ NoEnv(history)
  BY DEF CliHooks, TurnInv, SessionTypeOK, TypeOK, Clean
<1>2. StripEnv(history) = history
  BY <1>1, StripNothing
<1>3. Shape' /\ history' = history /\ Moved(c, "llm") /\ pc[c] = "before"
  BY <1>1, <1>2, TurnShape, HooksStep DEF CliHooks
<1>4. "llm" \in Phases \ {"idle", "abandoned"}
  BY PhaseFacts
<1>5. history' # <<>> /\ (~compacted => /\ synced <= Len(history') /\ SubSeq(history', 1, synced) = cursor
                                        /\ ("llm" \in InStep => cursor = history'))
  BY <1>1, <1>3 DEF TurnInv, Mirrored, InStep
<1> QED
  BY <1>1, <1>3, <1>4, <1>5, EngineTurn

LEMMA ReportedTurn ==
    ASSUME TurnInv, NEW c \in Callers, Reported(c)
    PROVE  TurnInv'
<1>1. turn = "running" /\ UNCHANGED <<streaming, status, disk, counters>>
  BY DEF Reported
<1>2. /\ Shape' /\ Grown /\ pc[c] \notin {"idle", "abandoned"}
      /\ \E q \in {"stepped", "started", "answered"} : Moved(c, q)
  BY TurnShape, ReportedStep DEF Reported
<1>3. /\ Mirror(history')
      /\ \/ turn' = "saving"
         \/ turn' = "running" /\ UNCHANGED <<cursor, latest, synced, compacted>>
  BY <1>1 DEF Reported, Mirror, NothingNew
<1>4. cursor' = history' /\ latest' = history' /\ synced' = Len(history') /\ compacted' = FALSE
  BY <1>1, <1>2, <1>3, MirrorGrown
<1>5. history \in Seq(Message) /\ history' \in Seq(Message)
  BY <1>2 DEF TurnInv, SessionTypeOK, Shape, TypeOK
<1>6. /\ history' # <<>> /\ Len(history') \in Nat
      /\ SubSeq(history', 1, Len(history')) = history'
  BY <1>1, <1>2, <1>5, NonEmpty DEF TurnInv, Mirrored, Grown
<1>7. SessionTypeOK'
  BY <1>1, <1>2, <1>3, <1>4, <1>5, <1>6 DEF TurnInv, SessionTypeOK, Shape, TurnPhases, counters
<1>8. Clean'
  BY <1>1, <1>2, <1>4 DEF TurnInv, Clean, Grown, NoEnv
<1>9. Driven'
  BY <1>2, <1>3 DEF TurnInv, Driven, Shape, Moved
<1>10. Newest'
  BY <1>1, <1>3, <1>4, <1>6 DEF TurnInv, Newest
<1>11. Mirrored'
  BY <1>1, <1>3, <1>4, <1>6 DEF TurnInv, Mirrored
<1> QED
  BY <1>2, <1>7, <1>8, <1>9, <1>10, <1>11 DEF TurnInv, Shape

\* The end of a run reaches the tree as it is, and the turn settles.
LEMMA SettlingTurn ==
    ASSUME TurnInv, Shape', Grown, turn \in {"running", "saving"}, Mirror(history'),
           status' \in {"completed", "aborted"}, turn' = "settling",
           UNCHANGED <<streaming, disk, counters>>,
           NEW c \in Callers, NEW q \in {"idle", "abandoned"}, Moved(c, q)
    PROVE  TurnInv'
<1>1. cursor' = history' /\ latest' = history' /\ synced' = Len(history') /\ compacted' = FALSE
  BY MirrorGrown
<1>2. history \in Seq(Message) /\ history' \in Seq(Message)
  BY DEF TurnInv, SessionTypeOK, Shape, TypeOK
<1>3. history' # <<>> /\ Len(history') \in Nat
  BY <1>2, NonEmpty DEF TurnInv, Mirrored, Grown
<1>4. SessionTypeOK'
  BY <1>1, <1>2, <1>3 DEF TurnInv, SessionTypeOK, Shape, TurnPhases, Statuses, counters
<1>5. Clean'
  BY <1>1 DEF TurnInv, Clean, Grown, NoEnv
<1>6. Driven'
  BY DEF Driven, Shape, Moved
<1>7. Newest'
  BY <1>1, <1>3 DEF TurnInv, Newest
<1>8. Mirrored'
  BY <1>1 DEF Mirrored
<1> QED
  BY <1>4, <1>5, <1>6, <1>7, <1>8 DEF TurnInv, Shape

LEMMA EndsTurn ==
    ASSUME TurnInv, NEW c \in Callers, StreamEnds(c) \/ CancelStream(c) \/ CancelCheckpoint(c)
    PROVE  TurnInv'
<1>1. CASE StreamEnds(c)
  <2>1. Shape' /\ Grown /\ Moved(c, "idle") /\ history' = history
    BY <1>1, TurnShape, LeavingStep DEF StreamEnds, Finish, Cancel, Awaits
  <2>2. /\ turn = "running" /\ Mirror(history') /\ turn' = "settling"
        /\ status' \in {"completed", "aborted"} /\ UNCHANGED <<streaming, disk, counters>>
    BY <1>1, <2>1 DEF StreamEnds, Mirror, Rebase, AppendTail, NothingNew
  <2> QED
    BY <2>1, <2>2, SettlingTurn
<1>2. CASE CancelStream(c)
  <2>1. Shape' /\ Grown /\ Moved(c, "idle")
    BY <1>2, TurnShape, LeavingStep DEF CancelStream
  <2>2. /\ turn = "running" /\ Mirror(history') /\ turn' = "settling"
        /\ status' \in {"completed", "aborted"} /\ UNCHANGED <<streaming, disk, counters>>
    BY <1>2 DEF CancelStream, Abort, TurnInv, Mirrored
  <2> QED
    BY <2>1, <2>2, SettlingTurn
<1>3. CASE CancelCheckpoint(c)
  <2>1. Shape' /\ Grown /\ Moved(c, "abandoned")
    BY <1>3, TurnShape, AbandonStep, GrowNothing DEF CancelCheckpoint
  <2>2. /\ turn = "saving" /\ Mirror(history') /\ turn' = "settling"
        /\ status' \in {"completed", "aborted"} /\ UNCHANGED <<streaming, disk, counters>>
    BY <1>3 DEF CancelCheckpoint, Abort, TurnInv, Mirrored
  <2> QED
    BY <2>1, <2>2, SettlingTurn
<1> QED
  BY <1>1, <1>2, <1>3

LEMMA CancelBeforeTurn ==
    ASSUME TurnInv, CancelBeforeStream
    PROVE  TurnInv'
<1>1. /\ turn \in {"preparing", "opening"} /\ UNCHANGED vars
      /\ status' = "aborted" /\ turn' = "settling" /\ UNCHANGED <<streaming, disk, counters>>
      /\ UNCHANGED treeVars /\ ~streaming
  BY DEF CancelBeforeStream, Abort, TurnInv, Mirrored
<1>2. Shape' /\ pc' = pc /\ history' = history
  BY <1>1, TurnShape, ShapeStutter DEF vars
<1>3. SessionTypeOK'
  BY <1>1, <1>2 DEF TurnInv, SessionTypeOK, Shape, TurnPhases, Statuses, treeVars, counters
<1>4. Clean'
  BY <1>1, <1>2 DEF TurnInv, Clean, treeVars, NoEnv
<1>5. Driven'
  BY <1>1, <1>2 DEF TurnInv, Driven, Shape
<1>6. Newest'
  BY <1>1 DEF TurnInv, Newest, treeVars
<1>7. Mirrored'
  BY <1>1 DEF Mirrored
<1> QED
  BY <1>2, <1>3, <1>4, <1>5, <1>6, <1>7 DEF TurnInv, Shape

\* A turn that is left as it is.
LEMMA LeftTurn ==
    ASSUME TurnInv, Shape', history' = history, turn' = "idle",
           UNCHANGED <<treeVars, streaming, status, disk, counters>>,
           \A c \in Callers : pc'[c] \in {"idle", "abandoned"}
    PROVE  TurnInv'
<1>1. SessionTypeOK'
  BY DEF TurnInv, SessionTypeOK, Shape, TurnPhases, treeVars, counters
<1>2. Clean'
  BY DEF TurnInv, Clean, treeVars, NoEnv
<1>3. Driven'
  BY DEF Driven, Shape
<1>4. Newest'
  BY DEF TurnInv, Newest, treeVars
<1>5. Mirrored'
  BY DEF Mirrored
<1> QED
  BY <1>1, <1>2, <1>3, <1>4, <1>5 DEF TurnInv, Shape

LEMMA RaisesTurn ==
    ASSUME TurnInv, NEW c \in Callers, HookRaises(c) \/ SaveRaises(c)
    PROVE  TurnInv'
<1>1. turn' = "idle" /\ UNCHANGED <<treeVars, streaming, status, disk, counters>>
  BY DEF HookRaises, SaveRaises
<1>2. CASE HookRaises(c)
  <2>1. Shape' /\ history' = history /\ Moved(c, "idle")
    BY <1>2, TurnShape, LeavingStep DEF HookRaises, Raise, Cancel, Leave, FreshLocals
  <2>2. \A d \in Callers : pc'[d] \in {"idle", "abandoned"}
    BY <2>1 DEF Moved
  <2> QED
    BY <1>1, <2>1, <2>2, LeftTurn
<1>3. CASE SaveRaises(c) /\ turn = "saving"
  <2>1. Shape' /\ history' = history /\ Moved(c, "abandoned")
    BY <1>3, TurnShape, AbandonStep DEF SaveRaises
  <2>2. \A d \in Callers : pc'[d] \in {"idle", "abandoned"}
    BY <2>1 DEF Moved
  <2> QED
    BY <1>1, <2>1, <2>2, LeftTurn
<1>4. CASE SaveRaises(c) /\ turn # "saving"
  <2>1. turn \in {"opening", "settling", "rewriting"} /\ UNCHANGED vars
    BY <1>4 DEF SaveRaises
  <2>2. Shape' /\ history' = history /\ pc' = pc
    BY <2>1, TurnShape, ShapeStutter DEF vars
  <2>3. \A d \in Callers : pc'[d] \in {"idle", "abandoned"}
    BY <2>1, <2>2 DEF TurnInv, Driven
  <2> QED
    BY <1>1, <2>2, <2>3, LeftTurn
<1> QED
  BY <1>2, <1>3, <1>4

LEMMA CollectTurn ==
    ASSUME TurnInv, NEW c \in Callers, Collect(c)
    PROVE  TurnInv'
<1>1. UNCHANGED <<turn, cursor, latest, synced, compacted, streaming, status, disk, turns, crashes, moves>>
  BY DEF Collect, sessionVars, treeVars, counters
<1>2. Shape' /\ Moved(c, "idle") /\ history' = history
  BY TurnShape, LeavingStep DEF Collect, Finalize, Cancel, Awaits
<1>3. SessionTypeOK'
  BY <1>1, <1>2 DEF TurnInv, SessionTypeOK, Shape
<1>4. Clean'
  BY <1>1, <1>2 DEF TurnInv, Clean, NoEnv
<1>5. Driven'
  BY <1>1, <1>2 DEF TurnInv, Driven, Shape, Moved
<1>6. Newest'
  BY <1>1 DEF TurnInv, Newest
<1>7. Mirrored'
  BY <1>1, <1>2 DEF TurnInv, Mirrored, Moved, InStep
<1> QED
  BY <1>2, <1>3, <1>4, <1>5, <1>6, <1>7 DEF TurnInv, Shape

LEMMA StreamTurn ==
    ASSUME TurnInv, NEW c \in Callers, Stream(c)
    PROVE  TurnInv'
<1>1. /\ turn = "preparing" /\ turn' = "running" /\ streaming' = TRUE
      /\ UNCHANGED <<cursor, latest, synced, compacted, status, disk, turns, crashes, moves>>
      /\ cursor \in Seq(Message) /\ cursor = latest /\ cursor # <<>>
  BY DEF Stream, treeVars, counters, TurnInv, SessionTypeOK, Newest
<1>2. Shape' /\ history' = cursor /\ Moved(c, "loop")
  BY <1>1, TurnShape, StartStep DEF Stream
<1>3. SessionTypeOK'
  BY <1>1, <1>2 DEF TurnInv, SessionTypeOK, Shape, TurnPhases
<1>4. Clean'
  BY <1>1, <1>2 DEF TurnInv, Clean, NoEnv
<1>5. Driven'
  BY <1>1, <1>2 DEF TurnInv, Driven, Shape, Moved
<1>6. Newest'
  BY <1>1 DEF TurnInv, Newest
<1>7. Mirrored'
  <2>1. ~compacted /\ synced = Len(cursor) /\ SubSeq(cursor, 1, Len(cursor)) = cursor /\ Len(cursor) \in Nat
    BY <1>1 DEF TurnInv, Mirrored
  <2> QED
    BY <1>1, <1>2, <2>1 DEF Mirrored
<1> QED
  BY <1>2, <1>3, <1>4, <1>5, <1>6, <1>7 DEF TurnInv, Shape

\* A compaction during the turn: the next mirror starts the branch anew.
LEMMA CompactTurn ==
    ASSUME TurnInv, NEW c \in Callers, CliCompact(c) \/ SubagentCompacts(c)
    PROVE  TurnInv'
<1>1. /\ turn = "running" /\ compacted' = TRUE
      /\ UNCHANGED <<turn, cursor, latest, synced, streaming, status, disk, turns, crashes, moves>>
  BY DEF CliCompact, SubagentCompacts, counters
<1>2. /\ Shape' /\ pc' = pc /\ history' # <<>>
      /\ NoEnv(history) => NoEnv(history')
  <2>1. CASE SubagentCompacts(c)
    BY <2>1, <1>1, TurnShape, ShapeStutter DEF SubagentCompacts, vars, TurnInv, Mirrored
  <2>2. CASE CliCompact(c)
    <3>1. PICK n \in DOMAIN history : SafeCutIndex(history, n) > 1 /\ CompactTo(c, SafeCutIndex(history, n))
      BY <2>2 DEF CliCompact
    <3>2. history \in Seq(Message)
      BY DEF TurnInv, SessionTypeOK, TypeOK
    <3>3. SafeCutIndex(history, n) \in 1..Len(history)
      BY <3>2, SafeCutInRange
    <3> QED
      BY <3>1, <3>2, <3>3, TurnShape, CutStep, CutTypes
  <2> QED
    BY <2>1, <2>2
<1>3. SessionTypeOK'
  BY <1>1, <1>2 DEF TurnInv, SessionTypeOK, Shape
<1>4. Clean'
  BY <1>1, <1>2 DEF TurnInv, Clean, NoEnv
<1>5. Driven'
  BY <1>1, <1>2 DEF TurnInv, Driven, Shape
<1>6. Newest'
  BY <1>1 DEF TurnInv, Newest
<1>7. Mirrored'
  BY <1>1, <1>2 DEF TurnInv, Mirrored
<1> QED
  BY <1>2, <1>3, <1>4, <1>5, <1>6, <1>7 DEF TurnInv, Shape

LEMMA BeginsTurn ==
    ASSUME TurnInv, BeginTurn
    PROVE  TurnInv'
<1>1. /\ turn = "idle" /\ turn' = "opening" /\ turns' = turns + 1 /\ turns < MaxTurns
      /\ cursor' = Append(cursor, UserText) /\ latest' = cursor' /\ synced' = Len(cursor) + 1
      /\ compacted' = FALSE /\ streaming' = FALSE /\ status' = "active"
      /\ UNCHANGED <<vars, disk, crashes, moves>>
  BY DEF BeginTurn, Extend
<1>2. Shape' /\ pc' = pc /\ history' = history
  BY <1>1, TurnShape, ShapeStutter DEF vars
<1>3. cursor \in Seq(Message) /\ NoEnv(cursor) /\ UserText \in Message /\ UserText.text # "env"
  BY MessageTypes, PlainTexts DEF TurnInv, SessionTypeOK, Clean
<1>4. /\ cursor' \in Seq(Message) /\ Len(cursor') = Len(cursor) + 1 /\ cursor' # <<>>
      /\ Len(cursor) \in Nat
      /\ \A i \in DOMAIN cursor' : cursor'[i] = IF i = Len(cursor) + 1 THEN UserText ELSE cursor[i]
      /\ \A i \in DOMAIN cursor' : i # Len(cursor) + 1 => i \in DOMAIN cursor
  BY <1>1, <1>3
<1>5. NoEnv(cursor')
  BY <1>3, <1>4 DEF NoEnv
<1>6. SessionTypeOK'
  <2>1. turns' \in 0..MaxTurns
    BY <1>1, SessionAssumption DEF TurnInv, SessionTypeOK
  <2>2. synced' \in Nat /\ latest' \in Seq(Message)
    BY <1>1, <1>4
  <2> QED
    BY <1>1, <1>2, <1>4, <2>1, <2>2 DEF TurnInv, SessionTypeOK, Shape, TurnPhases, Statuses
<1>7. Clean'
  BY <1>1, <1>2, <1>5 DEF TurnInv, Clean, NoEnv
<1>8. Driven'
  BY <1>1, <1>2 DEF TurnInv, Driven, Shape
<1>9. Newest'
  BY <1>1, <1>4 DEF TurnInv, Newest
<1>10. Mirrored'
  BY <1>1, <1>4 DEF Mirrored
<1> QED
  BY <1>2, <1>6, <1>7, <1>8, <1>9, <1>10 DEF TurnInv, Shape

\* Between turns the cursor moves back, or the path is rewritten.
LEMMA MovesTurn ==
    ASSUME TurnInv, Undo \/ Rewind
    PROVE  TurnInv'
<1>1. PICK i \in 2..Len(cursor) : MoveTo(SubSeq(cursor, 1, i - 1))
  BY DEF Undo, Rewind
<1>2. /\ turn = "idle" /\ turn' = turn /\ moves' = moves + 1 /\ moves < MaxMoves
      /\ cursor' = SubSeq(cursor, 1, i - 1)
      /\ UNCHANGED <<vars, latest, synced, compacted, streaming, status, disk, turns, crashes>>
  BY <1>1 DEF MoveTo
<1>3. Shape' /\ pc' = pc /\ history' = history
  BY <1>2, TurnShape, ShapeStutter DEF vars
<1>4. cursor' \in Seq(Message) /\ NoEnv(cursor')
  <2>1. cursor \in Seq(Message) /\ NoEnv(cursor)
    BY DEF TurnInv, SessionTypeOK, Clean
  <2>2. /\ SubSeq(cursor, 1, i - 1) \in Seq(Message)
        /\ \A j \in DOMAIN SubSeq(cursor, 1, i - 1) :
              j \in DOMAIN cursor /\ SubSeq(cursor, 1, i - 1)[j] = cursor[j]
    BY <2>1
  <2> QED
    BY <1>2, <2>1, <2>2 DEF NoEnv
<1>5. SessionTypeOK'
  <2>1. moves' \in 0..MaxMoves
    BY <1>2, SessionAssumption DEF TurnInv, SessionTypeOK
  <2> QED
    BY <1>2, <1>3, <1>4, <2>1 DEF TurnInv, SessionTypeOK, Shape
<1>6. Clean'
  BY <1>2, <1>3, <1>4 DEF TurnInv, Clean, NoEnv
<1>7. Driven'
  BY <1>2, <1>3 DEF TurnInv, Driven, Shape
<1>8. Newest'
  BY <1>2 DEF TurnInv, Newest
<1>9. Mirrored'
  BY <1>2 DEF Mirrored
<1> QED
  BY <1>3, <1>5, <1>6, <1>7, <1>8, <1>9 DEF TurnInv, Shape

LEMMA RewritesTurn ==
    ASSUME TurnInv, CompactNow
    PROVE  TurnInv'
<1>1. PICK n \in 1..(Len(cursor) - 1) : Extend(CutAt(cursor, SafeCutIndex(cursor, n)))
  BY DEF CompactNow
<1>2. /\ turn = "idle" /\ turn' = "rewriting" /\ moves' = moves + 1 /\ moves < MaxMoves
      /\ compacted' = TRUE
      /\ UNCHANGED <<vars, synced, streaming, status, disk, turns, crashes>>
  BY DEF CompactNow
<1>3. Shape' /\ pc' = pc /\ history' = history
  BY <1>2, TurnShape, ShapeStutter DEF vars
<1>4. cursor' \in Seq(Message) /\ NoEnv(cursor') /\ cursor' # <<>> /\ latest' = cursor'
  <2>1. cursor \in Seq(Message) /\ NoEnv(cursor)
    BY DEF TurnInv, SessionTypeOK, Clean
  <2>2. n \in DOMAIN cursor
    BY <2>1
  <2>3. SafeCutIndex(cursor, n) \in 1..Len(cursor)
    BY <2>1, <2>2, SafeCutInRange
  <2> QED
    BY <1>1, <2>1, <2>3, CutTypes DEF Extend
<1>5. SessionTypeOK'
  <2>1. moves' \in 0..MaxMoves
    BY <1>2, SessionAssumption DEF TurnInv, SessionTypeOK
  <2> QED
    BY <1>2, <1>3, <1>4, <2>1 DEF TurnInv, SessionTypeOK, Shape, TurnPhases
<1>6. Clean'
  BY <1>2, <1>3, <1>4 DEF TurnInv, Clean, NoEnv
<1>7. Driven'
  BY <1>2, <1>3 DEF TurnInv, Driven, Shape
<1>8. Newest'
  BY <1>2, <1>4 DEF TurnInv, Newest
<1>9. Mirrored'
  BY <1>2 DEF Mirrored
<1> QED
  BY <1>3, <1>5, <1>6, <1>7, <1>8, <1>9 DEF TurnInv, Shape

LEMMA CrashTurn ==
    ASSUME TurnInv, Crash
    PROVE  TurnInv'
<1>1. /\ turn' = "off" /\ crashes' = crashes + 1 /\ crashes < MaxCrashes
      /\ cursor' = <<>> /\ latest' = <<>> /\ synced' = 0 /\ compacted' = FALSE
      /\ streaming' = FALSE /\ status' = "active"
      /\ running' = FALSE /\ pc' = [c \in Callers |-> "idle"] /\ history' = <<>> /\ FreshLocals
      /\ outcome' = [c \in Callers |-> "none"]
      /\ UNCHANGED <<nextId, runs, disk, turns, moves>>
  BY DEF Crash, Extend
<1>2. Shape'
  <2>1. TypeOK'
    <3>1. /\ calls' \in Seq(Nat) /\ k' \in 0..Len(calls') /\ iter' \in 0..MaxIterations
          /\ cards' \in SUBSET Nat /\ reply' \in {"none", "failed", "final", "calls"}
      BY <1>1, EngineAssumption DEF FreshLocals
    <3>2. /\ pc' \in [Callers -> Phases] /\ outcome' \in [Callers -> Outcomes]
          /\ history' \in Seq(Message)
      BY <1>1 DEF Phases, Outcomes
    <3>3. nextId' \in Nat /\ runs' \in 0..MaxRuns /\ running' \in BOOLEAN
      BY <1>1 DEF TurnInv, SessionTypeOK, TypeOK
    <3> QED
      BY <3>1, <3>2, <3>3 DEF TypeOK
  <2>2. SingleFlight'
    BY <1>1 DEF SingleFlight, Active
  <2>3. \A c \in Callers : Locals(pc[c])'
    BY <1>1 DEF Locals
  <2> QED
    BY <2>1, <2>2, <2>3 DEF Shape
<1>3. SessionTypeOK'
  <2>1. crashes' \in 0..MaxCrashes
    BY <1>1, SessionAssumption DEF TurnInv, SessionTypeOK
  <2>2. cursor' \in Seq(Message) /\ latest' \in Seq(Message) /\ synced' \in Nat
    BY <1>1
  <2> QED
    BY <1>1, <1>2, <2>1, <2>2 DEF TurnInv, SessionTypeOK, Shape, TurnPhases, Statuses
<1>4. Clean'
  BY <1>1 DEF TurnInv, Clean, NoEnv
<1>5. Driven'
  BY <1>1, <1>2 DEF Driven, Shape
<1>6. Newest'
  BY <1>1 DEF TurnInv, Newest
<1>7. Mirrored'
  BY <1>1 DEF Mirrored
<1> QED
  BY <1>2, <1>3, <1>4, <1>5, <1>6, <1>7 DEF TurnInv, Shape

LEMMA RecoveredTypes ==
    ASSUME NEW h \in Seq(Message), h # <<>>
    PROVE  /\ Recovered(h) \in Seq(Message) /\ Recovered(h) # <<>>
           /\ NoEnv(h) => NoEnv(Recovered(h))
<1> DEFINE m == [role |-> "user", uses |-> {}, answers |-> h[Len(h)].uses, text |-> "none"]
<1>1. CASE Recovered(h) = h
  BY <1>1
<1>2. CASE Recovered(h) = Append(h, m)
  <2>1. h[Len(h)] \in Message /\ Len(h) \in Nat
    BY NonEmpty
  <2>2. m \in Message /\ m.text # "env"
    BY <2>1 DEF Message
  <2> HIDE DEF m
  <2>3. /\ Append(h, m) \in Seq(Message) /\ Append(h, m) # <<>>
        /\ DOMAIN Append(h, m) = 1..(Len(h) + 1) /\ DOMAIN h = 1..Len(h)
        /\ Append(h, m)[Len(h) + 1] = m
        /\ \A i \in 1..Len(h) : Append(h, m)[i] = h[i]
    BY <2>1, <2>2, AppendProperties
  <2>4. \A i \in 1..(Len(h) + 1) : i = Len(h) + 1 \/ i \in 1..Len(h)
    BY <2>1
  <2> QED
    BY <1>2, <2>2, <2>3, <2>4 DEF NoEnv
<1> QED
  BY <1>1, <1>2 DEF Recovered

LEMMA ResumesTurn ==
    ASSUME TurnInv, Resume
    PROVE  TurnInv'
<1> DEFINE path == IF disk.status = "active" THEN Recovered(disk.path) ELSE disk.path
<1>1. /\ turn = "off" /\ turn' = "idle" /\ disk # NoFile /\ status' = disk.status
      /\ cursor' = path /\ latest' = path /\ disk' = [disk EXCEPT !.path = path]
      /\ UNCHANGED <<vars, synced, compacted, streaming, turns, crashes, moves>>
  BY DEF Resume, Extend, counters
<1>2. Shape' /\ pc' = pc /\ history' = history
  BY <1>1, TurnShape, ShapeStutter DEF vars
<1>3. /\ disk.path \in Seq(Message) /\ disk.path # <<>> /\ NoEnv(disk.path)
      /\ disk.status \in Statuses
      /\ disk \in [path : Seq(Message), status : Statuses \cup {"none"}]
  BY <1>1 DEF TurnInv, SessionTypeOK, Newest, Clean
<1>4. path \in Seq(Message) /\ path # <<>> /\ NoEnv(path)
  BY <1>3, RecoveredTypes
<1> HIDE DEF path
<1>5. /\ disk' \in [path : Seq(Message), status : Statuses \cup {"none"}]
      /\ disk'.path = path /\ disk'.status = disk.status
  BY <1>1, <1>3, <1>4
<1>6. SessionTypeOK'
  BY <1>1, <1>2, <1>3, <1>4, <1>5 DEF TurnInv, SessionTypeOK, Shape, TurnPhases
<1>7. Clean'
  BY <1>1, <1>2, <1>4, <1>5 DEF TurnInv, Clean, NoEnv
<1>8. Driven'
  BY <1>1, <1>2 DEF TurnInv, Driven, Shape
<1>9. Newest'
  BY <1>1, <1>3, <1>4, <1>5 DEF Newest
<1>10. Mirrored'
  BY <1>1 DEF Mirrored
<1> QED
  BY <1>2, <1>6, <1>7, <1>8, <1>9, <1>10 DEF TurnInv, Shape

LEMMA NewTurn ==
    ASSUME TurnInv, NewSession
    PROVE  TurnInv'
<1>1. turn = "off" /\ turn' = "idle" /\ UNCHANGED <<vars, treeVars, streaming, status, disk, counters>>
  BY DEF NewSession
<1>2. Shape' /\ history' = history /\ pc' = pc
  BY <1>1, TurnShape, ShapeStutter DEF vars
<1>3. \A d \in Callers : pc'[d] \in {"idle", "abandoned"}
  BY <1>1, <1>2 DEF TurnInv, Driven
<1> QED
  BY <1>1, <1>2, <1>3, LeftTurn

LEMMA TurnStutter == TurnInv /\ UNCHANGED allVars => TurnInv'
<1> SUFFICES ASSUME TurnInv, UNCHANGED allVars PROVE TurnInv'
  OBVIOUS
<1>1. /\ UNCHANGED vars
      /\ UNCHANGED <<turn, cursor, latest, synced, compacted, streaming, status, disk, turns, crashes, moves>>
  BY DEF allVars, sessionVars, treeVars, counters
<1>2. Shape' /\ pc' = pc /\ history' = history
  BY <1>1, TurnShape, ShapeStutter DEF vars
<1>3. SessionTypeOK'
  BY <1>1, <1>2 DEF TurnInv, SessionTypeOK, Shape
<1>4. Clean'
  BY <1>1, <1>2 DEF TurnInv, Clean, NoEnv
<1>5. Driven'
  BY <1>1, <1>2 DEF TurnInv, Driven, Shape
<1>6. Newest'
  BY <1>1 DEF TurnInv, Newest
<1>7. Mirrored'
  BY <1>1, <1>2 DEF TurnInv, Mirrored
<1> QED
  BY <1>2, <1>3, <1>4, <1>5, <1>6, <1>7 DEF TurnInv, Shape

LEMMA TurnInit ==
    ASSUME "legacy" \notin Faults
    PROVE  SessionInit => TurnInv
<1> SUFFICES ASSUME SessionInit PROVE TurnInv
  OBVIOUS
<1> USE SessionAssumption
<1>1. Init /\ disk = NoFile
  BY DEF SessionInit
<1>2. TypeOK /\ SingleFlight
  BY <1>1, InitInv DEF EngineInv
<1>3. SessionTypeOK
  <2>1. cursor \in Seq(Message) /\ latest \in Seq(Message) /\ disk.path \in Seq(Message)
    BY <1>1 DEF SessionInit, NoFile
  <2>2. disk \in [path : Seq(Message), status : Statuses \cup {"none"}]
    BY <1>1, <2>1 DEF NoFile
  <2>3. turns \in 0..MaxTurns /\ crashes \in 0..MaxCrashes /\ moves \in 0..MaxMoves
    BY DEF SessionInit
  <2>4. /\ turn \in TurnPhases /\ synced \in Nat /\ compacted \in BOOLEAN /\ streaming \in BOOLEAN
        /\ status \in Statuses
    BY DEF SessionInit, TurnPhases, Statuses
  <2> QED
    BY <1>2, <2>1, <2>2, <2>3, <2>4 DEF SessionTypeOK
<1>4. Clean
  BY <1>1 DEF SessionInit, Init, Clean, NoEnv, NoFile
<1>5. Driven
  BY <1>1 DEF SessionInit, Init, Driven, Locals
<1>6. Newest
  BY <1>1 DEF SessionInit, Newest
<1>7. Mirrored
  BY DEF SessionInit, Mirrored
<1> QED
  BY <1>2, <1>3, <1>4, <1>5, <1>6, <1>7 DEF TurnInv

LEMMA TurnStep == TurnInv /\ [SessionNext]_allVars => TurnInv'
<1> SUFFICES ASSUME TurnInv, [SessionNext]_allVars PROVE TurnInv'
  OBVIOUS
<1>1. CASE UNCHANGED allVars
  BY <1>1, TurnStutter
<1>2. ASSUME NEW c \in Callers, Progress(c)
      PROVE  TurnInv'
  BY <1>2, SaveTurn, StreamTurn, HooksTurn, UnreportedTurn, ReportedTurn, EndsTurn, CollectTurn,
     ResumesTurn, NewTurn DEF Progress
<1>3. ASSUME NEW c \in Callers, Disturbance(c)
      PROVE  TurnInv'
  BY <1>3, CancelBeforeTurn, EndsTurn, SaveTurn, RaisesTurn, CrashTurn DEF Disturbance
<1>4. CASE \E c \in Callers : CliCompact(c) \/ SubagentCompacts(c)
  BY <1>4, CompactTurn
<1>5. CASE BeginTurn \/ Undo \/ Rewind \/ CompactNow
  BY <1>5, BeginsTurn, MovesTurn, RewritesTurn
<1> QED
  BY <1>1, <1>2, <1>3, <1>4, <1>5 DEF SessionNext

\* The inductive invariant holds of every reachable state of a session whose file holds no
\* environment blocks, whatever is cancelled, raised or killed.
THEOREM TurnInvariant == "legacy" \notin Faults => (SessionSpec => []TurnInv)
<1> SUFFICES ASSUME "legacy" \notin Faults PROVE SessionSpec => []TurnInv
  OBVIOUS
<1> QED
  BY TurnInit, TurnStep, PTL DEF SessionSpec

\* When the engine waits for the provider or runs a tool, every step it has finished is in
\* the session file.
THEOREM StepsDurable == "legacy" \notin Faults => (SessionSpec => []StepsAreDurable)
<1> SUFFICES ASSUME "legacy" \notin Faults PROVE SessionSpec => []StepsAreDurable
  OBVIOUS
<1>1. TurnInv => StepsAreDurable
  <2> SUFFICES ASSUME TurnInv, NEW c \in Callers, pc[c] \in {"before", "llm", "handler"}, ~compacted
               PROVE  disk.path = history
    BY DEF StepsAreDurable, TurnInv
  <2>1. turn = "running"
    BY DEF TurnInv, Driven
  <2>2. cursor = history
    BY <2>1 DEF TurnInv, Mirrored, InStep
  <2> QED
    BY <2>1, <2>2 DEF TurnInv, Newest
<1> QED
  BY <1>1, TurnInvariant, PTL

\* A turn that reached the engine settles with the whole history of its run on the active
\* path, however it ends.
THEOREM SettledTurnIsWhole == "legacy" \notin Faults => (SessionSpec => []SettlesWhole)
<1> SUFFICES ASSUME "legacy" \notin Faults PROVE SessionSpec => []SettlesWhole
  OBVIOUS
<1>1. TurnInv => SettlesWhole
  <2> SUFFICES ASSUME TurnInv, turn = "settling", streaming
               PROVE  StripEnv(cursor) = history
    BY DEF SettlesWhole
  <2>1. cursor = history /\ NoEnv(cursor) /\ cursor \in Seq(Message)
    BY DEF TurnInv, Mirrored, Clean, SessionTypeOK
  <2> QED
    BY <2>1, StripNothing
<1> QED
  BY <1>1, TurnInvariant, PTL

----------------------------------------------------------------------------
(* The second invariant: the shape of the histories of a protected session. *)

LEMMA MessageParts ==
    /\ UserText.uses = {} /\ UserText.answers = {}
    /\ \A id : ToolResult(id).uses = {} /\ ToolResult(id).answers = {id} /\ ToolResult(id).text = "none"
    /\ \A S : Assistant(S).uses = S /\ Assistant(S).answers = {} /\ Assistant(S).text = "none"
BY DEF UserText, ToolResult, Assistant

LEMMA RestartEmpty == Restartable(<<>>) /\ Contiguous(<<>>, {})
BY DEF Restartable, Contiguous

\* A path without tool calls yet.
LEMMA WholeEmpty == Whole(<<>>)
<1>1. Paired(<<>>) /\ Uses(<<>>) = {}
  BY EmptyPaired
<1> QED
  BY <1>1, RestartEmpty DEF Whole

LEMMA RestartAppend ==
    ASSUME NEW h \in Seq(Message), NEW m \in Message, Restartable(h),
           m.text = "turn" => Paired(h)
    PROVE  Restartable(Append(h, m))
<1> DEFINE g == Append(h, m)
<1>1. DOMAIN g = 1..(Len(h) + 1) /\ DOMAIN h = 1..Len(h) /\ Len(h) \in Nat
  OBVIOUS
<1>2. /\ g[Len(h) + 1] = m /\ SubSeq(g, 1, Len(h)) = h
      /\ \A i \in 1..Len(h) : g[i] = h[i] /\ SubSeq(g, 1, i - 1) = SubSeq(h, 1, i - 1)
  <2>1. g \in Seq(Message) /\ SubSeq(g, 1, Len(h)) = h
    BY AppendPrefix
  <2>2. Len(g) = Len(h) + 1
    OBVIOUS
  <2>3. ASSUME NEW i \in 1..Len(h) PROVE SubSeq(g, 1, i - 1) = SubSeq(h, 1, i - 1)
    <3>1. i - 1 \in Nat /\ i - 1 <= Len(h) /\ Len(h) <= Len(g)
      BY <2>2, <1>1
    <3> HIDE DEF g
    <3> QED
      BY <2>1, <3>1, PrefixOfPrefix
  <2> QED
    BY <2>1, <2>3
<1> HIDE DEF g
<1> SUFFICES ASSUME NEW i \in 1..(Len(h) + 1), g[i].text = "turn"
             PROVE  Paired(SubSeq(g, 1, i - 1))
  BY <1>1 DEF Restartable, g
<1>3. CASE i \in 1..Len(h)
  BY <1>1, <1>2, <1>3 DEF Restartable
<1>4. CASE i = Len(h) + 1
  <2>1. i - 1 = Len(h)
    BY <1>1, <1>4
  <2> QED
    BY <1>2, <1>4, <2>1
<1> QED
  BY <1>1, <1>3, <1>4

LEMMA RestartPrefix ==
    ASSUME NEW h \in Seq(Message), NEW n \in 0..Len(h), Restartable(h)
    PROVE  Restartable(SubSeq(h, 1, n))
<1> DEFINE g == SubSeq(h, 1, n)
<1>1. /\ g \in Seq(Message) /\ DOMAIN g = 1..n /\ Len(g) = n /\ n \in Nat
      /\ \A i \in 1..n : g[i] = h[i] /\ i \in DOMAIN h
  OBVIOUS
<1>2. ASSUME NEW i \in 1..n PROVE SubSeq(g, 1, i - 1) = SubSeq(h, 1, i - 1)
  <2>1. SubSeq(g, 1, i - 1) = [j \in 1..(i - 1) |-> g[j]]
    BY <1>1
  <2>2. SubSeq(h, 1, i - 1) = [j \in 1..(i - 1) |-> h[j]]
    OBVIOUS
  <2>3. \A j \in 1..(i - 1) : g[j] = h[j]
    BY <1>1
  <2> HIDE DEF g
  <2> QED
    BY <2>1, <2>2, <2>3
<1> HIDE DEF g
<1> SUFFICES ASSUME NEW i \in 1..n, g[i].text = "turn" PROVE Paired(SubSeq(g, 1, i - 1))
  BY <1>1 DEF Restartable, g
<1> QED
  BY <1>1, <1>2 DEF Restartable

\* Answers, one after the other, keep a history restartable.
LEMMA RestartConcat ==
    ASSUME NEW h \in Seq(Message), NEW g \in Seq(Message), Restartable(h),
           \A i \in DOMAIN g : g[i].text # "turn"
    PROVE  Restartable(h \o g)
<1> DEFINE f == h \o g
<1>1. /\ f \in Seq(Message) /\ DOMAIN f = 1..(Len(h) + Len(g)) /\ Len(f) = Len(h) + Len(g)
      /\ Len(h) \in Nat /\ Len(g) \in Nat /\ DOMAIN g = 1..Len(g) /\ DOMAIN h = 1..Len(h)
      /\ SubSeq(f, 1, Len(h)) = h
  BY ConcatPrefix
<1>2. \A i \in DOMAIN f : f[i] = IF i <= Len(h) THEN h[i] ELSE g[i - Len(h)]
  OBVIOUS
<1> HIDE DEF f
<1> SUFFICES ASSUME NEW i \in DOMAIN f, f[i].text = "turn" PROVE Paired(SubSeq(f, 1, i - 1))
  BY DEF Restartable, f
<1>3. i <= Len(h) /\ i \in Nat /\ i > 0
  <2>1. ~(i <= Len(h)) => i - Len(h) \in DOMAIN g
    BY <1>1
  <2> QED
    BY <1>1, <1>2, <2>1
<1>4. SubSeq(f, 1, i - 1) = SubSeq(h, 1, i - 1)
  <2>1. i - 1 \in Nat /\ i - 1 <= Len(h) /\ Len(h) <= Len(f)
    BY <1>1, <1>3
  <2> QED
    BY <1>1, <2>1, PrefixOfPrefix
<1>5. f[i] = h[i] /\ i \in DOMAIN h
  BY <1>1, <1>2, <1>3
<1> QED
  BY <1>4, <1>5 DEF Restartable

\* Fewer calls are left open.
LEMMA ContiguousLess ==
    ASSUME NEW h, NEW open, NEW fewer \in SUBSET open, Contiguous(h, open)
    PROVE  Contiguous(h, fewer)
BY DEF Contiguous

\* A message that answers nothing opens the calls it makes; those before it are closed.
LEMMA ContiguousAppend ==
    ASSUME NEW h \in Seq(Message), NEW m \in Message, m.answers = {},
           Contiguous(h, {}), NEW open, open \cap Uses(h) = {}
    PROVE  Contiguous(Append(h, m), open)
<1> DEFINE g == Append(h, m)
           n == Len(h)
<1>1. /\ DOMAIN g = 1..(n + 1) /\ DOMAIN h = 1..n /\ n \in Nat /\ Len(g) = n + 1
      /\ g[n + 1] = m /\ \A i \in 1..n : g[i] = h[i]
  OBVIOUS
<1> HIDE DEF g, n
<1>2. \A i \in 1..n : h[i].uses \subseteq Uses(h)
  BY <1>1 DEF Uses
<1>3. ASSUME NEW i \in DOMAIN g, NEW j \in DOMAIN g, i < j, g[i].uses \cap g[j].answers # {},
             NEW l \in (i + 1)..j
      PROVE  g[l].answers # {}
  <2>1. i \in 1..n /\ j \in 1..n /\ l \in 1..n
    BY <1>1, <1>3
  <2> QED
    BY <1>1, <1>3, <2>1 DEF Contiguous
<1>4. ASSUME NEW i \in DOMAIN g, g[i].uses \cap open # {}, NEW l \in (i + 1)..Len(g)
      PROVE  g[l].answers # {}
  <2>1. i = n + 1
    BY <1>1, <1>2, <1>4
  <2> QED
    BY <1>1, <1>4, <2>1
<1> QED
  BY <1>3, <1>4 DEF Contiguous, g

\* The answers of open calls follow them at once.
LEMMA ContiguousAnswers ==
    ASSUME NEW h \in Seq(Message), NEW r \in Seq(Message), NEW open, NEW left,
           Contiguous(h, open), left \subseteq open,
           \A i \in DOMAIN r : r[i].uses = {} /\ r[i].answers # {} /\ r[i].answers \subseteq open
    PROVE  Contiguous(h \o r, left)
<1> DEFINE g == h \o r
           n == Len(h)
           q == Len(r)
<1>1. /\ DOMAIN g = 1..(n + q) /\ DOMAIN h = 1..n /\ DOMAIN r = 1..q /\ n \in Nat /\ q \in Nat
      /\ Len(g) = n + q
  OBVIOUS
<1>2. \A i \in 1..(n + q) : g[i] = IF i <= n THEN h[i] ELSE r[i - n]
  OBVIOUS
<1> HIDE DEF g, n, q
<1>3. \A i \in 1..(n + q) : IF i <= n THEN i \in 1..n /\ g[i] = h[i]
                            ELSE /\ g[i].uses = {} /\ g[i].answers # {} /\ g[i].answers \subseteq open
  <2> TAKE i \in 1..(n + q)
  <2>1. ~(i <= n) => i - n \in 1..q
    BY <1>1
  <2> QED
    BY <1>1, <1>2, <2>1
<1>4. ASSUME NEW i \in 1..n, h[i].uses \cap open # {}, NEW l \in (i + 1)..(n + q)
      PROVE  g[l].answers # {}
  <2>1. l \in 1..(n + q) /\ (l <= n => l \in (i + 1)..n)
    BY <1>1
  <2> QED
    BY <1>1, <1>3, <1>4, <2>1 DEF Contiguous, n
<1>5. ASSUME NEW i \in 1..(n + q), NEW j \in 1..(n + q), i < j, g[i].uses \cap g[j].answers # {},
             NEW l \in (i + 1)..j
      PROVE  g[l].answers # {}
  <2>1. i \in 1..n /\ g[i] = h[i]
    BY <1>3, <1>5
  <2>2. CASE j <= n
    <3>1. j \in 1..n /\ g[j] = h[j] /\ l \in 1..n /\ l \in 1..(n + q) /\ l <= n
      BY <1>1, <1>3, <2>2
    <3>2. h[l].answers # {}
      BY <1>1, <1>5, <2>1, <3>1 DEF Contiguous
    <3> QED
      BY <1>3, <3>1, <3>2
  <2>3. CASE ~(j <= n)
    <3>1. g[j].answers \subseteq open
      BY <1>3, <2>3
    <3>2. l \in (i + 1)..(n + q)
      BY <1>1
    <3> QED
      BY <1>4, <1>5, <2>1, <3>1, <3>2
  <2> QED
    BY <2>2, <2>3
<1>6. ASSUME NEW i \in 1..(n + q), g[i].uses \cap left # {}, NEW l \in (i + 1)..(n + q)
      PROVE  g[l].answers # {}
  <2>1. i \in 1..n /\ g[i] = h[i]
    BY <1>3, <1>6
  <2> QED
    BY <1>4, <1>6, <2>1
<1> QED
  BY <1>1, <1>5, <1>6 DEF Contiguous, g

LEMMA ContiguousPrefix ==
    ASSUME NEW h \in Seq(Message), NEW n \in 0..Len(h), Contiguous(h, {})
    PROVE  Contiguous(SubSeq(h, 1, n), {})
<1> DEFINE g == SubSeq(h, 1, n)
<1>1. DOMAIN g = 1..n /\ Len(g) = n /\ n \in Nat /\ \A i \in 1..n : g[i] = h[i] /\ i \in DOMAIN h
  OBVIOUS
<1> HIDE DEF g
<1>2. ASSUME NEW i \in 1..n, NEW j \in 1..n, i < j, g[i].uses \cap g[j].answers # {},
             NEW l \in (i + 1)..j
      PROVE  g[l].answers # {}
  <2>1. l \in 1..n
    BY <1>1
  <2> QED
    BY <1>1, <1>2, <2>1 DEF Contiguous
<1> QED
  BY <1>1, <1>2 DEF Contiguous, g

LEMMA PrefixUses ==
    ASSUME NEW h \in Seq(Message), NEW n \in 0..Len(h)
    PROVE  Uses(SubSeq(h, 1, n)) \subseteq Uses(h)
<1> DEFINE g == SubSeq(h, 1, n)
<1>1. DOMAIN g = 1..n /\ \A i \in 1..n : g[i] = h[i] /\ i \in DOMAIN h
  OBVIOUS
<1> HIDE DEF g
<1> QED
  BY <1>1 DEF Uses, g

\* The two places of a message, before and after a cut.
LEMMA CutPlaces ==
    ASSUME NEW h \in Seq(Message), NEW cut \in 1..Len(h)
    PROVE  LET g == CutAt(h, cut)
           IN  /\ g \in Seq(Message) /\ Len(g) = Len(h) - cut + 2 /\ DOMAIN g = 1..(Len(h) - cut + 2)
               /\ g[1] = UserText
               /\ \A a \in 2..(Len(h) - cut + 2) : g[a] = h[a + cut - 2]
<1> DEFINE s == SubSeq(h, cut, Len(h))
<1>1. /\ s \in Seq(Message) /\ Len(s) = Len(h) - cut + 1
      /\ \A i \in 1..(Len(h) - cut + 1) : s[i] = h[cut + i - 1]
      /\ Len(h) \in Nat
  OBVIOUS
<1>2. UserText \in Message
  BY MessageTypes
<1> HIDE DEF s
<1>3. /\ <<UserText>> \o s \in Seq(Message) /\ Len(<<UserText>> \o s) = 1 + Len(s)
  <2>1. <<UserText>> \in Seq(Message) /\ Len(<<UserText>>) = 1
    BY <1>2
  <2> QED
    BY <1>1, <2>1, ConcatProperties
<1>4. \A i \in 1..(1 + Len(s)) :
         (<<UserText>> \o s)[i] = IF i = 1 THEN UserText ELSE s[i - 1]
  BY <1>1, <1>2
<1>5. \A a \in 2..(Len(h) - cut + 2) : (<<UserText>> \o s)[a] = h[a + cut - 2]
  <2> TAKE a \in 2..(Len(h) - cut + 2)
  <2>1. a - 1 \in 1..(Len(h) - cut + 1) /\ a \in 1..(1 + Len(s)) /\ a # 1 /\ cut + (a - 1) - 1 = a + cut - 2
    BY <1>1
  <2> QED
    BY <1>1, <1>4, <2>1
<1> QED
  BY <1>1, <1>3, <1>4, <1>5, LenProperties DEF CutAt, s

LEMMA ContiguousCut ==
    ASSUME NEW h \in Seq(Message), NEW cut \in 1..Len(h), NEW open, Contiguous(h, open)
    PROVE  Contiguous(CutAt(h, cut), open)
<1> DEFINE g == CutAt(h, cut)
           n == Len(h) - cut + 2
<1>1. /\ Len(g) = n /\ DOMAIN g = 1..n /\ g[1] = UserText
      /\ \A a \in 2..n : g[a] = h[a + cut - 2]
  BY CutPlaces
<1>2. n \in Nat /\ \A a \in 2..n : a + cut - 2 \in DOMAIN h
  OBVIOUS
<1>3. UserText.uses = {}
  BY MessageParts
<1>n. n = Len(h) - cut + 2 /\ DOMAIN h = 1..Len(h) /\ Len(h) \in Nat /\ cut \in Nat
  OBVIOUS
<1> HIDE DEF g, n
<1>4. ASSUME NEW i \in 1..n, NEW j \in 1..n, i < j, g[i].uses \cap g[j].answers # {},
             NEW l \in (i + 1)..j
      PROVE  g[l].answers # {}
  <2>1. i \in 2..n /\ j \in 2..n /\ l \in 2..n
    BY <1>1, <1>2, <1>3, <1>4
  <2>2. i + cut - 2 < j + cut - 2 /\ l + cut - 2 \in (i + cut - 2 + 1)..(j + cut - 2)
    BY <1>n, <1>4, <2>1
  <2>3. g[i] = h[i + cut - 2] /\ g[j] = h[j + cut - 2] /\ g[l] = h[l + cut - 2]
    BY <1>1, <2>1
  <2> QED
    BY <1>2, <1>4, <2>1, <2>2, <2>3 DEF Contiguous
<1>5. ASSUME NEW i \in 1..n, g[i].uses \cap open # {}, NEW l \in (i + 1)..n
      PROVE  g[l].answers # {}
  <2>1. i \in 2..n /\ l \in 2..n
    BY <1>1, <1>2, <1>3, <1>5
  <2>2. l + cut - 2 \in (i + cut - 2 + 1)..Len(h)
    BY <1>n, <2>1
  <2>3. g[i] = h[i + cut - 2] /\ g[l] = h[l + cut - 2]
    BY <1>1, <2>1
  <2> QED
    BY <1>2, <1>5, <2>1, <2>2, <2>3 DEF Contiguous
<1> QED
  BY <1>1, <1>4, <1>5 DEF Contiguous, g

\* A cut where safe_cut_index puts it separates no call from its answer.
LEMMA SafeCutSeparatesNothing ==
    ASSUME NEW h \in Seq(Message), NEW open, Contiguous(h, open), NEW n \in DOMAIN h
    PROVE  \A i \in DOMAIN h : i < SafeCutIndex(h, n) =>
              /\ h[i].uses \cap open = {}
              /\ \A j \in DOMAIN h : SafeCutIndex(h, n) <= j => h[i].uses \cap h[j].answers = {}
<1> DEFINE cut == SafeCutIndex(h, n)
<1>1. cut \in 1..Len(h)
  BY SafeCutInRange
<1>2. cut = 1 \/ h[cut].answers = {}
  BY SafeCut
<1> HIDE DEF cut
<1> SUFFICES ASSUME NEW i \in DOMAIN h, i < cut
             PROVE  /\ h[i].uses \cap open = {}
                    /\ \A j \in DOMAIN h : cut <= j => h[i].uses \cap h[j].answers = {}
  BY DEF cut
<1>3. h[cut].answers = {} /\ cut \in (i + 1)..Len(h) /\ DOMAIN h = 1..Len(h)
  BY <1>1, <1>2
<1>4. h[i].uses \cap open = {}
  BY <1>3 DEF Contiguous
<1>5. ASSUME NEW j \in DOMAIN h, cut <= j PROVE h[i].uses \cap h[j].answers = {}
  <2>1. i < j /\ cut \in (i + 1)..j
    BY <1>3, <1>5
  <2> QED
    BY <1>3, <2>1 DEF Contiguous
<1> QED
  BY <1>4, <1>5

\* Rewinding after a compaction: the cut was safe for what was said before, too.
LEMMA RestartCut ==
    ASSUME NEW h \in Seq(Message), NEW cut \in 1..Len(h), Restartable(h),
           \A i \in DOMAIN h : i < cut =>
              \A j \in DOMAIN h : cut <= j => h[i].uses \cap h[j].answers = {}
    PROVE  Restartable(CutAt(h, cut))
<1> DEFINE g == CutAt(h, cut)
           n == Len(h) - cut + 2
<1>1. /\ g \in Seq(Message) /\ Len(g) = n /\ DOMAIN g = 1..n /\ g[1] = UserText
      /\ \A a \in 2..n : g[a] = h[a + cut - 2]
  BY CutPlaces
<1>n. n = Len(h) - cut + 2 /\ n \in Nat /\ DOMAIN h = 1..Len(h) /\ Len(h) \in Nat /\ cut \in Nat
  OBVIOUS
<1> HIDE DEF g, n
<1> SUFFICES ASSUME NEW a \in 1..n, g[a].text = "turn" PROVE Paired(SubSeq(g, 1, a - 1))
  BY <1>1 DEF Restartable, g
<1>2. CASE a = 1
  <2>1. SubSeq(g, 1, a - 1) = <<>>
    BY <1>1, <1>2
  <2> QED
    BY <2>1, EmptyPaired
<1>3. CASE a = 2
  <2>1. SubSeq(g, 1, a - 1) = <<UserText>>
    <3>1. SubSeq(g, 1, 1) = [i \in 1..1 |-> g[i]]
      BY <1>1, <1>3
    <3>2. <<UserText>> = [i \in 1..1 |-> UserText]
      OBVIOUS
    <3>3. \A i \in 1..1 : g[i] = UserText
      BY <1>1
    <3>4. [i \in 1..1 |-> g[i]] = [i \in 1..1 |-> UserText]
      BY <3>3
    <3>5. a - 1 = 1
      BY <1>3
    <3> QED
      BY ONLY <3>1, <3>2, <3>4, <3>5
  <2> QED
    BY <2>1, FirstTurn
<1>4. CASE a > 2
  <2> DEFINE b == a + cut - 3
             f == SubSeq(h, 1, b)
  <2>1. /\ b \in cut..Len(h) /\ b + 1 = a + cut - 2 /\ b + 1 \in DOMAIN h /\ a \in 2..n /\ b \in Nat
        /\ b = (b + 1) - 1 /\ b - cut + 2 = a - 1 /\ a - 1 <= n
    BY <1>n, <1>4
  <2>b. b = a + cut - 3
    OBVIOUS
  <2> HIDE DEF b
  <2>2. h[b + 1].text = "turn"
    BY <1>1, <2>1
  <2>3. Paired(f)
    BY <2>1, <2>2 DEF Restartable
  <2>4. /\ f \in Seq(Message) /\ Len(f) = b /\ DOMAIN f = 1..b
        /\ \A i \in 1..b : f[i] = h[i] /\ i \in DOMAIN h
    BY <2>1
  <2> HIDE DEF f
  <2>5. cut \in 1..Len(f)
    BY <2>1, <2>4
  <2>6. \A i \in DOMAIN f : i < cut =>
           /\ f[i].uses \cap {} = {}
           /\ \A j \in DOMAIN f : cut <= j => f[i].uses \cap f[j].answers = {}
    BY <2>4
  <2>7. Paired(CutAt(f, cut))
    BY <2>3, <2>4, <2>5, <2>6, CutKeepsPairs DEF Paired
  <2>8. SubSeq(g, 1, a - 1) = CutAt(f, cut)
    <3> DEFINE e == CutAt(f, cut)
    <3>1. /\ e \in Seq(Message) /\ Len(e) = b - cut + 2 /\ DOMAIN e = 1..(b - cut + 2) /\ e[1] = UserText
          /\ \A i \in 2..(b - cut + 2) : e[i] = f[i + cut - 2]
      BY <2>4, <2>5, CutPlaces
    <3> HIDE DEF e
    <3>2. \A i \in 1..(a - 1) : e[i] = g[i]
      <4> TAKE i \in 1..(a - 1)
      <4>1. CASE i = 1
        BY <1>1, <3>1, <4>1
      <4>2. CASE i # 1
        <5>1. i \in 2..(b - cut + 2) /\ i \in 2..n /\ i + cut - 2 \in 1..b
          BY <1>n, <2>1, <2>b, <4>2
        <5> QED
          BY <1>1, <2>4, <3>1, <5>1
      <4> QED
        BY <4>1, <4>2
    <3>3. e = [i \in 1..(a - 1) |-> e[i]]
      BY <2>1, <3>1
    <3>4. SubSeq(g, 1, a - 1) = [i \in 1..(a - 1) |-> g[i]]
      BY <1>1, <2>1, <1>n
    <3> QED
      BY <3>2, <3>3, <3>4 DEF e
  <2> QED
    BY <2>7, <2>8
<1> QED
  BY <1>2, <1>3, <1>4, <1>n

----------------------------------------------------------------------------
(* What the session does with whole paths.                                  *)

LEMMA WholeBegins ==
    ASSUME NEW h \in Seq(Message), Whole(h)
    PROVE  Whole(Append(h, UserText))
<1>1. /\ Paired(Append(h, UserText)) /\ Uses(Append(h, UserText)) = Uses(h)
      /\ UserText \in Message /\ UserText.answers = {}
  BY UserTurn, MessageTypes, MessageParts DEF Whole
<1>2. Restartable(Append(h, UserText))
  BY <1>1, RestartAppend DEF Whole
<1>3. Contiguous(Append(h, UserText), {})
  BY <1>1, ContiguousAppend DEF Whole
<1> QED
  BY <1>1, <1>2, <1>3 DEF Whole

LEMMA WholeRewinds ==
    ASSUME NEW h \in Seq(Message), Whole(h), NEW i \in 2..Len(h), h[i].text = "turn"
    PROVE  Whole(SubSeq(h, 1, i - 1))
<1>1. i \in DOMAIN h /\ i - 1 \in 0..Len(h)
  OBVIOUS
<1>2. Paired(SubSeq(h, 1, i - 1))
  BY <1>1 DEF Whole, Restartable
<1>3. /\ Restartable(SubSeq(h, 1, i - 1)) /\ Contiguous(SubSeq(h, 1, i - 1), {})
      /\ Uses(SubSeq(h, 1, i - 1)) \subseteq Uses(h)
  BY <1>1, RestartPrefix, ContiguousPrefix, PrefixUses DEF Whole
<1> QED
  BY <1>2, <1>3 DEF Whole

LEMMA WholeCompacts ==
    ASSUME NEW h \in Seq(Message), Whole(h), NEW n \in DOMAIN h
    PROVE  Whole(CutAt(h, SafeCutIndex(h, n)))
<1> DEFINE cut == SafeCutIndex(h, n)
<1>1. cut \in 1..Len(h)
  BY SafeCutInRange
<1>2. \A i \in DOMAIN h : i < cut =>
         /\ h[i].uses \cap {} = {}
         /\ \A j \in DOMAIN h : cut <= j => h[i].uses \cap h[j].answers = {}
  BY SafeCutSeparatesNothing DEF Whole
<1> HIDE DEF cut
<1>3. Paired(CutAt(h, cut)) /\ Uses(CutAt(h, cut)) \subseteq Uses(h)
  BY <1>1, <1>2, CutKeepsPairs DEF Whole, Paired
<1>4. Restartable(CutAt(h, cut))
  BY <1>1, <1>2, RestartCut DEF Whole
<1>5. Contiguous(CutAt(h, cut), {})
  BY <1>1, ContiguousCut DEF Whole
<1> QED
  BY <1>3, <1>4, <1>5 DEF Whole, cut

\* The compaction of the CLI is one of those the engine allows for.
LEMMA CliCutIsSafe ==
    ASSUME NEW h \in Seq(Message), NEW open, Contiguous(h, open), NEW n \in DOMAIN h,
           SafeCutIndex(h, n) > 1
    PROVE  SafeCutIndex(h, n) \in SafeCuts(h, open)
<1> DEFINE cut == SafeCutIndex(h, n)
<1>1. cut \in 2..Len(h)
  BY SafeCutInRange
<1>2. \A i \in DOMAIN h : i < cut =>
         /\ h[i].uses \cap open = {}
         /\ \A j \in DOMAIN h : cut <= j => h[i].uses \cap h[j].answers = {}
  BY SafeCutSeparatesNothing
<1> HIDE DEF cut
<1> QED
  BY <1>1, <1>2 DEF SafeCuts, cut

----------------------------------------------------------------------------
(* The second invariant: every step of a protected session keeps it.        *)

\* What the generator of c still has to answer, before and after a step.
LEMMA UnansweredAt ==
    ASSUME NEW p
    PROVE  /\ p \in {"gate", "started", "handler"} => Unanswered(p) = Pending(k)
           /\ p = "answered" => Unanswered(p) = Pending(k + 1)
           /\ p \notin {"gate", "started", "handler", "answered"} => Unanswered(p) = {}
BY DEF Unanswered

LEMMA UnderwayMove ==
    ASSUME NEW c \in Callers, NEW q, Moved(c, q),
           turn' \in {"running", "saving"} => Restartable(history'),
           q \notin {"idle", "abandoned"} => Contiguous(history', Unanswered(q)')
    PROVE  Underway'
<1>1. \A d \in Callers : pc'[d] \notin {"idle", "abandoned"} => d = c /\ pc'[d] = q
  BY DEF Moved
<1> QED
  BY <1>1 DEF Underway

LEMMA UnderwayStill ==
    ASSUME Underway, UNCHANGED vars, turn' \in {"running", "saving"} => turn \in {"running", "saving"}
    PROVE  Underway'
<1>1. history' = history /\ pc' = pc /\ calls' = calls /\ k' = k
  BY DEF vars
<1>2. \A p : Unanswered(p)' = Unanswered(p)
  BY <1>1 DEF Unanswered, Pending
<1> QED
  BY <1>1, <1>2 DEF Underway

\* The engine is not involved.
LEMMA PathsStill ==
    ASSUME WholePaths, UNCHANGED vars,
           turn' \in {"running", "saving"} => turn \in {"running", "saving"},
           turn' \notin {"running", "saving"} => Whole(cursor')
    PROVE  WholePaths'
<1>1. EngineInv'
  BY StutterInv DEF WholePaths
<1>2. Underway'
  BY UnderwayStill DEF WholePaths
<1>3. nextId' = nextId
  BY DEF vars
<1>4. Resting'
  BY <1>3 DEF Resting, Whole
<1> QED
  BY <1>1, <1>2, <1>4 DEF WholePaths

LEMMA SavePaths ==
    ASSUME TurnInv, WholePaths, Opened \/ Checkpointed \/ Settled \/ Rewritten
    PROVE  WholePaths'
<1>1. /\ UNCHANGED vars /\ cursor' = cursor
      /\ \/ turn = "opening" /\ turn' = "preparing"
         \/ turn = "saving" /\ turn' = "running"
         \/ turn \in {"settling", "rewriting"} /\ turn' = "idle"
  BY DEF Opened, Checkpointed, Settled, Rewritten, Save, treeVars
<1>2. turn \notin {"running", "saving"} => Whole(cursor)
  BY DEF WholePaths, Resting
<1> QED
  BY <1>1, <1>2, PathsStill

LEMMA IdlePaths ==
    ASSUME TurnInv, WholePaths,
           BeginTurn \/ Rewind \/ CompactNow \/ NewSession \/ CancelBeforeStream
    PROVE  WholePaths'
<1>t. cursor \in Seq(Message)
  BY DEF WholePaths, TurnInv, SessionTypeOK
<1>1. /\ UNCHANGED vars /\ disk' = disk /\ turn' \notin {"off", "running", "saving"}
      /\ turn \notin {"running", "saving"}
  BY DEF BeginTurn, Rewind, MoveTo, CompactNow, NewSession, CancelBeforeStream, Abort
<1>2. Whole(cursor)
  BY <1>1 DEF WholePaths, Resting
<1>3. Whole(cursor')
  <2>1. CASE BeginTurn
    BY <2>1, <1>2, <1>t, WholeBegins DEF BeginTurn, Extend
  <2>2. CASE Rewind
    <3>1. PICK i \in 2..Len(cursor) : cursor[i].text = "turn" /\ MoveTo(SubSeq(cursor, 1, i - 1))
      BY <2>2 DEF Rewind
    <3>2. cursor' = SubSeq(cursor, 1, i - 1)
      BY <3>1 DEF MoveTo
    <3> QED
      BY <1>2, <1>t, <3>1, <3>2, WholeRewinds
  <2>3. CASE CompactNow
    <3>1. PICK n \in 1..(Len(cursor) - 1) : Extend(CutAt(cursor, SafeCutIndex(cursor, n)))
      BY <2>3 DEF CompactNow
    <3>2. n \in DOMAIN cursor /\ cursor' = CutAt(cursor, SafeCutIndex(cursor, n))
      BY <1>t, <3>1 DEF Extend
    <3> QED
      BY <1>2, <1>t, <3>2, WholeCompacts
  <2>4. CASE NewSession
    BY <2>4, <1>2 DEF NewSession, treeVars
  <2>5. CASE CancelBeforeStream
    <3>1. ~streaming
      BY <2>5 DEF CancelBeforeStream, WholePaths, TurnInv, Mirrored
    <3> QED
      BY <2>5, <1>2, <3>1 DEF CancelBeforeStream, Abort, treeVars
  <2> QED
    BY <2>1, <2>2, <2>3, <2>4, <2>5
<1> QED
  BY <1>1, <1>3, PathsStill

LEMMA StreamPaths ==
    ASSUME TurnInv, WholePaths, NEW c \in Callers, Stream(c)
    PROVE  WholePaths'
<1>1. /\ turn = "preparing" /\ turn' = "running" /\ disk' = disk /\ StartWith(c, cursor)
      /\ cursor \in Seq(Message)
  BY DEF Stream, WholePaths, TurnInv, SessionTypeOK
<1>2. Whole(cursor)
  BY <1>1 DEF WholePaths, Resting
<1>3. EngineInv'
  BY <1>1, <1>2, StartInv DEF WholePaths, Whole
<1>4. history' = cursor /\ Moved(c, "loop")
  BY <1>1, TurnShape, StartStep DEF WholePaths
<1>5. Underway'
  <2>1. Unanswered("loop")' = {}
    BY DEF Unanswered
  <2> QED
    BY <1>2, <1>4, <2>1, UnderwayMove DEF Whole
<1> QED
  BY <1>1, <1>3, <1>5 DEF WholePaths, Resting

\* The engine moves while the turn runs.
LEMMA EnginePaths ==
    ASSUME TurnInv, WholePaths, [Next]_vars, turn = "running", turn' \in {"running", "saving"},
           NEW c \in Callers, NEW q \in Phases \ {"idle", "abandoned"}, Moved(c, q),
           Restartable(history'), Contiguous(history', Unanswered(q)')
    PROVE  WholePaths'
<1>1. EngineInv'
  BY StepInv DEF WholePaths
<1>2. Underway'
  BY UnderwayMove
<1>3. Resting'
  BY DEF Resting
<1> QED
  BY <1>1, <1>2, <1>3 DEF WholePaths

LEMMA RunFacts ==
    ASSUME TurnInv, WholePaths, NEW c \in Callers, pc[c] \notin {"idle", "abandoned"}
    PROVE  /\ Restartable(history) /\ Contiguous(history, Unanswered(pc[c]))
           /\ TypeOK /\ Locals(pc[c]) /\ RoundInv(pc[c]) /\ history \in Seq(Message)
           /\ \A d \in Callers : d # c => pc[d] = "idle"
<1>1. turn \in {"running", "saving"} /\ Locals(pc[c])
  BY DEF WholePaths, TurnInv, Driven
<1>2. \A d \in Callers : d # c => pc[d] = "idle"
  BY OthersIdle DEF WholePaths, EngineInv
<1> QED
  BY <1>1, <1>2 DEF WholePaths, Underway, EngineInv, TypeOK

LEMMA UnreportedPaths ==
    ASSUME TurnInv, WholePaths, NEW c \in Callers, Unreported(c)
    PROVE  WholePaths'
<1>1. turn = "running" /\ turn' = "running" /\ disk' = disk
  BY DEF Unreported, sessionVars
<1>2. Next
  BY DEF Unreported, Next, Advance
<1>3. PICK q \in Phases \ {"idle", "abandoned"} : Moved(c, q)
  BY TurnShape, UnreportedStep DEF Unreported, WholePaths
<1>4. pc[c] \notin {"idle", "abandoned"} /\ pc'[c] = q
  BY <1>3, TurnShape, UnreportedStep DEF Unreported, WholePaths, Moved
<1>f. /\ Restartable(history) /\ Contiguous(history, Unanswered(pc[c]))
      /\ TypeOK /\ Locals(pc[c]) /\ RoundInv(pc[c]) /\ history \in Seq(Message)
  BY <1>4, RunFacts
<1>m. ASSUME NEW p \in Phases, Goto(c, p) PROVE q = p
  BY <1>f, <1>m, <1>4 DEF Goto, TypeOK
<1>5. CASE BeginIteration(c) \/ GiveUp(c) \/ IterationFailed(c) \/ InvokeHandler(c) \/ NextCall(c)
  <2>1. history' = history /\ calls' = calls
    BY <1>5 DEF BeginIteration, GiveUp, IterationFailed, InvokeHandler, NextCall
  <2>2. Unanswered(q)' \subseteq Unanswered(pc[c])
    <3>1. CASE BeginIteration(c)
      <4>1. q = "before"
        BY <3>1, <1>m, PhaseFacts DEF BeginIteration
      <4> QED
        BY <4>1 DEF Unanswered
    <3>2. CASE GiveUp(c) \/ IterationFailed(c)
      <4>1. q = "ended"
        BY <3>2, <1>m, PhaseFacts DEF GiveUp, IterationFailed
      <4> QED
        BY <4>1 DEF Unanswered
    <3>3. CASE InvokeHandler(c)
      <4>1. q = "handler" /\ pc[c] = "started" /\ k' = k
        BY <3>3, <1>m, PhaseFacts DEF InvokeHandler
      <4> QED
        BY <4>1, <2>1 DEF Unanswered, Pending
    <3>4. CASE NextCall(c)
      <4>1. CASE k' = k + 1 /\ Goto(c, "gate")
        <5>1. q = "gate" /\ pc[c] = "answered"
          BY <3>4, <4>1, <1>m, PhaseFacts DEF NextCall
        <5> QED
          BY <4>1, <5>1, <2>1 DEF Unanswered, Pending
      <4>2. CASE Goto(c, "loop")
        <5>1. q = "loop"
          BY <4>2, <1>m, PhaseFacts
        <5> QED
          BY <5>1 DEF Unanswered
      <4> QED
        BY <3>4, <4>1, <4>2 DEF NextCall
    <3> QED
      BY <1>5, <3>1, <3>2, <3>3, <3>4
  <2>3. Contiguous(history', Unanswered(q)')
    BY <1>f, <2>1, <2>2, ContiguousLess
  <2> QED
    BY <1>1, <1>2, <1>3, <1>f, <2>1, <2>3, EnginePaths
<1>6. CASE IterationFinal(c)
  <2>1. /\ Assistant({}) \in Message /\ Assistant({}).answers = {} /\ Assistant({}).text # "turn"
        /\ history' = Append(history, Assistant({})) /\ pc[c] = "stepped" /\ q = "ended"
    BY <1>6, <1>m, MessageTypes, MessageParts, PhaseFacts DEF IterationFinal
  <2>2. Unanswered(q)' = {} /\ Unanswered(pc[c]) = {}
    BY <2>1 DEF Unanswered
  <2>3. Restartable(history') /\ Contiguous(history', Unanswered(q)')
    BY <1>f, <2>1, <2>2, RestartAppend, ContiguousAppend
  <2> QED
    BY <1>1, <1>2, <1>3, <2>3, EnginePaths
<1>7. CASE DispatchCalls(c)
  <2> DEFINE m == Assistant(Ids(calls))
  <2>1. /\ history' = Append(history, m) /\ pc[c] = "stepped" /\ q = "gate" /\ reply = "calls"
        /\ calls' = calls /\ k' = 1
    BY <1>7, <1>m, PhaseFacts DEF DispatchCalls
  <2>2. Ids(calls) \cap Uses(history) = {} /\ calls \in Seq(Nat)
    BY <1>f, <2>1 DEF RoundInv, TypeOK
  <2>3. m \in Message /\ m.answers = {} /\ m.text # "turn"
    BY <2>2, IdsNat, MessageTypes, MessageParts
  <2>4. Unanswered(q)' = Ids(calls) /\ Unanswered(pc[c]) = {}
    BY <2>1, <2>2, SMTT(30) DEF Unanswered, Pending, Ids
  <2> HIDE DEF m
  <2>5. Restartable(history') /\ Contiguous(history', Unanswered(q)')
    BY <1>f, <2>1, <2>2, <2>3, <2>4, RestartAppend, ContiguousAppend
  <2> QED
    BY <1>1, <1>2, <1>3, <2>5, EnginePaths
<1> QED
  BY <1>5, <1>6, <1>7 DEF Unreported

LEMMA OneAnswer ==
    ASSUME NEW h \in Seq(Message), NEW id, ToolResult(id) \in Message, NEW open, id \in open,
           NEW left \in SUBSET open, Restartable(h), Contiguous(h, open)
    PROVE  /\ Restartable(Append(h, ToolResult(id)))
           /\ Contiguous(Append(h, ToolResult(id)), left)
<1> DEFINE m == ToolResult(id)
           r == <<m>>
<1>1. m.uses = {} /\ m.answers = {id} /\ m.text # "turn"
  BY MessageParts
<1>2. Restartable(Append(h, m))
  BY <1>1, RestartAppend
<1> HIDE DEF m
<1>3. r \in Seq(Message) /\ Append(h, m) = h \o r
  BY DEF m
<1>4. \A i \in DOMAIN r : r[i].uses = {} /\ r[i].answers # {} /\ r[i].answers \subseteq open
  BY <1>1
<1> HIDE DEF r
<1>5. Contiguous(h \o r, left)
  BY <1>3, <1>4, ContiguousAnswers
<1> QED
  BY <1>2, <1>3, <1>5 DEF m

\* A round of one call has nothing left after its first answer.
LEMMA LastOfRound ==
    ASSUME TypeOK, Len(calls) <= 1, k > 0
    PROVE  Pending(k + 1) = {}
<1>1. calls \in Seq(Nat) /\ k \in Nat
  BY DEF TypeOK
<1> QED
  BY <1>1 DEF Pending

\* A picture is a message between two answers; after the last answer it separates nothing.
LEMMA ReportedPaths ==
    ASSUME TurnInv, WholePaths, "image" \notin Faults \/ Len(calls) <= 1,
           NEW c \in Callers, Reported(c)
    PROVE  WholePaths'
<1>1. turn = "running" /\ turn' \in {"running", "saving"} /\ disk' = disk
  BY DEF Reported
<1>2. Next
  BY DEF Reported, Next, Advance
<1>3. PICK q \in {"stepped", "started", "answered"} : Moved(c, q)
  BY TurnShape, ReportedStep DEF Reported, WholePaths
<1>4. pc[c] \notin {"idle", "abandoned"} /\ pc'[c] = q /\ q \in Phases \ {"idle", "abandoned"}
  BY <1>3, TurnShape, ReportedStep, PhaseFacts DEF Reported, WholePaths, Moved
<1>f. /\ Restartable(history) /\ Contiguous(history, Unanswered(pc[c]))
      /\ TypeOK /\ Locals(pc[c]) /\ RoundInv(pc[c]) /\ history \in Seq(Message)
  BY <1>4, RunFacts
<1>m. ASSUME NEW p \in Phases, Goto(c, p) PROVE q = p
  BY <1>f, <1>m, <1>4 DEF Goto, TypeOK
<1>5. Restartable(history') /\ Contiguous(history', Unanswered(q)')
  <2>1. CASE LlmStreamEnds(c)
    <3>1. q = "stepped" /\ pc[c] = "llm" /\ history' = history
      BY <2>1, <1>m, PhaseFacts DEF LlmStreamEnds
    <3>2. Unanswered(q)' = {} /\ Unanswered(pc[c]) = {}
      BY <3>1 DEF Unanswered
    <3> QED
      BY <1>f, <3>1, <3>2
  <2>2. CASE AllowCall(c)
    <3>1. q = "started" /\ pc[c] = "gate" /\ history' = history /\ k' = k /\ calls' = calls
      BY <2>2, <1>m, PhaseFacts DEF AllowCall
    <3>2. Unanswered(q)' = Unanswered(pc[c])
      BY <3>1 DEF Unanswered, Pending
    <3> QED
      BY <1>f, <3>1, <3>2
  <2>3. CASE AnswerUnrun(c) \/ AnswerCall(c)
    <3> DEFINE id == calls[k]
    <3>1. q = "answered" /\ pc[c] \in {"gate", "handler"} /\ k' = k /\ calls' = calls
      BY <2>3, <1>m, PhaseFacts DEF AnswerUnrun, AnswerCall
    <3>2. ToolResult(id) \in Message
      BY <3>1, TurnShape, CurrentCall DEF WholePaths
    <3>3. id \in Pending(k) /\ Pending(k + 1) \subseteq Pending(k)
      BY <3>1, <1>f, PendingIds DEF Locals, TypeOK
    <3>4. Unanswered(q)' = Pending(k + 1) /\ Unanswered(pc[c]) = Pending(k)
      BY <3>1 DEF Unanswered, Pending
    <3> DEFINE a == Append(history, ToolResult(id))
    <3>5. history' \in {a, Append(a, Image)}
      BY <2>3 DEF AnswerUnrun, AnswerCall
    <3>6. /\ a \in Seq(Message) /\ Restartable(a) /\ Contiguous(a, Pending(k + 1))
      <4> HIDE DEF id
      <4> QED
        BY <1>f, <3>2, <3>3, <3>4, OneAnswer
    <3>7. Image \in Message /\ Image.answers = {} /\ Image.text # "turn"
      BY MessageTypes DEF Image
    <3> HIDE DEF a
    <3>8. CASE history' = a
      BY <3>4, <3>6, <3>8
    <3>9. CASE history' = Append(a, Image)
      <4>1. Append(a, Image)[Len(a) + 1] = Image /\ Len(a) + 1 \in DOMAIN Append(a, Image)
        BY <3>6, <3>7
      <4>2. "image" \in Faults
        BY <3>9, <4>1 DEF Reported
      <4>3. Pending(k + 1) = {}
        BY <3>1, <4>2, <1>f, LastOfRound DEF Locals
      <4> QED
        BY <3>4, <3>6, <3>7, <3>9, <4>3, RestartAppend, ContiguousAppend
    <3> QED
      BY <3>5, <3>8, <3>9
  <2> QED
    BY <2>1, <2>2, <2>3 DEF Reported
<1> QED
  BY <1>1, <1>2, <1>3, <1>4, <1>5, EnginePaths

LEMMA HooksPaths ==
    ASSUME TurnInv, WholePaths, NEW c \in Callers, CliHooks(c)
    PROVE  WholePaths'
<1>1. /\ turn = "running" /\ turn' = "running" /\ disk' = disk
      /\ history \in Seq(Message) /\ NoEnv(history)
  BY DEF CliHooks, sessionVars, WholePaths, TurnInv, SessionTypeOK, TypeOK, Clean
<1>2. HooksReturn(c, history)
  BY <1>1, StripNothing DEF CliHooks
<1>3. Next
  BY <1>2 DEF Next, Advance, ApplyBeforeLlm
<1>4. history' = history /\ Moved(c, "llm") /\ pc[c] = "before" /\ "llm" \in Phases \ {"idle", "abandoned"}
  BY <1>1, <1>2, TurnShape, HooksStep, PhaseFacts DEF WholePaths
<1>5. Unanswered("llm")' = {} /\ Unanswered(pc[c]) = {}
  BY <1>4 DEF Unanswered
<1>6. Restartable(history') /\ Contiguous(history', Unanswered("llm")')
  BY <1>4, <1>5, RunFacts
<1> QED
  BY <1>1, <1>3, <1>4, <1>6, EnginePaths

LEMMA CompactPaths ==
    ASSUME TurnInv, WholePaths, NEW c \in Callers, CliCompact(c)
    PROVE  WholePaths'
<1>1. turn = "running" /\ turn' = "running" /\ disk' = disk
  BY DEF CliCompact
<1>2. PICK n \in DOMAIN history : SafeCutIndex(history, n) > 1 /\ CompactTo(c, SafeCutIndex(history, n))
  BY DEF CliCompact
<1> DEFINE cut == SafeCutIndex(history, n)
<1>3. pc[c] \in {"llm", "handler"} /\ Unanswered(pc[c]) = Open(c)
  BY <1>2 DEF CompactTo, Unanswered, Open
<1>f. /\ Restartable(history) /\ Contiguous(history, Open(c)) /\ history \in Seq(Message)
      /\ \A d \in Callers : d # c => pc[d] = "idle"
  BY <1>3, RunFacts
<1>4. cut \in SafeCuts(history, Open(c)) /\ cut \in 1..Len(history)
  BY <1>2, <1>f, CliCutIsSafe, SafeCutInRange
<1>s. \A i \in DOMAIN history : i < cut =>
         \A j \in DOMAIN history : cut <= j => history[i].uses \cap history[j].answers = {}
  BY <1>f, SafeCutSeparatesNothing
<1>5. CompactTo(c, cut)
  BY <1>2
<1> HIDE DEF cut
<1>6. EngineInv'
  <2>1. Next
    BY <1>4, <1>5 DEF Next, Compact
  <2> QED
    BY <2>1, StepInv DEF WholePaths
<1>7. /\ history' = CutAt(history, cut) /\ pc' = pc /\ calls' = calls /\ k' = k
  BY <1>5 DEF CompactTo
<1>8. Restartable(history') /\ Contiguous(history', Open(c))
  BY <1>4, <1>f, <1>s, <1>7, RestartCut, ContiguousCut
<1>9. Unanswered(pc[c])' = Open(c)
  <2>1. Unanswered(pc[c])' = Unanswered(pc[c])
    BY <1>7 DEF Unanswered, Pending
  <2> QED
    BY <1>3, <2>1
<1>10. Underway'
  <2>1. \A d \in Callers : pc'[d] \notin {"idle", "abandoned"} => d = c
    BY <1>7, <1>f
  <2>2. Contiguous(history', Unanswered(pc[c])')
    BY <1>8, <1>9
  <2> QED
    BY <1>8, <2>1, <2>2 DEF Underway
<1>11. Resting'
  BY <1>1 DEF Resting
<1> QED
  BY <1>6, <1>10, <1>11 DEF WholePaths

LEMMA SubagentPaths ==
    ASSUME TurnInv, WholePaths, NEW c \in Callers, SubagentCompacts(c)
    PROVE  WholePaths'
<1>1. turn = "running" /\ turn' = "running" /\ disk' = disk /\ UNCHANGED vars
  BY DEF SubagentCompacts
<1> QED
  BY <1>1, PathsStill

LEMMA CollectPaths ==
    ASSUME TurnInv, WholePaths, NEW c \in Callers, Collect(c)
    PROVE  WholePaths'
<1>1. turn' = turn /\ disk' = disk /\ cursor' = cursor
  BY DEF Collect, sessionVars, treeVars
<1>2. EngineInv'
  <2>1. Next
    BY DEF Collect, Next, Advance
  <2> QED
    BY <2>1, StepInv DEF WholePaths
<1>3. Moved(c, "idle") /\ history' = history /\ nextId' = nextId
  BY TurnShape, LeavingStep DEF Collect, Finalize, Cancel, Awaits, WholePaths
<1>4. Underway'
  BY <1>1, <1>3, UnderwayMove DEF WholePaths, Underway
<1>5. Resting'
  BY <1>1, <1>3 DEF WholePaths, Resting, Whole
<1> QED
  BY <1>2, <1>4, <1>5 DEF WholePaths

\* The rest of a sequence from its n-th element on.
LEMMA TailParts ==
    ASSUME NEW S, NEW s \in Seq(S), NEW n \in 1..Len(s)
    PROVE  /\ SubSeq(s, n, Len(s)) \in Seq(S)
           /\ \A i \in 1..Len(SubSeq(s, n, Len(s))) :
                 SubSeq(s, n, Len(s))[i] = s[n + i - 1] /\ n + i - 1 \in n..Len(s)
<1> DEFINE t == SubSeq(s, n, Len(s))
<1>1. t \in Seq(S) /\ Len(t) = Len(s) - n + 1
  OBVIOUS
<1>2. ASSUME NEW i \in 1..Len(t) PROVE t[i] = s[n + i - 1] /\ n + i - 1 \in n..Len(s)
  BY <1>1
<1> QED
  BY <1>1, <1>2

\* A run that ended, or was cancelled in the engine, leaves a whole path.
LEMMA EndsPaths ==
    ASSUME TurnInv, WholePaths, TurnInv', NEW c \in Callers, StreamEnds(c) \/ CancelStream(c)
    PROVE  WholePaths'
<1>1. turn = "running" /\ turn' = "settling" /\ disk' = disk /\ streaming' = streaming
  BY DEF StreamEnds, CancelStream, Abort
<1>2. EngineInv'
  <2>1. Next
    BY DEF StreamEnds, CancelStream, Next, Advance
  <2> QED
    BY <2>1, StepInv DEF WholePaths
<1>3. cursor' = history'
  BY <1>1 DEF WholePaths, TurnInv, Mirrored
<1>4. Moved(c, "idle") /\ pc[c] \notin {"idle", "abandoned"} /\ nextId' = nextId
  BY TurnShape, LeavingStep DEF StreamEnds, CancelStream, Finish, Cancel, Awaits, WholePaths
<1>f. /\ Restartable(history) /\ Contiguous(history, Unanswered(pc[c]))
      /\ TypeOK /\ Locals(pc[c]) /\ RoundInv(pc[c]) /\ history \in Seq(Message)
  BY <1>4, RunFacts
<1>5. Paired(history') /\ Restartable(history') /\ Contiguous(history', {})
  <2>1. CASE pc[c] \in {"gate", "handler"}
    <3> DEFINE p == SubSeq(calls, k, Len(calls))
               r == [i \in 1..Len(p) |-> ToolResult(p[i])]
    <3>1. history' = history \o r /\ history' = Backfill(history, p)
      BY <2>1 DEF StreamEnds, Finish, CancelStream, Cancel, Backfill
    <3>2. Paired(history')
      BY <2>1, <3>1, CancelPairs DEF WholePaths
    <3>3. k \in 1..Len(calls) /\ calls \in Seq(Nat)
      BY <2>1, TurnShape, CurrentCall DEF WholePaths
    <3>4. p \in Seq(Nat) /\ \A i \in 1..Len(p) : p[i] = calls[k + i - 1] /\ k + i - 1 \in k..Len(calls)
      BY <3>3, TailParts
    <3> HIDE DEF p
    <3>5. \A i \in 1..Len(p) : p[i] \in Pending(k)
      BY <3>4 DEF Pending
    <3>6. r \in Seq(Message) /\ \A i \in DOMAIN r : r[i] = ToolResult(p[i]) /\ i \in 1..Len(p)
      BY <3>4, MessageTypes
    <3> HIDE DEF r
    <3>7. /\ \A i \in DOMAIN r : r[i].uses = {} /\ r[i].answers # {} /\ r[i].answers \subseteq Pending(k)
          /\ \A i \in DOMAIN r : r[i].text # "turn"
      <4> SUFFICES ASSUME NEW i \in DOMAIN r
                   PROVE  /\ r[i].uses = {} /\ r[i].answers # {} /\ r[i].answers \subseteq Pending(k)
                          /\ r[i].text # "turn"
        OBVIOUS
      <4>1. p[i] \in Pending(k) /\ r[i] = ToolResult(p[i])
        BY <3>5, <3>6
      <4>2. r[i].uses = {} /\ r[i].answers = {p[i]} /\ r[i].text = "none"
        BY <4>1, MessageParts
      <4> QED
        BY <4>1, <4>2
    <3>8. Contiguous(history, Pending(k))
      BY <2>1, <1>f, UnansweredAt
    <3>9. Restartable(history \o r)
      BY <1>f, <3>6, <3>7, RestartConcat
    <3>10. Contiguous(history \o r, {})
      BY <1>f, <3>6, <3>7, <3>8, ContiguousAnswers
    <3> QED
      BY <3>1, <3>2, <3>9, <3>10
  <2>2. CASE pc[c] \notin {"gate", "handler"}
    <3>1. history' = history /\ pc[c] \in {"before", "llm", "ended"}
      BY <2>2 DEF StreamEnds, Finish, CancelStream, Cancel, Awaits
    <3>2. Unanswered(pc[c]) = {} /\ Paired(history)
      BY <1>f, <3>1 DEF Unanswered, RoundInv
    <3> QED
      BY <1>f, <3>1, <3>2
  <2> QED
    BY <2>1, <2>2
<1>6. \A id \in Uses(history') : id < nextId'
  BY <1>2 DEF EngineInv, IdsFresh
<1>7. Resting'
  BY <1>3, <1>5, <1>6 DEF Resting, Whole
<1>8. Underway'
  BY <1>1, <1>4, UnderwayMove
<1> QED
  BY <1>1, <1>2, <1>7, <1>8 DEF WholePaths

LEMMA PathsInit ==
    ASSUME "legacy" \notin Faults
    PROVE  SessionInit => TurnInv /\ WholePaths /\ disk = NoFile
<1> SUFFICES ASSUME SessionInit PROVE TurnInv /\ WholePaths /\ disk = NoFile
  OBVIOUS
<1>1. Init /\ disk = NoFile
  BY DEF SessionInit
<1>2. TurnInv /\ EngineInv
  BY <1>1, TurnInit, InitInv
<1>3. Resting
  BY WholeEmpty DEF SessionInit, Resting
<1>4. Underway
  BY <1>1 DEF SessionInit, Init, Underway
<1> QED
  BY <1>1, <1>2, <1>3, <1>4 DEF WholePaths

\* Every step of a process that lives.
LEMMA PathsStep ==
    ASSUME Faults \subseteq {"image"}, TurnInv, WholePaths, TurnInv',
           "image" \notin Faults \/ Len(calls) <= 1,
           [SessionNext]_allVars, ~Crash, ~Resume
    PROVE  WholePaths'
<1>1. CASE UNCHANGED allVars
  <2>1. UNCHANGED vars /\ cursor' = cursor /\ turn' = turn
    BY <1>1 DEF allVars, sessionVars, treeVars
  <2>2. turn' \notin {"running", "saving"} => Whole(cursor')
    BY <2>1 DEF WholePaths, Resting, Whole, vars
  <2> QED
    BY <2>1, <2>2, PathsStill
<1>2. ASSUME NEW c \in Callers, Progress(c)
      PROVE  WholePaths'
  BY <1>2, SavePaths, StreamPaths, HooksPaths, UnreportedPaths,
     ReportedPaths, EndsPaths, CollectPaths, IdlePaths DEF Progress
<1>3. ASSUME NEW c \in Callers, Disturbance(c)
      PROVE  WholePaths'
  <2>1. ~CancelCheckpoint(c) /\ ~CancelSave /\ ~HookRaises(c) /\ ~SaveRaises(c)
    BY DEF CancelCheckpoint, CancelSave, HookRaises, SaveRaises
  <2> QED
    BY <1>3, <2>1, EndsPaths, IdlePaths DEF Disturbance
<1>4. ASSUME NEW c \in Callers, CliCompact(c) \/ SubagentCompacts(c)
      PROVE  WholePaths'
  BY <1>4, CompactPaths, SubagentPaths
<1>5. ASSUME BeginTurn \/ Undo \/ Rewind \/ CompactNow
      PROVE  WholePaths'
  <2>1. ~Undo
    BY DEF Undo
  <2> QED
    BY <1>5, <2>1, IdlePaths
<1> QED
  BY <1>1, <1>2, <1>3, <1>4, <1>5 DEF SessionNext

\* The file changes by a save or a repair only, and only a crash leaves no process.
LEMMA SameDisk ==
    ASSUME Faults \subseteq {"image"}, [SessionNext]_allVars, ~Crash, ~Resume,
           ~(Opened \/ Checkpointed \/ Settled \/ Rewritten)
    PROVE  disk' = disk /\ (turn' = "off" => turn = "off")
<1>1. CASE UNCHANGED allVars
  BY <1>1 DEF allVars, sessionVars
<1>2. ASSUME NEW c \in Callers, Progress(c)
      PROVE  disk' = disk /\ (turn' = "off" => turn = "off")
  BY <1>2 DEF Progress, Stream, CliHooks, Unreported, Reported, StreamEnds, Collect,
     NewSession, sessionVars
<1>3. ASSUME NEW c \in Callers, Disturbance(c)
      PROVE  disk' = disk /\ (turn' = "off" => turn = "off")
  BY <1>3 DEF Disturbance, CancelBeforeStream, CancelStream, CancelCheckpoint, CancelSave,
     HookRaises, SaveRaises, Abort
<1>4. ASSUME NEW c \in Callers, CliCompact(c) \/ SubagentCompacts(c)
      PROVE  disk' = disk /\ (turn' = "off" => turn = "off")
  BY <1>4 DEF CliCompact, SubagentCompacts
<1>5. ASSUME BeginTurn \/ Undo \/ Rewind \/ CompactNow
      PROVE  disk' = disk /\ (turn' = "off" => turn = "off")
  BY <1>5 DEF BeginTurn, Undo, Rewind, MoveTo, CompactNow
<1> QED
  BY <1>1, <1>2, <1>3, <1>4, <1>5 DEF SessionNext

\* A save of a turn that goes on says "active"; the last one of a turn writes its whole path.
LEMMA DiskStep ==
    ASSUME TurnInv, WholePaths, DiskWhole, Faults \subseteq {"image"},
           [SessionNext]_allVars, ~Crash, ~Resume
    PROVE  DiskWhole'
<1>1. CASE Opened \/ Checkpointed \/ Settled \/ Rewritten
  <2>1. /\ cursor' = cursor /\ latest' = latest /\ status' = status /\ disk' = Snapshot
        /\ \/ turn = "opening" /\ turn' = "preparing"
           \/ turn = "saving" /\ turn' = "running"
           \/ turn \in {"settling", "rewriting"} /\ turn' = "idle"
    BY <1>1 DEF Opened, Checkpointed, Settled, Rewritten, Save, treeVars
  <2>2. disk'.path = latest /\ disk'.status = status
    BY <2>1 DEF Snapshot
  <2>3. CASE turn \in {"opening", "saving"}
    <3>1. status = "active"
      BY <2>3 DEF TurnInv, Newest
    <3> QED
      BY <2>1, <2>2, <3>1 DEF DiskWhole
  <2>4. CASE turn \in {"settling", "rewriting"}
    <3>1. latest = cursor /\ Paired(cursor)
      BY <2>4 DEF TurnInv, Newest, WholePaths, Resting, Whole
    <3> QED
      BY <2>4, <2>1, <2>2, <3>1 DEF DiskWhole
  <2> QED
    BY <2>1, <2>3, <2>4
<1>2. CASE ~(Opened \/ Checkpointed \/ Settled \/ Rewritten)
  <2>1. disk' = disk /\ (turn' = "off" => turn = "off")
    BY <1>2, SameDisk
  <2> QED
    BY <2>1 DEF DiskWhole
<1> QED
  BY <1>1, <1>2

LEMMA ProtectedInit ==
    ASSUME Protected
    PROVE  SessionInit => ProtectedInv
<1> SUFFICES ASSUME SessionInit PROVE ProtectedInv
  OBVIOUS
<1>1. TurnInv /\ WholePaths /\ disk = NoFile
  BY PathsInit DEF Protected
<1> QED
  BY <1>1 DEF ProtectedInv, DiskWhole, NoFile

LEMMA ProtectedStep ==
    ASSUME Protected
    PROVE  ProtectedInv /\ [SessionNext]_allVars => ProtectedInv'
<1> SUFFICES ASSUME ProtectedInv, [SessionNext]_allVars PROVE ProtectedInv'
  OBVIOUS
<1>1. TurnInv'
  BY TurnStep DEF ProtectedInv, Protected
<1>2. ~Crash
  <2>1. crashes \in 0..0
    BY DEF Protected, ProtectedInv, TurnInv, SessionTypeOK
  <2> QED
    BY <2>1 DEF Protected, Crash
<1>3. ~Resume
  BY DEF Resume, ProtectedInv, DiskWhole
<1>4. WholePaths'
  BY <1>1, <1>2, <1>3, PathsStep DEF ProtectedInv, Protected
<1>5. DiskWhole'
  BY <1>2, <1>3, DiskStep DEF ProtectedInv, Protected
<1> QED
  BY <1>1, <1>4, <1>5 DEF ProtectedInv

\* The inductive invariant of a session whose saves are protected, in which nothing raises
\* or dies, no tool returns a picture and nobody asks for /undo.
THEOREM ProtectedInvariant == Protected => (SessionSpec => []ProtectedInv)
<1> SUFFICES ASSUME Protected PROVE SessionSpec => []ProtectedInv
  OBVIOUS
<1> QED
  BY ProtectedInit, ProtectedStep, PTL DEF SessionSpec

\* What a turn of a protected session leaves can be sent: by the next turn, wherever the
\* user rewinds to, and by the one that resumes the session from the file.
THEOREM KeptIsSendable == Protected => (SessionSpec => []KeptSendable)
<1> SUFFICES ASSUME Protected PROVE SessionSpec => []KeptSendable
  OBVIOUS
<1>1. ProtectedInv => KeptSendable
  BY DEF ProtectedInv, WholePaths, Resting, DiskWhole, Whole, KeptSendable, IdleSendable, SettledNeedsNoRepair
<1> QED
  BY <1>1, ProtectedInvariant, PTL

\* And the provider is never sent a history it would reject, with the hooks, the cuts and
\* the rewinds of the CLI in place of those the engine allows for.
THEOREM SessionSeesPairedHistory == Protected => (SessionSpec => []PairedAtLlm)
<1> SUFFICES ASSUME Protected PROVE SessionSpec => []PairedAtLlm
  OBVIOUS
<1>1. ProtectedInv => PairedAtLlm
  BY DEF ProtectedInv, WholePaths, EngineInv, PairedAtLlm, RoundInv
<1> QED
  BY <1>1, ProtectedInvariant, PTL

----------------------------------------------------------------------------
(* The third invariant: what a resume makes of the session file.            *)

\* The engine is not involved.
LEMMA LoneStill ==
    ASSUME LoneCall, UNCHANGED vars,
           turn' \in {"running", "saving"} => turn \in {"running", "saving"},
           turn' = "saving" => ~compacted'
    PROVE  LoneCall'
<1>1. history' = history /\ pc' = pc /\ calls' = calls /\ k' = k
  BY DEF vars
<1>2. Pending(k)' = Pending(k)
  BY <1>1 DEF Pending
<1> QED
  BY <1>1, <1>2 DEF LoneCall

\* The generator of c moves; it is the only one.
LEMMA LoneMove ==
    ASSUME NEW c \in Callers, NEW q, Moved(c, q), Len(calls') <= 1,
           turn' \in {"running", "saving"} => q \notin {"idle", "abandoned"},
           turn' = "saving" => ~compacted',
           q \in {"gate", "started"} =>
              /\ history' # <<>>
              /\ history'[Len(history')].role = "assistant"
              /\ history'[Len(history')].uses = Pending(k)'
    PROVE  LoneCall'
<1>1. pc'[c] = q /\ \A d \in Callers : d # c => pc'[d] = "idle"
  BY DEF Moved
<1>2. \A d \in Callers : pc'[d] \in {"gate", "started"} => q \in {"gate", "started"}
  BY <1>1
<1>3. turn' \in {"running", "saving"} => \E d \in Callers : pc'[d] \notin {"idle", "abandoned"}
  BY <1>1
<1> QED
  BY <1>2, <1>3 DEF LoneCall

LEMMA LoneUnreported ==
    ASSUME TurnInv, WholePaths, LoneCall, NEW c \in Callers, Unreported(c)
    PROVE  LoneCall'
<1>1. turn = "running" /\ turn' = "running"
  BY DEF Unreported, sessionVars
<1>2. PICK q \in Phases \ {"idle", "abandoned"} : Moved(c, q)
  BY TurnShape, UnreportedStep DEF Unreported
<1>3. /\ pc[c] \notin {"idle", "abandoned"} /\ pc'[c] = q /\ TypeOK /\ Locals(pc[c])
      /\ Len(calls) <= 1
  BY <1>2, TurnShape, UnreportedStep DEF Unreported, Moved, Shape, LoneCall
<1>m. ASSUME NEW p \in Phases, Goto(c, p) PROVE q = p
  BY <1>m, <1>3 DEF Goto, TypeOK
<1>4. calls' = calls
  BY DEF Unreported, BeginIteration, GiveUp, IterationFailed, IterationFinal, DispatchCalls,
     InvokeHandler, NextCall
<1>5. CASE DispatchCalls(c)
  <2> DEFINE m == Assistant(Ids(calls))
  <2>1. history' = Append(history, m) /\ k' = 1 /\ history \in Seq(Message) /\ calls \in Seq(Nat)
    BY <1>3, <1>5 DEF DispatchCalls, TypeOK
  <2>2. m \in Message /\ m.uses = Ids(calls) /\ m.role = "assistant"
    BY <2>1, IdsNat, MessageTypes DEF Assistant
  <2>3. Pending(k)' = Ids(calls)
    BY <1>4, <2>1 DEF Pending, Ids
  <2> HIDE DEF m
  <2>4. history' # <<>> /\ history'[Len(history')] = m
    BY <2>1, <2>2
  <2> QED
    BY <1>1, <1>2, <1>3, <1>4, <2>2, <2>3, <2>4, LoneMove
<1>6. CASE ~DispatchCalls(c)
  <2>1. q \notin {"gate", "started"}
    <3>1. ~(Goto(c, "gate"))
      <4>1. ASSUME NextCall(c) PROVE k = Len(calls)
        <5>1. pc[c] = "answered" /\ k > 0 /\ k \in 0..Len(calls)
          BY <1>3, <4>1 DEF NextCall, Locals, TypeOK
        <5> QED
          BY <1>3, <5>1, <4>1 DEF NextCall
      <4>2. ASSUME NextCall(c) PROVE Goto(c, "loop")
        BY <4>1, <4>2, <1>3 DEF NextCall, TypeOK
      <4> QED
        BY <4>2, <1>m, <1>6, PhaseFacts DEF Unreported, BeginIteration, GiveUp, IterationFailed,
           IterationFinal, InvokeHandler
    <3> QED
      BY <3>1, <1>m, <1>6, PhaseFacts DEF Unreported, BeginIteration, GiveUp, IterationFailed,
         IterationFinal, InvokeHandler, NextCall
  <2> QED
    BY <1>1, <1>2, <1>3, <1>4, <2>1, LoneMove
<1> QED
  BY <1>5, <1>6

LEMMA LoneReported ==
    ASSUME OneCallRounds, TurnInv, WholePaths, LoneCall, NEW c \in Callers, Reported(c)
    PROVE  LoneCall'
<1>1. turn = "running" /\ turn' \in {"running", "saving"} /\ (turn' = "saving" => ~compacted')
  BY DEF Reported, Rebase, AppendTail
<1>2. PICK q \in {"stepped", "started", "answered"} : Moved(c, q)
  BY TurnShape, ReportedStep DEF Reported
<1>3. pc'[c] = q /\ TypeOK /\ Len(calls) <= 1
  BY <1>2, TurnShape DEF Moved, Shape, LoneCall
<1>m. ASSUME NEW p \in Phases, Goto(c, p) PROVE q = p
  BY <1>m, <1>3 DEF Goto, TypeOK
<1>4. Len(calls') <= 1
  <2>1. CASE LlmStreamEnds(c)
    <3>1. CASE calls' = <<>>
      BY <3>1
    <3>2. ASSUME NEW n \in 1..MaxCalls, calls' = [i \in 1..n |-> nextId + i - 1]
          PROVE  Len(calls') <= 1
      <4>1. n = 1
        BY EngineAssumption DEF OneCallRounds
      <4> QED
        BY <3>2, <4>1
    <3> QED
      BY <2>1, <3>1, <3>2 DEF LlmStreamEnds
  <2>2. CASE ~LlmStreamEnds(c)
    BY <1>3, <2>2 DEF Reported, AnswerUnrun, AllowCall, AnswerCall
  <2> QED
    BY <2>1, <2>2
<1>5. ASSUME q = "started"
      PROVE  /\ history' # <<>>
             /\ history'[Len(history')].role = "assistant"
             /\ history'[Len(history')].uses = Pending(k)'
  <2>1. AllowCall(c)
    BY <1>5, <1>m, PhaseFacts DEF Reported, LlmStreamEnds, AnswerUnrun, AnswerCall
  <2>2. pc[c] = "gate" /\ history' = history /\ k' = k /\ calls' = calls
    BY <2>1 DEF AllowCall
  <2> QED
    BY <2>2 DEF LoneCall, Pending
<1> QED
  BY <1>1, <1>2, <1>4, <1>5, LoneMove

LEMMA LoneEnds ==
    ASSUME TurnInv, NEW c \in Callers, StreamEnds(c) \/ CancelStream(c)
    PROVE  LoneCall'
<1>1. turn' = "settling" /\ calls' = <<>>
  BY DEF StreamEnds, CancelStream, Abort, Finish, Cancel, Leave, FreshLocals
<1>2. Moved(c, "idle")
  BY TurnShape, LeavingStep DEF StreamEnds, CancelStream
<1> QED
  BY <1>1, <1>2, LoneMove

LEMMA LoneStep ==
    ASSUME OneCallRounds, TurnInv, WholePaths, LoneCall, [SessionNext]_allVars
    PROVE  LoneCall'
<1>1. CASE UNCHANGED allVars
  BY <1>1, LoneStill DEF allVars, sessionVars, treeVars, LoneCall
<1>2. ASSUME NEW c \in Callers, Progress(c)
      PROVE  LoneCall'
  <2>1. CASE Opened \/ Checkpointed \/ Settled \/ Rewritten \/ Resume \/ NewSession
    BY <2>1, LoneStill DEF Opened, Checkpointed, Settled, Rewritten, Save, Resume, NewSession
  <2>2. CASE Stream(c)
    <3>1. calls' = <<>> /\ turn' = "running"
      BY <2>2 DEF Stream, StartWith, FreshLocals
    <3>2. Moved(c, "loop")
      BY <2>2, TurnShape, StartStep DEF Stream, TurnInv, SessionTypeOK
    <3> QED
      BY <3>1, <3>2, LoneMove
  <2>3. CASE CliHooks(c)
    <3>1. StripEnv(history) = history /\ history \in Seq(Message)
      BY StripNothing DEF TurnInv, Clean, SessionTypeOK, TypeOK
    <3>2. Moved(c, "llm") /\ calls' = calls /\ turn' = "running"
      BY <2>3, <3>1, TurnShape, HooksStep DEF CliHooks, HooksReturn, sessionVars
    <3> QED
      BY <3>2, LoneMove DEF LoneCall
  <2>4. CASE Collect(c)
    <3>1. Moved(c, "idle") /\ calls' = <<>> /\ turn' = turn /\ pc[c] = "abandoned"
      BY <2>4, TurnShape, LeavingStep DEF Collect, Finalize, Leave, FreshLocals, sessionVars
    <3>2. \A d \in Callers : pc[d] \in {"idle", "abandoned"}
      BY <3>1 DEF Moved
    <3>3. turn \notin {"running", "saving"}
      BY <3>2 DEF LoneCall
    <3> QED
      BY <3>1, <3>3, LoneMove
  <2> QED
    BY <1>2, <2>1, <2>2, <2>3, <2>4, LoneUnreported, LoneReported, LoneEnds DEF Progress
<1>3. ASSUME NEW c \in Callers, Disturbance(c)
      PROVE  LoneCall'
  <2>1. ~CancelCheckpoint(c) /\ ~CancelSave /\ ~HookRaises(c) /\ ~SaveRaises(c)
    BY DEF OneCallRounds, CancelCheckpoint, CancelSave, HookRaises, SaveRaises
  <2>2. CASE Crash
    BY <2>2 DEF Crash, FreshLocals, LoneCall
  <2>3. CASE CancelBeforeStream
    BY <2>3, LoneStill DEF CancelBeforeStream, Abort
  <2> QED
    BY <1>3, <2>1, <2>2, <2>3, LoneEnds DEF Disturbance
<1>4. ASSUME NEW c \in Callers, CliCompact(c) \/ SubagentCompacts(c)
      PROVE  LoneCall'
  <2>1. CASE CliCompact(c)
    <3>1. PICK n \in DOMAIN history : CompactTo(c, SafeCutIndex(history, n))
      BY <2>1 DEF CliCompact
    <3>2. turn' = "running" /\ turn = "running" /\ pc' = pc /\ calls' = calls /\ pc[c] \in {"llm", "handler"}
      BY <2>1, <3>1 DEF CliCompact, CompactTo
    <3>3. \A d \in Callers : d # c => pc[d] = "idle"
      BY <3>2, OthersIdle DEF WholePaths, EngineInv
    <3>4. \A d \in Callers : pc'[d] \notin {"gate", "started"}
      BY <3>2, <3>3
    <3> QED
      BY <3>2, <3>4 DEF LoneCall
  <2>2. CASE SubagentCompacts(c)
    BY <2>2, LoneStill DEF SubagentCompacts
  <2> QED
    BY <1>4, <2>1, <2>2
<1>5. ASSUME BeginTurn \/ Undo \/ Rewind \/ CompactNow
      PROVE  LoneCall'
  BY <1>5, LoneStill DEF BeginTurn, Undo, Rewind, MoveTo, CompactNow
<1> QED
  BY <1>1, <1>2, <1>3, <1>4, <1>5 DEF SessionNext

\* A path that can be sent needs no repair.
LEMMA NothingToRepair ==
    ASSUME NEW h \in Seq(Message), h # <<>>, Paired(h)
    PROVE  Recovered(h) = h
<1>1. Len(h) \in DOMAIN h /\ \A j \in DOMAIN h : ~(Len(h) < j)
  OBVIOUS
<1>2. SUFFICES ASSUME h[Len(h)].uses # {} PROVE FALSE
  BY DEF Recovered
<1>3. PICK id \in h[Len(h)].uses \ {} : TRUE
  BY <1>2
<1>4. Answered(h, {})
  BY DEF Paired, PairedExcept
<1>5. PICK j \in DOMAIN h : SameRound(h, Len(h), j)
  BY <1>1, <1>3, <1>4 DEF Answered
<1> QED
  BY <1>1, <1>5 DEF SameRound

\* What a kill finds of a live run, once it is on disk: the repair closes the one call that
\* may be open.
LEMMA LiveResumes ==
    ASSUME TurnInv, WholePaths, LoneCall, history # <<>>,
           NEW c \in Callers, pc[c] \in {"stepped", "started", "answered"}
    PROVE  Whole(Recovered(history))
<1>f. /\ Restartable(history) /\ Contiguous(history, Unanswered(pc[c]))
      /\ TypeOK /\ RoundInv(pc[c]) /\ history \in Seq(Message)
  BY RunFacts
<1>u. \A id \in Uses(history) : id < nextId
  BY DEF WholePaths, EngineInv, IdsFresh
<1>1. CASE Unanswered(pc[c]) = {} /\ Paired(history)
  <2>1. Whole(history)
    BY <1>f, <1>u, <1>1 DEF Whole
  <2> QED
    BY <1>f, <2>1, NothingToRepair DEF Whole
<1>2. CASE pc[c] = "started"
  <2> DEFINE id == calls[k]
             open == Pending(k)
  <2>1. /\ k > 0 /\ PairedExcept(history, open) /\ open = Unanswered(pc[c])
        /\ k \in 0..Len(calls) /\ calls \in Seq(Nat) /\ Len(calls) <= 1
    BY <1>f, <1>2 DEF RoundInv, Unanswered, TypeOK, LoneCall
  <2>2. open = {id} /\ id \in Nat
    <3>1. k = 1 /\ Len(calls) = 1
      <4>1. \A n \in Nat : n <= 1 => \A i \in 0..n : i > 0 => i = 1 /\ n = 1
        OBVIOUS
      <4> QED
        BY <2>1, <4>1, LenProperties, Zenon
    <3> QED
      BY <2>1, <3>1, SMTT(30) DEF Pending
  <2>3. history[Len(history)].role = "assistant" /\ history[Len(history)].uses = open
    BY <1>2 DEF LoneCall
  <2> HIDE DEF id, open
  <2>4. Recovered(history) = Append(history, ToolResult(id))
    BY <2>2, <2>3 DEF Recovered, ToolResult
  <2>5. open \ {id} = {}
    BY <2>2
  <2>6. /\ Uses(Append(history, ToolResult(id))) = Uses(history)
        /\ Paired(Append(history, ToolResult(id)))
    BY <1>f, <2>1, <2>2, <2>5, CloseCall DEF Paired
  <2>7. /\ Restartable(Append(history, ToolResult(id)))
        /\ Contiguous(Append(history, ToolResult(id)), {})
    BY <1>f, <2>1, <2>2, OneAnswer, MessageTypes
  <2> QED
    BY <1>u, <2>4, <2>6, <2>7 DEF Whole
<1>3. CASE pc[c] = "stepped"
  BY <1>f, <1>1, <1>3 DEF RoundInv, Unanswered
<1>4. CASE pc[c] = "answered"
  <2>1. Pending(k + 1) = {}
    BY <1>f, <1>4, LastOfRound DEF RoundInv, LoneCall
  <2> QED
    BY <1>f, <1>1, <1>4, <2>1 DEF RoundInv, Unanswered, Paired
<1> QED
  BY <1>2, <1>3, <1>4

\* A save writes what a resume can use.
LEMMA SaveResumes ==
    ASSUME TurnInv, WholePaths, LoneCall, Opened \/ Checkpointed \/ Settled \/ Rewritten
    PROVE  DiskResumes'
<1>1. /\ UNCHANGED vars /\ disk' = Snapshot
      /\ turn \in {"opening", "saving", "settling", "rewriting"}
  BY DEF Opened, Checkpointed, Settled, Rewritten, Save
<1>2. /\ latest = cursor /\ cursor # <<>> /\ cursor \in Seq(Message) /\ disk'.path = cursor
      /\ disk'.status = status
  BY <1>1 DEF TurnInv, Newest, SessionTypeOK, Snapshot
<1>3. CASE turn # "saving"
  <2>1. Whole(cursor)
    BY <1>1, <1>3 DEF WholePaths, Resting
  <2>2. Recovered(cursor) = cursor
    BY <1>2, <2>1, NothingToRepair DEF Whole
  <2>3. Whole(cursor)'
    BY <1>1, <2>1 DEF Whole, vars, Opened, Checkpointed, Settled, Rewritten, Save, treeVars
  <2>4. cursor' = cursor
    BY DEF Opened, Checkpointed, Settled, Rewritten, Save, treeVars
  <2> QED
    BY <1>2, <2>2, <2>3, <2>4 DEF DiskResumes, Whole
<1>4. CASE turn = "saving"
  <2>1. PICK c \in Callers : pc[c] \notin {"idle", "abandoned"}
    BY <1>4 DEF LoneCall
  <2>2. pc[c] \in {"stepped", "started", "answered"}
    BY <1>4, <2>1 DEF TurnInv, Driven
  <2>3. cursor = history /\ status = "active"
    BY <1>4, <2>2 DEF TurnInv, Mirrored, Newest, LoneCall, InStep
  <2>4. Whole(Recovered(history))
    BY <1>2, <2>2, <2>3, LiveResumes
  <2>5. disk'.path = history /\ disk'.status = "active" /\ nextId' = nextId
    BY <1>1, <1>2, <2>3 DEF vars
  <2> QED
    BY <2>4, <2>5 DEF DiskResumes, Whole, Recovered
<1> QED
  BY <1>3, <1>4

\* The provider's ids only grow, over crashes too.
LEMMA IdsGrow ==
    ASSUME TurnInv, [SessionNext]_allVars
    PROVE  nextId \in Nat /\ nextId' \in Nat /\ nextId <= nextId'
<1>1. nextId \in Nat /\ nextId' \in Nat
  BY TurnStep DEF TurnInv, SessionTypeOK, TypeOK
<1>2. CASE UNCHANGED vars
  BY <1>1, <1>2 DEF vars
<1>3. CASE Crash
  BY <1>1, <1>3 DEF Crash
<1>4. ASSUME NEW c \in Callers, LlmStreamEnds(c)
      PROVE  nextId <= nextId'
  BY <1>1, <1>4 DEF LlmStreamEnds
<1>5. CASE nextId' = nextId
  BY <1>1, <1>5
<1>6. UNCHANGED vars \/ Crash \/ (\E c \in Callers : LlmStreamEnds(c)) \/ nextId' = nextId
  <2>1. ASSUME NEW c \in Callers, Progress(c)
        PROVE  UNCHANGED vars \/ LlmStreamEnds(c) \/ nextId' = nextId
    <3>1. CASE Unreported(c) \/ Reported(c)
      BY <3>1 DEF Unreported, Reported, BeginIteration, GiveUp, IterationFailed, IterationFinal,
         DispatchCalls, InvokeHandler, NextCall, AnswerUnrun, AllowCall, AnswerCall
    <3>2. CASE Stream(c) \/ CliHooks(c) \/ StreamEnds(c) \/ Collect(c)
      BY <3>2 DEF Stream, StartWith, CliHooks, HooksReturn, StreamEnds, Finish, Collect, Finalize
    <3>3. CASE Opened \/ Checkpointed \/ Settled \/ Rewritten \/ Resume \/ NewSession
      BY <3>3 DEF Opened, Checkpointed, Settled, Rewritten, Save, Resume, NewSession
    <3> QED
      BY <2>1, <3>1, <3>2, <3>3 DEF Progress
  <2>2. ASSUME NEW c \in Callers, Disturbance(c)
        PROVE  UNCHANGED vars \/ Crash \/ nextId' = nextId
    BY <2>2 DEF Disturbance, CancelBeforeStream, CancelStream, CancelCheckpoint, CancelSave,
       HookRaises, SaveRaises, Cancel, Abandon, Raise
  <2>3. ASSUME NEW c \in Callers, CliCompact(c) \/ SubagentCompacts(c)
        PROVE  UNCHANGED vars \/ nextId' = nextId
    BY <2>3 DEF CliCompact, CompactTo, SubagentCompacts
  <2>4. BeginTurn \/ Undo \/ Rewind \/ CompactNow => UNCHANGED vars
    BY DEF BeginTurn, Undo, Rewind, MoveTo, CompactNow
  <2>5. UNCHANGED allVars => UNCHANGED vars
    BY DEF allVars
  <2> QED
    BY <2>1, <2>2, <2>3, <2>4, <2>5 DEF SessionNext
<1> QED
  BY <1>1, <1>2, <1>3, <1>4, <1>5, <1>6

\* A resumed session continues with a whole path, and so does its file.
LEMMA ResumeWhole ==
    ASSUME TurnInv, DiskResumes, Resume
    PROVE  /\ Whole(cursor') /\ UNCHANGED vars /\ turn' = "idle"
           /\ DiskResumes'
<1> DEFINE path == IF disk.status = "active" THEN Recovered(disk.path) ELSE disk.path
<1>1. /\ cursor' = path /\ disk' = [disk EXCEPT !.path = path] /\ UNCHANGED vars
      /\ turn' = "idle" /\ disk # NoFile
  BY DEF Resume, Extend
<1>2. Whole(path)
  BY DEF DiskResumes
<1>3. path \in Seq(Message) /\ disk'.path = path /\ disk'.status = disk.status
  <2>1. cursor' \in Seq(Message)
    BY ResumesTurn DEF TurnInv, SessionTypeOK
  <2> QED
    BY <1>1, <2>1 DEF TurnInv, SessionTypeOK
<1>4. path # <<>>
  <2>1. disk.path \in Seq(Message) /\ disk.path # <<>>
    BY <1>1 DEF TurnInv, SessionTypeOK, Newest
  <2> QED
    BY <2>1 DEF Recovered
<1> HIDE DEF path
<1>5. Recovered(path) = path
  BY <1>2, <1>3, <1>4, NothingToRepair DEF Whole
<1>6. nextId' = nextId
  BY <1>1 DEF vars
<1>7. DiskResumes'
  <2>1. Recovered(disk'.path) = disk'.path
    BY <1>3, <1>5
  <2>2. Whole(disk'.path)
    BY <1>2, <1>3
  <2> QED
    BY <2>1, <2>2, <1>6 DEF DiskResumes, Whole
<1> QED
  BY <1>1, <1>2, <1>7

LEMMA CrashWhole ==
    ASSUME TurnInv', Crash
    PROVE  WholePaths'
<1>1. /\ turn' = "off" /\ cursor' = <<>> /\ history' = <<>> /\ calls' = <<>> /\ k' = 0 /\ cards' = {}
      /\ \A c \in Callers : pc'[c] = "idle"
  BY DEF Crash, Extend, FreshLocals
<1>2. TypeOK' /\ SingleFlight'
  BY DEF TurnInv, SessionTypeOK
<1>3. IdsFresh'
  BY <1>1, EmptyPaired DEF IdsFresh, Ids
<1>4. \A c \in Callers : RoundInv(pc[c])'
  BY <1>1 DEF RoundInv
<1>5. Resting'
  <2>1. Paired(<<>>) /\ Restartable(<<>>) /\ Contiguous(<<>>, {}) /\ Uses(<<>>) = {}
    BY EmptyPaired, RestartEmpty
  <2> QED
    BY <1>1, <2>1 DEF Resting, Whole
<1>6. Underway'
  BY <1>1 DEF Underway
<1> QED
  BY <1>2, <1>3, <1>4, <1>5, <1>6 DEF WholePaths, EngineInv

LEMMA OneCallInit ==
    ASSUME OneCallRounds
    PROVE  SessionInit => OneCallInv
<1> SUFFICES ASSUME SessionInit PROVE OneCallInv
  OBVIOUS
<1>1. TurnInv /\ WholePaths /\ disk = NoFile
  BY PathsInit DEF OneCallRounds
<1>2. LoneCall
  BY DEF SessionInit, Init, LoneCall
<1>3. DiskResumes
  BY <1>1, WholeEmpty DEF DiskResumes, NoFile
<1> QED
  BY <1>1, <1>2, <1>3 DEF OneCallInv

LEMMA OneCallStep ==
    ASSUME OneCallRounds
    PROVE  OneCallInv /\ [SessionNext]_allVars => OneCallInv'
<1> SUFFICES ASSUME OneCallInv, [SessionNext]_allVars PROVE OneCallInv'
  OBVIOUS
<1>i. TurnInv /\ WholePaths /\ LoneCall /\ DiskResumes
  BY DEF OneCallInv
<1>1. TurnInv'
  BY <1>i, TurnStep
<1>2. LoneCall'
  BY <1>i, LoneStep
<1>3. WholePaths'
  <2>1. CASE Crash
    BY <1>1, <2>1, CrashWhole
  <2>2. CASE Resume
    BY <1>i, <2>2, ResumeWhole, PathsStill
  <2>3. CASE ~Crash /\ ~Resume
    BY <1>i, <1>1, <2>3, PathsStep DEF OneCallRounds, LoneCall
  <2> QED
    BY <2>1, <2>2, <2>3
<1>4. DiskResumes'
  <2>1. CASE Resume
    BY <1>i, <2>1, ResumeWhole
  <2>2. CASE Opened \/ Checkpointed \/ Settled \/ Rewritten
    BY <1>i, <2>2, SaveResumes
  <2>3. CASE ~Resume /\ ~(Opened \/ Checkpointed \/ Settled \/ Rewritten)
    <3>1. disk' = disk
      BY <2>3, SameDisk DEF OneCallRounds, Crash
    <3> DEFINE path == IF disk.status = "active" THEN Recovered(disk.path) ELSE disk.path
    <3>2. Whole(path)
      BY <1>i DEF DiskResumes
    <3>3. path' = path
      BY <3>1 DEF Recovered
    <3>4. Uses(path) \in SUBSET Nat
      <4>1. path \in Seq(Message)
        <5>1. disk.path \in Seq(Message)
          BY <1>i DEF TurnInv, SessionTypeOK
        <5>2. CASE path = disk.path
          BY <5>1, <5>2
        <5>3. CASE path # disk.path
          <6>1. disk # NoFile
            BY <5>3 DEF NoFile
          <6>2. disk.path # <<>>
            BY <1>i, <6>1 DEF TurnInv, Newest
          <6> QED
            BY <5>1, <6>2, RecoveredTypes
        <5> QED
          BY <5>2, <5>3
      <4> QED
        BY <4>1, UsesNat
    <3>5. \A id \in Uses(path) : id < nextId'
      BY <1>i, <3>2, <3>4, IdsGrow DEF Whole
    <3>6. DiskResumes' = Whole(path)'
      BY DEF DiskResumes
    <3> HIDE DEF path
    <3> QED
      BY <3>2, <3>3, <3>5, <3>6 DEF Whole
  <2> QED
    BY <2>1, <2>2, <2>3
<1> QED
  BY <1>1, <1>2, <1>3, <1>4 DEF OneCallInv

\* The inductive invariant of a session that makes one call at a time and may die anywhere.
THEOREM OneCallInvariant == OneCallRounds => (SessionSpec => []OneCallInv)
<1> SUFFICES ASSUME OneCallRounds PROVE SessionSpec => []OneCallInv
  OBVIOUS
<1> QED
  BY OneCallInit, OneCallStep, PTL DEF SessionSpec

\* Kills included, what a session keeps can be sent, and the provider sees paired histories.
THEOREM SendableOverCrashes == OneCallRounds => (SessionSpec => [](KeptSendable /\ PairedAtLlm))
<1> SUFFICES ASSUME OneCallRounds PROVE SessionSpec => [](KeptSendable /\ PairedAtLlm)
  OBVIOUS
<1>1. OneCallInv => KeptSendable
  BY DEF OneCallInv, WholePaths, Resting, DiskResumes, Whole, KeptSendable, IdleSendable,
     SettledNeedsNoRepair
<1>2. OneCallInv => PairedAtLlm
  BY DEF OneCallInv, WholePaths, EngineInv, PairedAtLlm, RoundInv
<1> QED
  BY <1>1, <1>2, OneCallInvariant, PTL

\* After a kill at any step, any number of times, the session a user resumes can be sent,
\* as the docstring of orphan_recovery says, as long as no round makes two calls.
THEOREM ResumedIsSendable == OneCallRounds => (SessionSpec => ResumeIsSendable)
<1> SUFFICES ASSUME OneCallRounds PROVE SessionSpec => ResumeIsSendable
  OBVIOUS
<1> DEFINE Sends == turn = "off" /\ turn' = "idle" => Paired(cursor')
<1>1. OneCallInv /\ [SessionNext]_allVars => [Sends]_allVars
  <2> SUFFICES ASSUME OneCallInv, SessionNext, turn = "off", turn' = "idle" PROVE Paired(cursor')
    OBVIOUS
  <2>1. CASE Resume
    BY <2>1, ResumeWhole DEF OneCallInv, Whole
  <2>2. CASE ~Resume
    <3>1. WholePaths'
      BY OneCallStep DEF OneCallInv
    <3> QED
      BY <3>1 DEF WholePaths, Resting, Whole
  <2> QED
    BY <2>1, <2>2
<1> HIDE DEF Sends
<1>2. SessionSpec => [][Sends]_allVars
  BY <1>1, OneCallInvariant, PTL DEF SessionSpec
<1> QED
  BY <1>2 DEF ResumeIsSendable, Sends
=============================================================================
