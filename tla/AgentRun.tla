------------------------------ MODULE AgentRun ------------------------------
(***************************************************************************)
(* One AgentEngine (phoson_agent/agent.py) with its AgentLoop (_loop.py)   *)
(* and ToolRunner (_tool_runner.py), and the tasks that iterate its        *)
(* stream().                                                               *)
(*                                                                         *)
(* Everything runs on one asyncio loop, so control changes hands only at   *)
(* an await or at a yield; each such point is a value of pc and each       *)
(* action is the code between two of them.                                 *)
(*                                                                         *)
(*   awaits of the engine   "before"   on_before_llm hooks                 *)
(*                          "llm"      the provider's stream               *)
(*                          "gate"     on_before_tool hooks of a call      *)
(*                          "handler"  the tool handler, on_after_tool     *)
(*   yields to the consumer "loop"     between two iterations              *)
(*                          "stepped"  AgentStepDoneEvent of the LLM step  *)
(*                          "started"  AgentToolStartEvent                 *)
(*                          "answered" AgentToolDoneEvent, AgentStepDone   *)
(*                          "ended"    AgentDoneEvent or AgentErrorEvent   *)
(*   "abandoned": the consumer left the loop without closing the generator *)
(*   (run() returns from inside it; a cancellation hits the consumer while *)
(*   it holds an event) and asyncio has not finalized it yet.              *)
(*                                                                         *)
(* The locals of _stream_impl exist once: SingleFlight is what makes one   *)
(* copy enough.                                                            *)
(***************************************************************************)
EXTENDS Integers, Sequences, ToolPairing

CONSTANTS
    Callers,        \* the tasks that may iterate stream() of this engine
    MaxIterations,  \* AgentEngine.max_iterations
    MaxCalls,       \* bound: tool calls in one LLM response
    MaxRuns         \* bound: accepted stream() calls

ASSUME EngineAssumption ==
    /\ MaxIterations \in Nat
    /\ MaxCalls \in Nat
    /\ MaxRuns \in Nat

VARIABLES
    running,   \* AgentEngine._running
    pc,        \* where each caller's stream() is suspended
    history,   \* AgentEngine._history, the list the loop appends to
    iter,      \* iterations begun in this run
    calls,     \* outcome.tool_calls: the ids of the calls of this round
    k,         \* index of the call being executed
    reply,     \* what the last LLM stream ended with
    nextId,    \* the next tool_call_id a provider will choose
    cards,     \* calls whose AgentToolStartEvent has no AgentToolDoneEvent
    outcome,   \* how each caller's last stream() went
    runs       \* accepted stream() calls so far

vars == <<running, pc, history, iter, calls, k, reply, nextId, cards, outcome, runs>>

Awaits == {"before", "llm", "gate", "handler"}
Yields == {"loop", "stepped", "started", "answered", "ended"}
Phases == Awaits \cup Yields \cup {"idle", "abandoned"}
Outcomes == {"none", "done", "error", "cancelled", "raised", "refused"}

Ids(s) == {s[i] : i \in DOMAIN s}

TypeOK ==
    /\ running \in BOOLEAN
    /\ pc \in [Callers -> Phases]
    /\ history \in Seq(Message)
    /\ iter \in 0..MaxIterations
    /\ calls \in Seq(Nat)
    /\ k \in 0..Len(calls)
    /\ reply \in {"none", "failed", "final", "calls"}
    /\ nextId \in Nat
    /\ cards \in SUBSET Nat
    /\ outcome \in [Callers -> Outcomes]
    /\ runs \in 0..MaxRuns

Init ==
    /\ running = FALSE
    /\ pc = [c \in Callers |-> "idle"]
    /\ history = <<>>
    /\ iter = 0
    /\ calls = <<>>
    /\ k = 0
    /\ reply = "none"
    /\ nextId = 0
    /\ cards = {}
    /\ outcome = [c \in Callers |-> "none"]
    /\ runs = 0

----------------------------------------------------------------------------
(* stream(): the single-flight guard.                                       *)

Goto(c, phase) == pc' = [pc EXCEPT ![c] = phase]

\* A caller sends a new conversation, or the next user turn of the last one.
\* Handing in a history that is not Paired is the caller's fault, not modelled here.
Messages ==
    {<<UserText>>} \cup (IF Paired(history) THEN {Append(history, UserText)} ELSE {})

\* The locals of _stream_impl and of the loops below it, before their first use.
FreshLocals ==
    /\ iter' = 0
    /\ calls' = <<>>
    /\ k' = 0
    /\ reply' = "none"
    /\ cards' = {}

StartWith(c, messages) ==
    /\ pc[c] = "idle"
    /\ ~running
    /\ runs < MaxRuns
    /\ running' = TRUE
    /\ history' = messages
    /\ outcome' = [outcome EXCEPT ![c] = "none"]
    /\ runs' = runs + 1
    /\ FreshLocals
    /\ Goto(c, "loop")
    /\ UNCHANGED nextId

Start(c) == \E messages \in Messages : StartWith(c, messages)

\* Seeded fault: the check moved inside the try, whose finally clears the flag.
Refuse_InsideTry(c) ==
    /\ pc[c] = "idle"
    /\ running
    /\ running' = FALSE
    /\ outcome' = [outcome EXCEPT ![c] = "refused"]
    /\ UNCHANGED <<pc, history, iter, calls, k, reply, nextId, cards, runs>>

\* PhosonAgentRunningError: raised before the try, so _running stays set.
Refuse(c) ==
    /\ pc[c] = "idle"
    /\ running
    /\ outcome' = [outcome EXCEPT ![c] = "refused"]
    /\ UNCHANGED <<running, pc, history, iter, calls, k, reply, nextId, cards, runs>>

\* The generator's frame is gone, its locals with it: its finally clears the flag.
Leave(c, how) ==
    /\ running' = FALSE
    /\ FreshLocals
    /\ Goto(c, "idle")
    /\ outcome' = [outcome EXCEPT ![c] = how]

----------------------------------------------------------------------------
(* One iteration: hooks, LLM stream, dispatch on its outcome.               *)

BeginIteration(c) ==
    /\ pc[c] = "loop"
    /\ iter < MaxIterations
    /\ iter' = iter + 1
    /\ Goto(c, "before")
    /\ UNCHANGED <<running, history, calls, k, reply, nextId, cards, outcome, runs>>

\* Seeded fault: the exhausted budget is noticed one iteration late.
GiveUp_OffByOne(c) ==
    /\ pc[c] = "loop"
    /\ iter > MaxIterations
    /\ outcome' = [outcome EXCEPT ![c] = "error"]
    /\ Goto(c, "ended")
    /\ UNCHANGED <<running, history, iter, calls, k, reply, nextId, cards, runs>>

\* The budget is spent: AgentErrorEvent(code="max_iterations").
GiveUp(c) ==
    /\ pc[c] = "loop"
    /\ iter >= MaxIterations
    /\ outcome' = [outcome EXCEPT ![c] = "error"]
    /\ Goto(c, "ended")
    /\ UNCHANGED <<running, history, iter, calls, k, reply, nextId, cards, runs>>

\* The engine folds what the hooks return into its history.
HooksReturn(c, messages) ==
    /\ pc[c] = "before"
    /\ history' = messages
    /\ Goto(c, "llm")
    /\ UNCHANGED <<running, iter, calls, k, reply, nextId, cards, outcome, runs>>

\* The hooks return the list they were given or a compacted one.
ApplyBeforeLlm(c) ==
    \/ HooksReturn(c, history)
    \/ \E cut \in SafeCuts(history, {}) : HooksReturn(c, CutAt(history, cut))

\* messages[:] = compacted, in a middleware that wraps the LLM call, or replace_history,
\* in a tool handler: the list itself is rewritten while the engine awaits.
CompactTo(c, cut) ==
    /\ pc[c] \in {"llm", "handler"}
    /\ history' = CutAt(history, cut)
    /\ UNCHANGED <<running, pc, iter, calls, k, reply, nextId, cards, outcome, runs>>

\* The calls of the round that are not answered yet.
Pending(from) == {calls[i] : i \in from..Len(calls)}

Open(c) == IF pc[c] = "handler" THEN Pending(k) ELSE {}

Compact(c) == \E cut \in SafeCuts(history, Open(c)) : CompactTo(c, cut)

\* The LLM stream ends with an error or a protocol violation, a final answer, or
\* tool calls; AgentStepDoneEvent is yielded before the history is touched.
LlmStreamEnds(c) ==
    /\ pc[c] = "llm"
    /\ \/ /\ reply' \in {"failed", "final"}
          /\ calls' = <<>>
          /\ UNCHANGED nextId
       \/ \E n \in 1..MaxCalls :
             /\ reply' = "calls"
             /\ calls' = [i \in 1..n |-> nextId + i - 1]
             /\ nextId' = nextId + n
    /\ Goto(c, "stepped")
    /\ UNCHANGED <<running, history, iter, k, cards, outcome, runs>>

IterationFailed(c) ==
    /\ pc[c] = "stepped"
    /\ reply = "failed"
    /\ outcome' = [outcome EXCEPT ![c] = "error"]
    /\ Goto(c, "ended")
    /\ UNCHANGED <<running, history, iter, calls, k, reply, nextId, cards, runs>>

IterationFinal(c) ==
    /\ pc[c] = "stepped"
    /\ reply = "final"
    /\ history' = Append(history, Assistant({}))
    /\ outcome' = [outcome EXCEPT ![c] = "done"]
    /\ Goto(c, "ended")
    /\ UNCHANGED <<running, iter, calls, k, reply, nextId, cards, runs>>

DispatchCalls(c) ==
    /\ pc[c] = "stepped"
    /\ reply = "calls"
    /\ history' = Append(history, Assistant(Ids(calls)))
    /\ k' = 1
    /\ Goto(c, "gate")
    /\ UNCHANGED <<running, iter, calls, reply, nextId, cards, outcome, runs>>

----------------------------------------------------------------------------
(* ToolRunner.execute: one call at a time, in order.                        *)

\* Refused (PhosonAgentError), blocked (None), or allowed but with arguments the adapter
\* tagged _truncated or _raw: answered with an error, no start event, no handler.
AnswerUnrun(c) ==
    /\ pc[c] = "gate"
    /\ history' = Append(history, ToolResult(calls[k]))
    /\ Goto(c, "answered")
    /\ UNCHANGED <<running, iter, calls, k, reply, nextId, cards, outcome, runs>>

\* The hooks let the call through and its arguments parse: AgentToolStartEvent.
AllowCall(c) ==
    /\ pc[c] = "gate"
    /\ cards' = cards \cup {calls[k]}
    /\ Goto(c, "started")
    /\ UNCHANGED <<running, history, iter, calls, k, reply, nextId, outcome, runs>>

InvokeHandler(c) ==
    /\ pc[c] = "started"
    /\ Goto(c, "handler")
    /\ UNCHANGED <<running, history, iter, calls, k, reply, nextId, cards, outcome, runs>>

\* Seeded fault: a failing handler returns before AgentToolDoneEvent.
AnswerCall_SilentError(c) ==
    /\ pc[c] = "handler"
    /\ history' = Append(history, ToolResult(calls[k]))
    /\ Goto(c, "answered")
    /\ UNCHANGED <<running, iter, calls, k, reply, nextId, cards, outcome, runs>>

\* Handler and after-hooks returned or raised: either way the call is answered;
\* an ImageToolResult adds a user message of its own.
AnswerCall(c) ==
    /\ pc[c] = "handler"
    /\ LET answered == Append(history, ToolResult(calls[k]))
       IN  history' \in {answered, Append(answered, Image)}
    /\ cards' = cards \ {calls[k]}
    /\ Goto(c, "answered")
    /\ UNCHANGED <<running, iter, calls, k, reply, nextId, outcome, runs>>

\* Seeded fault: the last call of a round is skipped.
NextCall_OffByOne(c) ==
    /\ pc[c] = "answered"
    /\ \/ k + 1 < Len(calls) /\ k' = k + 1 /\ Goto(c, "gate")
       \/ k + 1 >= Len(calls) /\ k' = 0 /\ Goto(c, "loop")
    /\ UNCHANGED <<running, history, iter, calls, reply, nextId, cards, outcome, runs>>

NextCall(c) ==
    /\ pc[c] = "answered"
    /\ \/ k < Len(calls) /\ k' = k + 1 /\ Goto(c, "gate")
       \/ k = Len(calls) /\ k' = 0 /\ Goto(c, "loop")
    /\ UNCHANGED <<running, history, iter, calls, reply, nextId, cards, outcome, runs>>

----------------------------------------------------------------------------
(* Leaving the run.                                                         *)

\* The consumer asks for one more event after the terminal one.
Finish(c) ==
    /\ pc[c] = "ended"
    /\ Leave(c, outcome[c])
    /\ UNCHANGED <<history, nextId, runs>>

\* A hook or an adapter raises something the code does not turn into a result:
\* on_before_llm, the LLM stream, or a non-PhosonAgentError from on_before_tool.
Raise(c) ==
    /\ pc[c] \in {"before", "llm", "gate"}
    /\ Leave(c, "raised")
    /\ UNCHANGED <<history, nextId, runs>>

\* Seeded faults: the results go in front of the history; the current call is taken
\* for committed.
Backfill_Front(h, pending) == [i \in 1..Len(pending) |-> ToolResult(pending[i])] \o h
Backfill_SkipCurrent(h, pending) ==
    h \o [i \in 1..(Len(pending) - 1) |-> ToolResult(pending[i + 1])]

\* _fill_cancelled_results: a synthetic answer for every call not yet committed.
Backfill(h, pending) == h \o [i \in 1..Len(pending) |-> ToolResult(pending[i])]

\* The task is cancelled while the engine awaits.
Cancel(c) ==
    /\ pc[c] \in Awaits
    /\ history' = IF pc[c] \in {"gate", "handler"}
                  THEN Backfill(history, SubSeq(calls, k, Len(calls)))
                  ELSE history
    /\ Leave(c, "cancelled")
    /\ UNCHANGED <<nextId, runs>>

\* The consumer returns or is cancelled while it holds an event: the generator is
\* left suspended at its yield and no CancelledError reaches it.
Abandon(c) ==
    /\ pc[c] \in Yields
    /\ Goto(c, "abandoned")
    /\ outcome' = [outcome EXCEPT ![c] = IF pc[c] = "ended" THEN @ ELSE "raised"]
    /\ UNCHANGED <<running, history, iter, calls, k, reply, nextId, cards, runs>>

\* asyncio's hook closes the generator: GeneratorExit runs only stream()'s finally.
Finalize(c) ==
    /\ pc[c] = "abandoned"
    /\ Leave(c, outcome[c])
    /\ UNCHANGED <<history, nextId, runs>>

----------------------------------------------------------------------------

Advance(c) ==
    \/ BeginIteration(c) \/ GiveUp(c) \/ ApplyBeforeLlm(c) \/ LlmStreamEnds(c)
    \/ IterationFailed(c) \/ IterationFinal(c) \/ DispatchCalls(c)
    \/ AnswerUnrun(c) \/ AllowCall(c) \/ InvokeHandler(c) \/ AnswerCall(c) \/ NextCall(c)
    \/ Finish(c) \/ Finalize(c)

Next ==
    \E c \in Callers :
        Start(c) \/ Refuse(c) \/ Advance(c) \/ Compact(c) \/ Raise(c) \/ Cancel(c) \/ Abandon(c)

Spec == Init /\ [][Next]_vars

\* Hooks, provider and handlers return, the consumer keeps iterating, and asyncio
\* finalizes what was abandoned.
FairSpec == Spec /\ \A c \in Callers : WF_vars(Advance(c))

----------------------------------------------------------------------------
(* Properties                                                               *)

Active == {c \in Callers : pc[c] # "idle"}

\* An engine is single-flight: _running is set exactly while one generator is not
\* finished, a refused stream() does not clear it and every exit does.
SingleFlight ==
    /\ running <=> Active # {}
    /\ \A c, d \in Active : c = d

\* Whatever was refused, blocked, truncated, compacted or failed before, a history
\* sent to the provider answers every tool_use exactly once within its round.
PairedAtLlm == \A c \in Callers : pc[c] = "llm" => Paired(history)

\* A run that ended with an event or by a cancellation the engine saw leaves a
\* history the next turn can be sent with.
SettledPaired ==
    [][\A c \in Callers :
         outcome'[c] # outcome[c] /\ outcome'[c] \in {"done", "error", "cancelled"}
         => Paired(history')]_vars

\* Every card a front end opened on AgentToolStartEvent is closed before the model is
\* asked again and before the run reports its end.
CardsClosed == \A c \in Callers : pc[c] \in {"llm", "ended"} => cards = {}

\* Hooks and compaction apart, a run only appends to the history, also when it is cut
\* short: what was sent to the provider (its cached prefix) and what the session tree
\* mirrored by count stays where it was.
AppendOnly ==
    [][\A c \in Callers : pc[c] \notin {"idle", "before"} /\ pc'[c] # pc[c] =>
         SubSeq(history', 1, Len(history)) = history]_vars

\* A run whose hooks, provider and tools return always ends and frees the engine.
RunEnds == \A c \in Callers : pc[c] # "idle" ~> pc[c] = "idle"

----------------------------------------------------------------------------
(* The inductive strengthening of the invariants above: what holds of the   *)
(* run's locals while its generator is suspended at p.                       *)

RoundInv(p) ==
    /\ p \in {"loop", "before", "llm", "stepped", "ended"} =>
          k = 0 /\ cards = {} /\ Paired(history)
    /\ p = "stepped" /\ reply = "calls" =>
          Len(calls) > 0 /\ Ids(calls) \cap Uses(history) = {}
    /\ p \in {"gate", "started", "handler"} =>
          k > 0 /\ PairedExcept(history, Pending(k))
    /\ p = "answered" => k > 0 /\ PairedExcept(history, Pending(k + 1))
    /\ p \in {"gate", "answered"} => cards = {}
    /\ p \in {"started", "handler"} => cards = {calls[k]}

\* The provider never reuses a tool_call_id.
IdsFresh ==
    /\ \A id \in Uses(history) \cup Ids(calls) : id < nextId
    /\ \A i, j \in DOMAIN calls : calls[i] = calls[j] => i = j

EngineInv ==
    /\ TypeOK
    /\ SingleFlight
    /\ IdsFresh
    /\ \A c \in Callers : RoundInv(pc[c])

----------------------------------------------------------------------------

\* What the docstring of ToolRunner.execute claims: cancellation is the only exit
\* that needs a backfill, so no run leaves a tool_use unanswered behind it.
OnlyCancelLeavesCalls ==
    [][\A c \in Callers :
         pc[c] \in Awaits /\ pc'[c] = "idle" => Paired(history')]_vars
=============================================================================
