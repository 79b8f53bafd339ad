------------------------------ MODULE LlmCall ------------------------------
(***************************************************************************)
(* One LLM call of the engine, from the middleware chain down to the       *)
(* provider: SummarizationMiddleware.wrap_llm_call (phoson_agent/plugins/  *)
(* summarizer.py) around RetryingChat.stream (phoson_llm/retry.py) around  *)
(* an adapter, and what AgentLoop._consume_llm_stream keeps of the events. *)
(*                                                                         *)
(* A call may cost up to four streams of RetryingChat, each of several     *)
(* requests: the summary when the gate fires, the call itself, the summary *)
(* of the emergency rescue and the call after it.  Requests are numbered;  *)
(* what a response says is abstracted to who gets to see it.               *)
(***************************************************************************)
EXTENDS Naturals

CONSTANTS
    MaxAttempts,  \* RetryPolicy.max_attempts
    MaxChunks     \* bound: user-visible events of one response

ASSUME CallAssumption == MaxAttempts \in Nat \ {0} /\ MaxChunks \in Nat \ {0}

VARIABLES
    stage,      \* the stream wrap_llm_call is consuming
    net,        \* what RetryingChat.stream waits for
    attempt,    \* attempts of this stream so far
    requests,   \* requests made so far; the last one is being answered
    chunks,     \* user-visible events of this response so far
    summary,    \* summary_text of the summary call
    kept,       \* the UsageEvent the summary call will forward, 0 for none
    cuts,       \* times the history was replaced
    shown,      \* responses of which the engine forwarded something visible
    billed,     \* the last response that sent a UsageEvent, 0 for none
    usage,      \* the response whose UsageEvent the engine holds, 0 for none
    ended       \* how the call ended for the engine

callVars == <<stage, net, attempt, requests, chunks, summary, kept, cuts, shown, billed,
          usage, ended>>

\* gate     before _should_compact     summary  auto-compaction
\* call     the call itself            rescue   emergency compaction
\* again    the call after a rescue    over
Stages == {"gate", "summary", "call", "rescue", "again", "over"}

Summarizing == {"summary", "rescue"}

\* committed in _call_with_context_rescue: something visible went out.
Committed == shown # {}

CallTypeOK ==
    /\ stage \in Stages
    /\ net \in {"idle", "streaming", "counted", "sleeping"}
    /\ attempt \in 0..MaxAttempts
    /\ requests \in Nat
    /\ chunks \in 0..MaxChunks
    /\ summary \in {"empty", "text"}
    /\ kept \in 0..billed
    /\ cuts \in Nat
    /\ shown \subseteq 1..requests
    /\ billed \in 0..requests
    /\ usage \in 0..billed
    /\ ended \in {"none", "done", "error", "raised"}
    /\ stage = "over" <=> ended # "none"
    /\ net = "sleeping" => attempt < MaxAttempts

CallInit ==
    /\ stage = "gate"
    /\ net = "idle"
    /\ attempt = 0
    /\ requests = 0
    /\ chunks = 0
    /\ summary = "empty"
    /\ kept = 0
    /\ cuts = 0
    /\ shown = {}
    /\ billed = 0
    /\ usage = 0
    /\ ended = "none"

----------------------------------------------------------------------------
(* Between two streams.                                                     *)

\* Seeded fault: the streams of a call share one budget of attempts.
Enter_KeepsAttempt(next) ==
    /\ stage' = next
    /\ net' = "idle"
    /\ chunks' = 0
    /\ summary' = "empty"
    /\ UNCHANGED attempt

\* The next stream of wrap_llm_call, with a RetryingChat.stream of its own.
Enter(next) ==
    /\ stage' = next
    /\ net' = "idle"
    /\ attempt' = 0
    /\ chunks' = 0
    /\ summary' = "empty"

Over(how) ==
    /\ Enter("over")
    /\ ended' = how

\* The gate fires and there is something to summarize, or not.
Gate ==
    /\ stage = "gate"
    /\ Enter("summary") \/ Enter("call")
    /\ UNCHANGED <<requests, kept, cuts, shown, billed, usage, ended>>

\* The emergency compaction finds nothing to cut, or no prompt that fits: the history is
\* truncated without asking the model.
NothingToAsk ==
    /\ stage = "rescue"
    /\ net = "idle"
    /\ attempt = 0
    /\ \/ Over("error") /\ UNCHANGED cuts
       \/ Enter("again") /\ cuts' = cuts + 1 /\ UNCHANGED ended
    /\ UNCHANGED <<requests, kept, shown, billed, usage>>

----------------------------------------------------------------------------
(* RetryingChat.stream and the response it forwards.                        *)

\* The first attempt, or the next one after the backoff.
Request ==
    /\ stage \notin {"gate", "over"}
    /\ net \in {"idle", "sleeping"}
    /\ attempt < MaxAttempts
    /\ attempt' = attempt + 1
    /\ requests' = requests + 1
    /\ chunks' = 0
    /\ net' = "streaming"
    /\ UNCHANGED <<stage, summary, kept, cuts, shown, billed, usage, ended>>

\* TokenEvent, ReasoningTokenEvent or ToolCallEvent.  A summary call keeps the text of the
\* tokens and swallows the rest.
Visible ==
    /\ net = "streaming"
    /\ chunks < MaxChunks
    /\ chunks' = chunks + 1
    /\ \/ /\ stage \in Summarizing
          /\ summary' \in {summary, "text"}
          /\ UNCHANGED shown
       \/ /\ stage \notin Summarizing
          /\ shown' = shown \cup {requests}
          /\ UNCHANGED summary
    /\ UNCHANGED <<stage, net, attempt, requests, kept, cuts, billed, usage, ended>>

\* Seeded fault: the engine keeps the first UsageEvent of a call.
Usage_FirstWins ==
    /\ net = "streaming"
    /\ billed' = requests
    /\ net' = "counted"
    /\ kept' = IF stage = "summary" THEN requests ELSE kept
    /\ usage' = IF stage \in Summarizing \/ usage # 0 THEN usage ELSE requests
    /\ UNCHANGED <<stage, attempt, requests, chunks, summary, cuts, shown, ended>>

\* UsageEvent, the last event but one: a summary call keeps it, the rescue drops it, the
\* engine holds the last one it sees.
Usage ==
    /\ net = "streaming"
    /\ billed' = requests
    /\ net' = "counted"
    /\ kept' = IF stage = "summary" THEN requests ELSE kept
    /\ usage' = IF stage \in Summarizing THEN usage ELSE requests
    /\ UNCHANGED <<stage, attempt, requests, chunks, summary, cuts, shown, ended>>

\* What _compact kept goes out before the call.
Forward == usage' = IF kept # 0 THEN kept ELSE usage

\* A summary call is over: a text replaces the head of the history.  Without one
\* the auto-compaction leaves it alone, the rescue cuts it all the same.
Summarized(ok) ==
    \/ /\ stage = "summary"
       /\ Forward
       /\ cuts' = IF ok THEN cuts + 1 ELSE cuts
       /\ Enter("call")
    \/ /\ stage = "rescue"
       /\ cuts' = cuts + 1
       /\ Enter("again")
       /\ UNCHANGED usage

\* The response ends: LLMDoneEvent, or without one (AgentErrorEvent "llm_protocol").
Complete ==
    /\ net \in {"streaming", "counted"}
    /\ \/ Summarized(summary = "text") /\ UNCHANGED ended
       \/ stage \in {"call", "again"} /\ Over("done") /\ UNCHANGED <<cuts, usage>>
       \/ stage \in {"call", "again"} /\ Over("error") /\ UNCHANGED <<cuts, usage>>
    /\ UNCHANGED <<requests, kept, shown, billed>>

\* Seeded fault: a second context-length error is rescued too.
Surface_Again(error) ==
    \/ stage \in Summarizing /\ Summarized(FALSE) /\ UNCHANGED ended
    \/ /\ stage \in {"call", "again"}
       /\ IF error = "length" /\ ~Committed THEN Enter("rescue") /\ UNCHANGED ended
          ELSE Over("error")
       /\ UNCHANGED <<cuts, usage>>

\* RetryingChat.stream yields an ErrorEvent and returns.
Surface(error) ==
    \/ stage \in Summarizing /\ Summarized(FALSE) /\ UNCHANGED ended
    \/ /\ stage \in {"call", "again"}
       /\ IF stage = "call" /\ error = "length" /\ ~Committed
          THEN Enter("rescue") /\ UNCHANGED ended
          ELSE Over("error")
       /\ UNCHANGED <<cuts, usage>>

\* Seeded fault: what was already shown does not forbid another attempt.
Retryable_Always(error) == error = "transient"

\* An error that RetryingChat holds on to.
Retryable(error) == error = "transient" /\ chunks = 0

\* asyncio.sleep before the next attempt.
BackOff ==
    /\ attempt < MaxAttempts
    /\ net' = "sleeping"
    /\ UNCHANGED <<stage, attempt, requests, chunks, summary, kept, cuts, shown, billed,
                   usage, ended>>

GiveUp(error) ==
    /\ ~Retryable(error) \/ attempt >= MaxAttempts
    /\ Surface(error)
    /\ UNCHANGED <<requests, kept, shown, billed>>

\* ErrorEvent: only rate limits, overload and lost connections may be retried.
Fail ==
    /\ net \in {"streaming", "counted"}
    /\ \E error \in {"transient", "length", "fatal"} :
          \/ Retryable(error) /\ BackOff
          \/ GiveUp(error)

\* A PhosonProviderError raised by the adapter: held like an ErrorEvent, or raised through
\* every layer up to the engine.
Throw ==
    /\ net \in {"streaming", "counted"}
    /\ \E error \in {"transient", "fatal"} :
          \/ Retryable(error) /\ BackOff
          \/ Retryable(error) /\ GiveUp(error)
          \/ /\ ~Retryable(error)
             /\ Over("raised")
             /\ UNCHANGED <<requests, kept, cuts, shown, billed, usage>>

----------------------------------------------------------------------------

CallNext == Gate \/ NothingToAsk \/ Request \/ Visible \/ Usage \/ Complete \/ Fail \/ Throw

\* The provider answers, or its connection times out.
CallSpec == CallInit /\ [][CallNext]_callVars /\ WF_callVars(CallNext)

----------------------------------------------------------------------------
(* Properties                                                               *)

\* Nothing is said twice: once the user has seen some of a response, neither a retry nor a
\* rescue asks for another one.
OneVoice == shown \subseteq {requests}

\* Retries inside a rescue and rescues around retries stay bounded: every stream of the
\* call has its attempts once.
NoRetryLoop == requests <= 4 * MaxAttempts /\ cuts <= 2

\* The cost the engine books for an answered call is that of the answer the user saw, never
\* that of a summary or of an attempt given up.
AnswerIsBooked ==
    /\ CallTypeOK
    /\ ended = "done" /\ billed = requests => usage = requests

\* The inductive strengthening of OneVoice and NoRetryLoop: what the call may have spent when
\* its current stream was entered, and where something may have been shown.
Budget ==
    /\ stage \in {"gate", "over"} => attempt = 0 /\ net = "idle"
    /\ net # "idle" => requests > 0
    /\ stage \in {"gate", "summary"} => requests <= attempt /\ cuts = 0
    /\ stage = "call" => requests <= MaxAttempts + attempt /\ cuts <= 1
    /\ stage = "rescue" => requests <= 2 * MaxAttempts + attempt /\ cuts <= 1
    /\ stage = "again" => requests <= 3 * MaxAttempts + attempt /\ cuts <= 2
    /\ stage = "over" => requests <= 4 * MaxAttempts /\ cuts <= 2

Silent ==
    /\ stage \in {"gate", "summary", "rescue"} => ~Committed
    /\ stage \in {"call", "again"} /\ (net \in {"idle", "sleeping"} \/ chunks = 0) => ~Committed

CallInv == CallTypeOK /\ Budget /\ OneVoice /\ Silent

\* The inductive strengthening of AnswerIsBooked: once its own stream has made a request, a
\* call is ahead of every response that was billed before, its summary's included.
Booked ==
    /\ net # "idle" => attempt > 0
    /\ stage \in {"call", "again"} /\ attempt > 0 /\ billed = requests => usage = requests
    /\ ended = "done" /\ billed = requests => usage = requests

\* A call comes to an end, whatever fails and however often.
CallEnds == <>(stage = "over")

\* What the docstring of _run_summary_call asks for: the cost of a summary reaches the
\* session metrics.
SummaryIsBooked == ended = "done" /\ kept # 0 => usage = kept
=============================================================================
