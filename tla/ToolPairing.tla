---------------------------- MODULE ToolPairing ----------------------------
(***************************************************************************)
(* The conversation history every part of the program passes around, and   *)
(* what a provider demands of it.                                          *)
(*                                                                         *)
(* A message is reduced to its role and to the tool_use / tool_result      *)
(* blocks it carries: an assistant message holds the ids of the calls it   *)
(* makes, a user message the ids of the calls it answers; the tool runner  *)
(* gives every answer a message of its own.  "text" tells a text somebody  *)
(* wrote (a user turn, a compaction summary) from a legacy "[env: ...]"    *)
(* block and from a message without text.  What the text, a result or an   *)
(* image says, reasoning and error flags are abstracted.                   *)
(***************************************************************************)
EXTENDS Naturals, Sequences

Message == [role: {"user", "assistant"}, uses: SUBSET Nat, answers: SUBSET Nat,
            text: {"turn", "env", "none"}]

\* A user turn or a summary banner.
UserText == [role |-> "user", uses |-> {}, answers |-> {}, text |-> "turn"]

\* The picture of an ImageToolResult: a user message of its own.
Image == [role |-> "user", uses |-> {}, answers |-> {}, text |-> "none"]

\* The assistant message of one LLM round: its tool_use blocks, none when it is
\* a final answer.
Assistant(ids) == [role |-> "assistant", uses |-> ids, answers |-> {}, text |-> "none"]

\* The message that answers one tool_use, whatever the result says.
ToolResult(id) == [role |-> "user", uses |-> {}, answers |-> {id}, text |-> "none"]

Uses(h) == UNION {h[i].uses : i \in DOMAIN h}

----------------------------------------------------------------------------
(* What the provider demands.  "Open" is the set of calls still being run: *)
(* empty in every history that is sent.                                     *)

\* Position j belongs to the round opened by the assistant message at i: no
\* other assistant message comes between them.
SameRound(h, i, j) ==
    /\ i < j
    /\ \A m \in DOMAIN h : i < m /\ m <= j => h[m].role = "user"

\* Every answer belongs to the round of the call it answers.
Grounded(h) ==
    \A j \in DOMAIN h : \A id \in h[j].answers :
        \E i \in DOMAIN h : id \in h[i].uses /\ SameRound(h, i, j)

\* No call is answered twice.
AnsweredOnce(h) ==
    \A i, j \in DOMAIN h : i # j => h[i].answers \cap h[j].answers = {}

\* Every call that is no longer open was answered within its round.
Answered(h, open) ==
    \A i \in DOMAIN h : \A id \in h[i].uses \ open :
        \E j \in DOMAIN h : id \in h[j].answers /\ SameRound(h, i, j)

\* Open calls are unanswered calls of the last assistant message.
OpenIsLast(h, open) ==
    \A id \in open :
        /\ id \in Uses(h)
        /\ \A i \in DOMAIN h : id \in h[i].uses => SameRound(h, i, Len(h) + 1)
        /\ \A j \in DOMAIN h : id \notin h[j].answers

PairedExcept(h, open) ==
    /\ Grounded(h)
    /\ AnsweredOnce(h)
    /\ Answered(h, open)
    /\ OpenIsLast(h, open)

\* The history a provider accepts: every tool_use is answered exactly once,
\* before the next assistant message, and nothing else is answered.
Paired(h) == PairedExcept(h, {})

----------------------------------------------------------------------------
(* Compaction: everything before position k becomes one summary message.    *)

CutAt(h, k) == <<UserText>> \o SubSeq(h, k, Len(h))

\* The cuts that separate no call from its answer, given or (for an open call) to come.
SafeCuts(h, open) ==
    {k \in 2..Len(h) :
        \A i \in DOMAIN h : i < k =>
            /\ h[i].uses \cap open = {}
            /\ \A j \in DOMAIN h : k <= j => h[i].uses \cap h[j].answers = {}}

\* safe_cut_index: the last n messages are kept, and more while the first one kept holds
\* tool results.  1 stands for "nothing to summarize".
SafeCutIndex(h, n) ==
    LET start == IF n < Len(h) THEN Len(h) - n + 1 ELSE 1
    IN  CHOOSE k \in 1..start :
            /\ k = 1 \/ h[k].answers = {}
            /\ \A j \in (k + 1)..start : h[j].answers # {}
=============================================================================
