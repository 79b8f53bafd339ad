------------------------------ MODULE SubAgents ------------------------------
(***************************************************************************)
(* The agents tool (phoson_cli/tools/subagent.py): a batch of tasks, each  *)
(* a run of an engine of its own with the parent's tools, a time limit and *)
(* a second attempt on the main model, a few at a time.  Of the tools they *)
(* share the MCP pool is modelled; agent is a batch of one.                *)
(***************************************************************************)
EXTENDS McpPool, FiniteSets

CONSTANTS
    MaxParallel,  \* subagent_max_parallel
    MaxUses       \* bound: MCP calls of the batch

ASSUME BatchAssumption ==
    /\ MaxParallel \in Nat \ {0}
    /\ MaxUses \in Nat

VARIABLES
    task,     \* where each task is; its answer is a text, an error or a timeout
    model,    \* the model it runs on: 1 its own, 2 the main one
    doomed,   \* why it was cancelled: by its time limit, with the batch, or not
    batch,    \* the call of the tool
    uses      \* MCP calls so far

taskVars == <<task, model, doomed, batch, uses>>
batchVars == <<poolVars, taskVars>>

BatchTypeOK ==
    /\ task \in [Callers -> {"queued", "running", "answered", "cancelled"}]
    /\ model \in [Callers -> {1, 2}]
    /\ doomed \in [Callers -> {"no", "timeout", "batch"}]
    /\ batch \in {"running", "answered", "cancelled"}
    /\ uses \in 0..MaxUses

Running == {t \in Callers : task[t] = "running"}

BatchInit ==
    /\ PoolInit
    /\ task = [t \in Callers |-> "queued"]
    /\ model = [t \in Callers |-> 1]
    /\ doomed = [t \in Callers |-> "no"]
    /\ batch = "running"
    /\ uses = 0

-----------------------------------------------------------------------------
(* A task *)

\* async with semaphore.
StartTask(t) ==
    /\ task[t] = "queued" /\ doomed[t] = "no"
    /\ Cardinality(Running) < MaxParallel
    /\ task' = [task EXCEPT ![t] = "running"]
    /\ UNCHANGED <<poolVars, model, doomed, batch, uses>>

\* The model asks for an MCP tool.
UseTool(t) ==
    /\ task[t] = "running" /\ doomed[t] = "no"
    /\ uses < MaxUses
    /\ uses' = uses + 1
    /\ EnterPool(t)
    /\ UNCHANGED <<task, model, doomed, batch>>

\* A step of the pool that nobody cancelled, or the failure that its caller reads as the
\* tool's answer.
PoolStep(t) ==
    /\ doomed[t] = "no"
    /\ GetLock(t) \/ Opened(t) \/ Shaken(t) \/ Listed(t) \/ Called(t) \/ CallFails(t)
    /\ UNCHANGED taskVars

\* The engine is not in a tool: its run ends, or the second attempt begins because the
\* provider does not have the model.
RunEnds(t) ==
    /\ task[t] = "running" /\ at[t] = "out" /\ doomed[t] = "no"
    /\ \/ /\ model[t] = 1
          /\ model' = [model EXCEPT ![t] = 2]
          /\ UNCHANGED task
       \/ /\ task' = [task EXCEPT ![t] = "answered"]
          /\ UNCHANGED model
    /\ UNCHANGED <<poolVars, doomed, batch, uses>>

\* Seeded fault: the limit covers the first attempt only.
Expire_FirstOnly(t) ==
    /\ task[t] = "running" /\ doomed[t] = "no" /\ model[t] = 1
    /\ doomed' = [doomed EXCEPT ![t] = "timeout"]
    /\ UNCHANGED <<poolVars, task, model, batch, uses>>

\* wait_for: the time is up, the run is cancelled.
Expire(t) ==
    /\ task[t] = "running" /\ doomed[t] = "no"
    /\ doomed' = [doomed EXCEPT ![t] = "timeout"]
    /\ UNCHANGED <<poolVars, task, model, batch, uses>>

\* The cancellation arrives at the await where the task is.
Unwind(t) ==
    /\ doomed[t] # "no" /\ task[t] \in {"queued", "running"}
    /\ Interrupted(t)
    /\ task' = [task EXCEPT ![t] = IF doomed[t] = "timeout" THEN "answered" ELSE "cancelled"]
    /\ UNCHANGED <<model, doomed, batch, uses>>

-----------------------------------------------------------------------------
(* The batch *)

\* The user cancels the turn: gather cancels what has not ended ...
CancelBatch ==
    /\ batch = "running"
    /\ \E t \in Callers : task[t] # "answered"
    /\ doomed' = [t \in Callers |-> IF task[t] = "answered" THEN doomed[t] ELSE "batch"]
    /\ UNCHANGED <<poolVars, task, model, batch, uses>>

\* ... and passes the first cancellation on, while other tasks may still unwind.
BatchCancelled ==
    /\ batch = "running"
    /\ \E t \in Callers : task[t] = "cancelled"
    /\ batch' = "cancelled"
    /\ UNCHANGED <<poolVars, task, model, doomed, uses>>

\* Every task has its answer.
BatchAnswered ==
    /\ batch = "running"
    /\ \A t \in Callers : task[t] = "answered"
    /\ batch' = "answered"
    /\ UNCHANGED <<poolVars, task, model, doomed, uses>>

BatchNext ==
    \/ \E t \in Callers :
           \/ StartTask(t) \/ UseTool(t) \/ PoolStep(t) \/ RunEnds(t) \/ Expire(t) \/ Unwind(t)
    \/ \E k \in Conns : Breaks(k) /\ UNCHANGED taskVars
    \/ CancelBatch \/ BatchCancelled \/ BatchAnswered

\* Timers fire and cancellations arrive; models, servers and users answer when they like.
BatchSpec ==
    /\ BatchInit /\ [][BatchNext]_batchVars
    /\ \A t \in Callers : WF_batchVars(StartTask(t)) /\ WF_batchVars(Expire(t)) /\ WF_batchVars(Unwind(t))
    /\ WF_batchVars(BatchCancelled) /\ WF_batchVars(BatchAnswered)

-----------------------------------------------------------------------------
(* Properties *)

\* The pool stays sound under a batch that times out, fails over and is cancelled; no more
\* tasks run than the limit allows; a task that has its answer is nowhere in the pool, so
\* that an answered batch leaves the lock free for the next one; and only the tasks of a
\* cancelled batch outlive it, each about to unwind.
SharedPoolKept ==
    /\ BatchTypeOK /\ PoolKept
    /\ Cardinality(Running) <= MaxParallel
    /\ \A t \in Callers : at[t] # "out" => task[t] = "running"
    /\ batch = "answered" => lock = "none"
    /\ batch = "cancelled" => \A t \in Running : doomed[t] = "batch"

\* A cancellation reaches every task that has no answer yet, and only the tasks of a
\* cancelled batch end without one.
Cancelled ==
    /\ \A t \in Callers : task[t] = "cancelled" => doomed[t] = "batch"
    /\ \A t, u \in Callers : doomed[t] = "batch" => task[u] = "answered" \/ doomed[u] = "batch"
    /\ batch = "answered" => \A t \in Callers : task[t] = "answered"
    /\ batch = "cancelled" => \E t \in Callers : task[t] = "cancelled"

\* The inductive strengthening of SharedPoolKept.
BatchInv ==
    /\ BatchTypeOK /\ PoolInv /\ Cancelled
    /\ IsFiniteSet(Running) /\ Cardinality(Running) <= MaxParallel
    /\ \A t \in Callers : at[t] # "out" => task[t] = "running"

\* A batch with a time limit ends, whatever hangs: a model, a server, or the handshake that
\* the other tasks wait for at the lock.
BatchEnds == <>(batch # "running")
=============================================================================
