------------------------------- MODULE Swarm -------------------------------
(***************************************************************************)
(* A swarm of agents (phoson_plugin_swarm): members with roles, run as     *)
(* tasks of their own beside the turns of the agent that assigned them.    *)
(*                                                                         *)
(* swarm_assign starts tasks and returns; swarm_collect waits for what is  *)
(* in _tasks; swarm_dissolve, the end of the plugin and a cancelled        *)
(* swarm_collect cancel it.  The members share one ledger of tokens, and   *)
(* a member may be assigned again while it runs.  A pipeline is one task   *)
(* that runs the members one after the other.  The tools of one step run   *)
(* beside each other, so nothing orders them.                              *)
(***************************************************************************)
EXTENDS Naturals, FiniteSetsExt

CONSTANTS
    N,            \* members, in the order of their declaration
    RoleCap,      \* max_tokens of a member's role, 0 for none
    MaxPerAgent,  \* swarm_max_tokens_per_agent
    MaxTotal,     \* swarm_max_tokens_total
    Usage,        \* the tokens a step may use
    Topology,     \* what swarm_create makes of each swarm; "star" stands for the mesh too
    MaxSwarms,    \* bound: swarms created
    MaxTasks,     \* bound: tasks in flight at once
    MaxMessages,  \* bound: messages to members
    MailSwarms,   \* bound: swarms there are when a message is sent or waits
    FromRest      \* bound: whether a swarm also follows one of which no task goes on

Members == 1..N
Swarms == 1..MaxSwarms
Tasks == 1..MaxTasks
Messages == 1..MaxMessages

ASSUME SwarmAssumption ==
    /\ N \in Nat \ {0}
    /\ RoleCap \in [Members -> Nat]
    /\ MaxPerAgent \in Nat \ {0} /\ MaxTotal \in Nat \ {0}
    /\ Usage \subseteq Nat \ {0} /\ Usage # {}
    /\ Topology \in [Swarms -> {"star", "pipeline"}]
    /\ MaxSwarms \in Nat /\ MaxTasks \in Nat /\ MaxMessages \in Nat
    /\ MailSwarms \in Nat /\ FromRest \in BOOLEAN

VARIABLES
    current,  \* plugin.runtime, 0 for none
    created,  \* swarms so far
    swarm,    \* the runtimes; history: whether swarm_create replaced it while it was current
    task,     \* the tasks in flight
    collect,  \* the swarm_collect that waits
    mail,     \* the messages in an inbox, and those drained before they were heard of
    unbooked  \* history: the tokens a run has used and the ledger did not book

vars == <<current, created, swarm, task, collect, mail, unbooked>>

\* "over" stands for done, error and budget_exhausted.
NewSwarm ==
    [dissolved |-> FALSE, replaced |-> FALSE, status |-> [m \in Members |-> "idle"],
     tracked |-> {}, per |-> [m \in Members |-> 0], total |-> 0]
NoTask == [swarm |-> 0, kind |-> "member", member |-> 1, pc |-> "none", cancelled |-> FALSE]
NoCollect == [on |-> FALSE, timed |-> FALSE, waits |-> {}]
Unsent == [swarm |-> 0, to |-> 1, at |-> "unsent", heard |-> FALSE, late |-> FALSE]

Runtime ==
    [dissolved : BOOLEAN, replaced : BOOLEAN, tracked : SUBSET Tasks,
     status : [Members -> {"idle", "running", "over", "dissolved"}],
     per : [Members -> Nat], total : Nat]
Task == [swarm : 0..created, kind : {"member", "pipeline"}, member : Members,
         pc : {"none", "ready", "running"}, cancelled : BOOLEAN]
Message == [swarm : 0..created, to : Members, at : {"unsent", "inbox", "lost"},
            heard : BOOLEAN, late : BOOLEAN]

SwarmTypeOK ==
    /\ created \in 0..MaxSwarms /\ current \in 0..created
    /\ swarm \in [Swarms -> Runtime]
    /\ task \in [Tasks -> Task]
    /\ collect \in [on : BOOLEAN, timed : BOOLEAN, waits : SUBSET Tasks]
    /\ mail \in [Messages -> Message]
    /\ unbooked \in [Tasks -> Nat]

InFlight(t) == task[t].pc # "none"

-----------------------------------------------------------------------------
(* The tools *)

\* swarm_create: a swarm that runs is replaced, not dissolved.
Create ==
    /\ created < MaxSwarms
    /\ created = 0 \/ FromRest \/ \E t \in Tasks : InFlight(t) /\ ~task[t].cancelled
    /\ created < MailSwarms \/ \A x \in Messages : mail[x].at = "unsent"
    /\ created' = created + 1 /\ current' = created + 1
    /\ swarm' = [i \in Swarms |-> [swarm[i] EXCEPT !.replaced = @ \/ i = current]]
    /\ UNCHANGED <<task, collect, mail, unbooked>>

\* The place of m among the members that start, and of t among the tasks that are free.
Gets(t, m, ms) ==
    /\ ~InFlight(t)
    /\ Cardinality({k \in ms : k <= m}) = Cardinality({u \in Tasks : ~InFlight(u) /\ u <= t})

\* create_task.
StartTasks(ms, kind) ==
    LET new == {t \in Tasks : \E m \in ms : Gets(t, m, ms)}
    IN  /\ Cardinality(new) = Cardinality(ms)
        /\ task' = [t \in Tasks |->
               IF t \in new
                 THEN [swarm |-> current, kind |-> kind, pc |-> "ready", cancelled |-> FALSE,
                       member |-> CHOOSE m \in ms : Gets(t, m, ms)]
                 ELSE task[t]]
        /\ swarm' = [swarm EXCEPT ![current].tracked = @ \cup new]

\* swarm_assign: to one member, or to the swarm by its topology.
Assign ==
    /\ current # 0 /\ ~swarm[current].dissolved
    /\ \/ \E m \in Members : StartTasks({m}, "member")
       \/ Topology[current] = "pipeline" /\ StartTasks({1}, "pipeline")
       \/ Topology[current] = "star" /\ StartTasks(Members, "member")
    /\ UNCHANGED <<current, created, collect, mail, unbooked>>

\* swarm_collect; one with a timeout may return before any task ended.
Collect ==
    /\ current # 0 /\ ~collect.on
    /\ \E timed \in BOOLEAN :
           collect' = [on |-> TRUE, timed |-> timed,
                       waits |-> IF timed THEN {} ELSE swarm[current].tracked]
    /\ UNCHANGED <<current, created, swarm, task, mail, unbooked>>

CollectReturns ==
    /\ collect.on /\ collect.waits = {}
    /\ collect' = NoCollect
    /\ UNCHANGED <<current, created, swarm, task, mail, unbooked>>

\* swarm_message.  It is late for a stage that runs already.
SendMessage(x, m) ==
    /\ current # 0 /\ mail[x].at = "unsent" /\ created <= MailSwarms
    /\ mail' = [mail EXCEPT ![x] =
           [swarm |-> current, to |-> m, at |-> "inbox", heard |-> FALSE,
            late |-> \E t \in Tasks : /\ task[t].pc = "running" /\ task[t].kind = "pipeline"
                                      /\ task[t].swarm = current /\ task[t].member = m]]
    /\ UNCHANGED <<current, created, swarm, task, collect, unbooked>>

\* Seeded fault: a task that has not begun is not cancelled.
CancelAll_Running(ts) ==
    task' = [t \in Tasks |->
                [task[t] EXCEPT !.cancelled = @ \/ (t \in ts /\ task[t].pc = "running")]]

CancelAll(ts) ==
    task' = [t \in Tasks |-> [task[t] EXCEPT !.cancelled = @ \/ (t \in ts /\ InFlight(t))]]

\* The turn is cancelled: asyncio.wait leaves the tasks alone, gather takes them along
\* and waits until they are gone.
CancelCollect ==
    /\ collect.on
    /\ \/ collect.timed /\ collect' = NoCollect /\ UNCHANGED task
       \/ ~collect.timed /\ CancelAll(collect.waits) /\ UNCHANGED collect
    /\ UNCHANGED <<current, created, swarm, mail, unbooked>>

\* swarm_dissolve.
Dissolve ==
    /\ current # 0
    /\ CancelAll(swarm[current].tracked)
    /\ swarm' = [swarm EXCEPT
           ![current].dissolved = TRUE, ![current].tracked = {},
           ![current].status = [m \in Members |-> IF @[m] \in {"running", "idle"}
                                                    THEN "dissolved" ELSE @[m]]]
    /\ UNCHANGED <<current, created, collect, mail, unbooked>>

\* aclose, of the plugin of an engine that is rebuilt between two turns.
Close ==
    /\ current # 0 /\ ~collect.on
    /\ CancelAll(swarm[current].tracked)
    /\ current' = 0
    /\ UNCHANGED <<created, swarm, collect, mail, unbooked>>

-----------------------------------------------------------------------------
(* The ledger *)

Cap(m) == IF RoleCap[m] # 0 THEN RoleCap[m] ELSE MaxPerAgent

\* Seeded fault: the cap of the swarm is not looked at.
Exhausted_PerAgent(r, m) == r.per[m] + 1 > MaxPerAgent

\* TokenBudget.exhausted.
Exhausted(r, m) == r.total + 1 > MaxTotal \/ r.per[m] + 1 > MaxPerAgent

\* What _run_member asks before it books a step.
Stops(r, m, used) == r.per[m] + used > Cap(m) \/ Exhausted(r, m)

\* TokenBudget.consume: what there is room for.
Recorded(r, m, used) == Min({used, MaxTotal - r.total, MaxPerAgent - r.per[m]})

-----------------------------------------------------------------------------
(* The inbox *)

Pending(x, i, m) == mail[x].swarm = i /\ mail[x].to = m /\ mail[x].at = "inbox"

\* _seed_prompt: a run that begins is told what its inbox holds; nothing is taken out.
Seed(msgs, i, m) ==
    [x \in Messages |-> IF Pending(x, i, m) THEN [msgs[x] EXCEPT !.heard = TRUE] ELSE msgs[x]]

\* drain_inbox.
DrainInbox(i, m) ==
    [x \in Messages |-> IF Pending(x, i, m)
           THEN IF mail[x].heard THEN Unsent
                ELSE [Unsent EXCEPT !.at = "lost", !.late = mail[x].late]
           ELSE mail[x]]

-----------------------------------------------------------------------------
(* The run of a member *)

Running(t) == task[t].pc = "running" /\ ~task[t].cancelled

Begins(t) ==
    LET i == task[t].swarm
        m == task[t].member
    IN  /\ task[t].pc = "ready" /\ ~task[t].cancelled
        /\ task' = [task EXCEPT ![t].pc = "running"]
        /\ swarm' = [swarm EXCEPT ![i].status[m] = "running"]
        /\ mail' = Seed(mail, i, m)
        /\ UNCHANGED <<current, created, collect, unbooked>>

\* The task is over; its callback takes it out of _tasks, and who waits for it goes on.
Ends(t, status) ==
    LET i == task[t].swarm
    IN  /\ task' = [task EXCEPT ![t] = NoTask]
        /\ swarm' = [swarm EXCEPT ![i].tracked = @ \ {t}, ![i].status[task[t].member] = status]
        /\ collect' = [collect EXCEPT !.waits = @ \ {t}]

\* Seeded fault: the next stage's inbox is drained, before it was seeded.
NextStage_DrainsNext(t) ==
    LET i == task[t].swarm
        m == task[t].member
    IN  /\ m < N
        /\ task' = [task EXCEPT ![t].member = m + 1]
        /\ swarm' = [swarm EXCEPT ![i].status[m] = "over", ![i].status[m + 1] = "running"]
        /\ mail' = DrainInbox(i, m + 1)
        /\ UNCHANGED collect

\* _run_pipeline, after a stage that left a report.
NextStage(t) ==
    LET i == task[t].swarm
        m == task[t].member
    IN  /\ m < N
        /\ task' = [task EXCEPT ![t].member = m + 1]
        /\ swarm' = [swarm EXCEPT ![i].status[m] = "over", ![i].status[m + 1] = "running"]
        /\ mail' = Seed(DrainInbox(i, m), i, m + 1)
        /\ UNCHANGED collect

\* _finish, and what follows it in the task: an error or an empty report breaks a pipeline.
Finish(t) ==
    /\ \/ Ends(t, "over") /\ UNCHANGED mail
       \/ /\ task[t].kind = "pipeline"
          /\ \/ NextStage(t)
             \/ /\ task[t].member = N
                /\ Ends(t, "over")
                /\ mail' = DrainInbox(task[t].swarm, N)
    /\ unbooked' = [unbooked EXCEPT ![t] = 0]
    /\ UNCHANGED <<current, created>>

\* A step of the LLM is booked, as far as there is room ...
StepBooked(t, used) ==
    LET i == task[t].swarm
        m == task[t].member
        booked == Recorded(swarm[i], m, used)
    IN  /\ Running(t)
        /\ ~Stops(swarm[i], m, used)
        /\ swarm' = [swarm EXCEPT ![i].per[m] = @ + booked, ![i].total = @ + booked]
        /\ unbooked' = [unbooked EXCEPT ![t] = @ + used - booked]
        /\ UNCHANGED <<current, created, task, collect, mail>>

\* ... or it is the last one of its run.
BudgetHit(t, used) ==
    /\ Running(t)
    /\ Stops(swarm[task[t].swarm], task[t].member, used)
    /\ Finish(t)

\* The run ends by itself, well or with an error.
RunEnds(t) == Running(t) /\ Finish(t)

\* Seeded fault: a task that is cancelled before it begins is never done.
Unwinds_Running(t) ==
    /\ task[t].pc = "running" /\ task[t].cancelled
    /\ Ends(t, "idle")
    /\ unbooked' = [unbooked EXCEPT ![t] = 0]
    /\ UNCHANGED <<current, created, mail>>

\* A cancelled run is idle again, whatever it was shown as; one that had not begun is not
\* touched.
Unwinds(t) ==
    /\ InFlight(t) /\ task[t].cancelled
    /\ Ends(t, IF task[t].pc = "running" THEN "idle"
               ELSE swarm[task[t].swarm].status[task[t].member])
    /\ unbooked' = [unbooked EXCEPT ![t] = 0]
    /\ UNCHANGED <<current, created, mail>>

SwarmInit ==
    /\ current = 0 /\ created = 0
    /\ swarm = [i \in Swarms |-> NewSwarm]
    /\ task = [t \in Tasks |-> NoTask]
    /\ collect = NoCollect
    /\ mail = [x \in Messages |-> Unsent]
    /\ unbooked = [t \in Tasks |-> 0]

SwarmNext ==
    \/ Create \/ Assign \/ Collect \/ CollectReturns \/ CancelCollect \/ Dissolve \/ Close
    \/ \E x \in Messages, m \in Members : SendMessage(x, m)
    \/ \E t \in Tasks :
           \/ Begins(t) \/ RunEnds(t) \/ Unwinds(t)
           \/ \E used \in Usage : StepBooked(t, used) \/ BudgetHit(t, used)

\* Every run of an engine ends (RunEnds of AgentRun); tools are called when they are.
SwarmSpec ==
    /\ SwarmInit /\ [][SwarmNext]_vars
    /\ WF_vars(CollectReturns)
    /\ \A t \in Tasks : WF_vars(Begins(t)) /\ WF_vars(RunEnds(t)) /\ WF_vars(Unwinds(t))

-----------------------------------------------------------------------------
(* Properties *)

\* The tokens of the members add up to the total: there are the sums on the way to it.
Adds(per, total) ==
    \E sum \in [0..N -> 0..total] :
        /\ sum[0] = 0 /\ sum[N] = total
        /\ \A m \in Members : sum[m] = sum[m - 1] + per[m]

\* The swarm's ledger is the sum of its members' and within both caps, and however members
\* interleave, a run that goes on has at most one step that was not booked in full, so that
\* "a runaway member (or the swarm as a whole) is stopped gracefully" by its next one.
LedgerKept ==
    /\ SwarmTypeOK
    /\ \A i \in Swarms :
           /\ Adds(swarm[i].per, swarm[i].total)
           /\ swarm[i].total <= MaxTotal
           /\ \A m \in Members : swarm[i].per[m] <= MaxPerAgent
    /\ \A t \in Tasks : \E used \in Usage : unbooked[t] < used

\* A task that was not cancelled is in the _tasks of its swarm, which is not dissolved, and
\* a member that is shown running has a run.
Listed ==
    /\ \A t \in Tasks : InFlight(t) =>
           \/ task[t].cancelled
           \/ t \in swarm[task[t].swarm].tracked /\ ~swarm[task[t].swarm].dissolved
    /\ \A i \in Swarms, m \in Members : swarm[i].status[m] = "running" =>
           \E t \in Tasks : task[t].pc = "running" /\ task[t].swarm = i /\ task[t].member = m

\* swarm_dissolve and aclose cancel the _tasks of plugin.runtime alone: what goes on is a
\* task of that swarm, or of one that swarm_create replaced, which neither of them reaches
\* any more (a swarm_collect that was waiting for it still does).
InReach ==
    \A t \in Tasks : InFlight(t) =>
        task[t].cancelled \/ task[t].swarm = current \/ swarm[task[t].swarm].replaced

\* aclose "tears down any active swarm (cancel in-flight members)" (_plugin.py, aclose).
AllInReach ==
    \A t \in Tasks : InFlight(t) => task[t].cancelled \/ task[t].swarm = current

\* The books of a swarm are true: its ledger, its _tasks and the status of its members; and
\* no step but a swarm_create takes a task out of the reach of a dissolve.
BooksKept == LedgerKept /\ Listed /\ InReach

\* A dissolved swarm leaves no more results and books no more tokens, though its tasks are
\* still unwinding.
DissolvedStands ==
    [][\A i \in Swarms : swarm[i].dissolved =>
          /\ swarm'[i].total = swarm[i].total
          /\ \A m \in Members :
                 swarm'[i].status[m] \in {swarm[i].status[m], "idle", "dissolved"}]_vars

\* A message is delivered to the next run of its recipient, unless it came too late for a
\* stage of a pipeline, whose end drains it all the same.
MailHeard == \A x \in Messages : mail[x].at = "lost" => mail[x].late

\* "delivered the next time that agent runs" (_tools.py, swarm_message).
MailDelivered == \A x \in Messages : mail[x].at # "lost"

\* swarm_collect returns, and what was cancelled comes to rest.
SwarmSettles ==
    /\ collect.on ~> ~collect.on
    /\ \A t \in Tasks : (InFlight(t) /\ task[t].cancelled) ~> ~(InFlight(t) /\ task[t].cancelled)

-----------------------------------------------------------------------------
(* The inductive invariant *)

\* A task in flight is a swarm's, and a run that has tokens off the books is at a cap: its
\* next step stops it.
RunsKept ==
    /\ \A t \in Tasks : InFlight(t) => task[t].swarm # 0
    /\ \A t \in Tasks : unbooked[t] > 0 =>
           task[t].pc = "running" /\ Exhausted(swarm[task[t].swarm], task[t].member)

\* What waits in the inbox of a stage that runs was heard when it began, or is late.
Attended ==
    \A x \in Messages, t \in Tasks :
        /\ mail[x].at = "inbox"
        /\ task[t].pc = "running" /\ task[t].kind = "pipeline"
        /\ task[t].swarm = mail[x].swarm /\ task[t].member = mail[x].to
        => mail[x].heard \/ mail[x].late

SwarmInv == LedgerKept /\ Listed /\ RunsKept /\ Attended /\ MailHeard
=============================================================================
