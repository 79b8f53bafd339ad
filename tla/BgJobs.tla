------------------------------- MODULE BgJobs -------------------------------
(***************************************************************************)
(* Background jobs (phoson_plugin_bgjobs): processes that outlive the turn *)
(* that started them, the plugin instance that watches them and the host.  *)
(*                                                                         *)
(* The instance that started a job reaps it; a later instance, loaded by   *)
(* an engine rebuild or a restart from jobs.json, can only poll its        *)
(* process group.  Whoever sees the end writes the final state and queues  *)
(* one wake, which the next turn takes.  How a turn takes it, and how a    *)
(* rebuild's two instances overlap, is the subject of MonitorWakes.        *)
(***************************************************************************)
EXTENDS Naturals

CONSTANTS
    Jobs,
    MaxLoads,  \* bound: plugin instances, by start and by engine rebuild
    Watchdog   \* whether watchdog_seconds is set

ASSUME JobAssumption ==
    /\ "none" \notin Jobs
    /\ MaxLoads \in Nat
    /\ Watchdog \in BOOLEAN

VARIABLES
    proc,    \* the process of a job: its child, then what the child left in the group
    disk,    \* jobs.json and wake.jsonl
    mem,     \* the same in the instance of the engine
    cur,     \* that instance, 0 while no host runs
    loads,   \* instances so far
    tasks,   \* what the instance runs for a job: a reaper, a poller or nothing
    owned,   \* _processes
    asked,   \* _stopping
    stop,    \* the job whose stop_bg_job waits, or "none"
    told,    \* how often a turn was told of a job
    answer,  \* the jobs that a stop_bg_job said it stopped
    cut,     \* history: jobs whose stop_bg_job was cancelled in this instance
    blind,   \* history: jobs whose poller a cancelled stop_bg_job took along
    lost     \* history: jobs that a kill left half written

jobVars == <<proc, disk, mem, cur, loads, tasks, owned, asked, stop, told, answer, cut, blind, lost>>

Final == {"completed", "stopped", "orphaned"}
Files == [jobs : [Jobs -> {"absent", "running"} \cup Final], queue : SUBSET Jobs]
NoTasks == [j \in Jobs |-> "none"]

JobTypeOK ==
    /\ proc \in [Jobs -> {"none", "alive", "group", "dead"}]
    /\ disk \in Files /\ mem \in Files
    /\ loads \in 0..MaxLoads /\ cur \in {0, loads}
    /\ tasks \in [Jobs -> {"none", "reap", "poll"}]
    /\ owned \subseteq Jobs /\ asked \subseteq Jobs
    /\ stop \in Jobs \cup {"none"}
    /\ told \in [Jobs -> 0..2]
    /\ answer \subseteq Jobs /\ cut \subseteq Jobs /\ blind \subseteq Jobs /\ lost \subseteq Jobs

\* process_group_alive.
GroupAlive(j) == proc[j] \in {"alive", "group"}

-----------------------------------------------------------------------------
(* The processes *)

\* The child exits, with or without leaving others in its group; the group empties.
Exits(j) ==
    /\ \/ proc[j] = "alive" /\ proc' \in {[proc EXCEPT ![j] = s] : s \in {"group", "dead"}}
       \/ proc[j] = "group" /\ proc' = [proc EXCEPT ![j] = "dead"]
    /\ UNCHANGED <<disk, mem, cur, loads, tasks, owned, asked, stop, told, answer, cut, blind, lost>>

\* The reaper's wait_for times out: the tree is killed, the reaper waits on.
TimesOut(j) ==
    /\ Watchdog
    /\ tasks[j] = "reap" /\ proc[j] = "alive"
    /\ proc' = [proc EXCEPT ![j] = "dead"]
    /\ UNCHANGED <<disk, mem, cur, loads, tasks, owned, asked, stop, told, answer, cut, blind, lost>>

-----------------------------------------------------------------------------
(* Tools of a turn *)

\* _run_bg_job: spawn, record, watch.
Run(j) ==
    /\ cur # 0 /\ stop = "none"
    /\ proc[j] = "none"
    /\ proc' = [proc EXCEPT ![j] = "alive"]
    /\ mem' = [mem EXCEPT !.jobs[j] = "running"]
    /\ disk' = [disk EXCEPT !.jobs = mem'.jobs]
    /\ owned' = owned \cup {j}
    /\ tasks' = [tasks EXCEPT ![j] = "reap"]
    /\ UNCHANGED <<cur, loads, asked, stop, told, answer, cut, blind, lost>>

\* _stop_bg_job: only a process of this instance is killed, whatever the entry holds.
Stop(j) ==
    /\ cur # 0 /\ stop = "none"
    /\ mem.jobs[j] = "running"
    /\ asked' = asked \cup {j}
    /\ proc' = IF j \in owned THEN [proc EXCEPT ![j] = "dead"] ELSE proc
    /\ stop' = j
    /\ UNCHANGED <<disk, mem, cur, loads, tasks, owned, told, answer, cut, blind, lost>>

\* ... and its answer, however the task of the job ended.
StopAnswers ==
    /\ stop # "none" /\ tasks[stop] = "none"
    /\ answer' = answer \cup {stop}
    /\ stop' = "none"
    /\ UNCHANGED <<proc, disk, mem, cur, loads, tasks, owned, asked, told, cut, blind, lost>>

\* The user cancels: awaiting a task hands the cancellation to it, and the suppress
\* around the await swallows what comes back, so that stop_bg_job answers all the same.
CancelStop ==
    /\ stop # "none" /\ tasks[stop] # "none"
    /\ tasks' = [tasks EXCEPT ![stop] = "none"]
    /\ cut' = cut \cup {stop}
    /\ blind' = IF tasks[stop] = "poll" THEN blind \cup {stop} ELSE blind
    /\ UNCHANGED <<proc, disk, mem, cur, loads, owned, asked, stop, told, answer, lost>>

\* A turn begins and takes the wakes that are queued.
Deliver ==
    /\ cur # 0 /\ stop = "none" /\ mem.queue # {}
    /\ told' = [j \in Jobs |-> IF j \in mem.queue THEN told[j] + 1 ELSE told[j]]
    /\ mem' = [mem EXCEPT !.queue = {}]
    /\ disk' = [disk EXCEPT !.queue = {}]
    /\ UNCHANGED <<proc, cur, loads, tasks, owned, asked, stop, answer, cut, blind, lost>>

-----------------------------------------------------------------------------
(* The end of a job *)

\* Seeded fault: the wake is not queued for a job that was stopped.
Finalize_StopIsSilent(j, state) ==
    /\ mem' = [jobs |-> [mem.jobs EXCEPT ![j] = state],
               queue |-> IF state = "stopped" THEN mem.queue ELSE mem.queue \cup {j}]
    /\ disk' = mem'
    /\ tasks' = [tasks EXCEPT ![j] = "none"]

\* store.replace and _fire_wake, without an await that suspends in between.
Finalize(j, state) ==
    /\ mem' = [jobs |-> [mem.jobs EXCEPT ![j] = state], queue |-> mem.queue \cup {j}]
    /\ disk' = mem'
    /\ tasks' = [tasks EXCEPT ![j] = "none"]

\* _reap: the child was waited for.
Reap(j) ==
    /\ tasks[j] = "reap" /\ proc[j] # "alive"
    /\ Finalize(j, IF j \in asked THEN "stopped" ELSE "completed")
    /\ owned' = owned \ {j}
    /\ asked' = asked \ {j}
    /\ UNCHANGED <<proc, cur, loads, stop, told, answer, cut, blind, lost>>

\* _poll_orphan and _mark_orphaned.
PollEnds(j) ==
    /\ tasks[j] = "poll" /\ ~GroupAlive(j)
    /\ Finalize(j, "orphaned")
    /\ UNCHANGED <<proc, cur, loads, owned, asked, stop, told, answer, cut, blind, lost>>

-----------------------------------------------------------------------------
(* Hosts *)

\* A new instance loads the files and ensure_started reconciles: what still runs is
\* polled, what is gone is orphaned.
Inherited == {j \in Jobs : disk.jobs[j] = "running"}

\* Seeded fault: ensure_started takes every inherited job for gone.
Reconciled_NoProbe ==
    [jobs |-> [j \in Jobs |-> IF j \in Inherited THEN "orphaned" ELSE disk.jobs[j]],
     queue |-> disk.queue \cup Inherited]

Reconciled ==
    LET gone == {j \in Inherited : ~GroupAlive(j)}
    IN  [jobs |-> [j \in Jobs |-> IF j \in gone THEN "orphaned" ELSE disk.jobs[j]],
         queue |-> disk.queue \cup gone]

\* Seeded fault: a new instance only looks after the jobs that are gone.
Load_NoPoll ==
    /\ loads < MaxLoads
    /\ loads' = loads + 1 /\ cur' = loads'
    /\ mem' = Reconciled /\ disk' = Reconciled
    /\ tasks' = NoTasks
    /\ owned' = {} /\ asked' = {} /\ cut' = {}
    /\ UNCHANGED <<proc, stop, told, answer, blind, lost>>

Load ==
    /\ loads < MaxLoads
    /\ loads' = loads + 1 /\ cur' = loads'
    /\ mem' = Reconciled /\ disk' = Reconciled
    /\ tasks' = [j \in Jobs |-> IF j \in Inherited /\ GroupAlive(j) THEN "poll" ELSE "none"]
    /\ owned' = {} /\ asked' = {} /\ cut' = {}
    /\ UNCHANGED <<proc, stop, told, answer, blind, lost>>

StartHost == cur = 0 /\ Load

\* _rebuild_engine between two turns: aclose of the old instance leaves its jobs alone.
Rebuild == cur # 0 /\ stop = "none" /\ Load

Gone ==
    /\ cur' = 0
    /\ mem' = [jobs |-> [j \in Jobs |-> "absent"], queue |-> {}]
    /\ tasks' = NoTasks /\ owned' = {} /\ asked' = {} /\ cut' = {}
    /\ stop' = "none"
    /\ UNCHANGED <<loads, told, answer, blind>>

\* The host exits or is killed.
HostEnds ==
    /\ cur # 0
    /\ Gone
    /\ UNCHANGED <<proc, disk, lost>>

\* A kill between the spawn and the entry.
KilledInRun(j) ==
    /\ cur # 0 /\ stop = "none" /\ proc[j] = "none"
    /\ proc' = [proc EXCEPT ![j] = "alive"]
    /\ lost' = lost \cup {j}
    /\ Gone
    /\ UNCHANGED disk

\* A kill between the entry and the wake.
KilledInFinalize(j) ==
    /\ \/ tasks[j] = "reap" /\ proc[j] # "alive"
       \/ tasks[j] = "poll" /\ ~GroupAlive(j)
    /\ disk' = [disk EXCEPT !.jobs[j] =
                   IF tasks[j] = "poll" THEN "orphaned"
                   ELSE IF j \in asked THEN "stopped" ELSE "completed"]
    /\ lost' = lost \cup {j}
    /\ Gone
    /\ UNCHANGED proc

JobInit ==
    /\ proc = [j \in Jobs |-> "none"]
    /\ disk = [jobs |-> [j \in Jobs |-> "absent"], queue |-> {}]
    /\ mem = disk
    /\ cur = 0 /\ loads = 0
    /\ tasks = NoTasks /\ owned = {} /\ asked = {}
    /\ stop = "none"
    /\ told = [j \in Jobs |-> 0]
    /\ answer = {} /\ cut = {} /\ blind = {} /\ lost = {}

JobNext ==
    \/ \E j \in Jobs :
           \/ Exits(j) \/ TimesOut(j) \/ Run(j) \/ Stop(j) \/ Reap(j) \/ PollEnds(j)
           \/ KilledInRun(j) \/ KilledInFinalize(j)
    \/ StopAnswers \/ CancelStop \/ Deliver
    \/ StartHost \/ Rebuild \/ HostEnds

\* The event loop runs the tasks; processes, users and kills come when they come.
JobSpec ==
    /\ JobInit /\ [][JobNext]_jobVars
    /\ \A j \in Jobs : WF_jobVars(Reap(j)) /\ WF_jobVars(PollEnds(j))
    /\ WF_jobVars(StopAnswers)

-----------------------------------------------------------------------------
(* Properties *)

\* A final state tells the truth about the processes: nothing of a stopped or an
\* orphaned job is alive, nor the child of a completed one (_reap, _mark_orphaned); and
\* a process that is not final is in the registry, which memory and disk agree on,
\* unless a kill hit its launch.  Of a job that stop_bg_job answered for, nothing is alive,
\* unless a cancellation took the poller of that job along (StopKills).
FinalMeansOver ==
    /\ JobTypeOK
    /\ cur # 0 => mem = disk
    /\ \A j \in Jobs :
           /\ disk.jobs[j] \in {"stopped", "orphaned"} => proc[j] = "dead"
           /\ disk.jobs[j] = "completed" => proc[j] # "alive"
           /\ disk.jobs[j] = "absent" => proc[j] = "none" \/ j \in lost
           /\ j \in answer => proc[j] = "dead" \/ j \in blind

\* Each job that ended is announced exactly once, over rebuilds, restarts and whoever
\* watched it, except where a kill came between its entry and its wake ("the point is
\* that the agent is told the job ended").
ToldOnce ==
    \A j \in Jobs :
        told[j] + (IF j \in disk.queue THEN 1 ELSE 0)
            = IF disk.jobs[j] \in Final /\ j \notin lost THEN 1 ELSE 0

\* A stopped job is told of as stopped (the plugin's README: "The completion wake is
\* still delivered, with state stopped").
StopSaysStopped == \A j \in answer : disk.jobs[j] = "stopped"

\* What stop_bg_job answers: "stopped (process tree killed)".
StopKills == \A j \in answer : proc[j] = "dead"

\* A job whose processes are gone is announced while an instance watches it, and a
\* stop_bg_job that waits for it returns.  A cancelled stop_bg_job takes the watcher of its
\* job along: nothing announces that end until another instance loads the registry, which
\* empties cut (EndAlwaysTold).
EndIsTold ==
    \A j \in Jobs :
        /\ (cur # 0 /\ proc[j] = "dead" /\ mem.jobs[j] = "running")
               ~> (cur = 0 \/ mem.jobs[j] \in Final \/ j \in cut)
        /\ (stop = j /\ proc[j] = "dead") ~> stop # j

\* The same of every job ("the completion wake is still delivered").
EndAlwaysTold ==
    \A j \in Jobs :
        (cur # 0 /\ proc[j] = "dead" /\ mem.jobs[j] = "running") ~> (cur = 0 \/ mem.jobs[j] \in Final)

-----------------------------------------------------------------------------
(* The inductive invariant of BgJobs_proof *)

\* Who looks after a job that runs, what a stop leaves to its watcher, and which jobs a
\* kill can have left half written.
WatchInv ==
    \A j \in Jobs :
        /\ disk.jobs[j] # "absent" \/ j \in lost => proc[j] # "none"
        /\ disk.jobs[j] = "running" => j \notin lost
        /\ tasks[j] # "none" => cur # 0 /\ mem.jobs[j] = "running"
        /\ cur # 0 /\ mem.jobs[j] = "running" => tasks[j] # "none" \/ j \in cut
        /\ tasks[j] = "reap" => j \in owned
        /\ j \in asked /\ j \in owned => proc[j] = "dead"
        /\ j \in asked \/ j \in owned => cur # 0 /\ mem.jobs[j] # "absent"
        /\ stop = j => cur # 0 /\ (j \in asked \/ tasks[j] = "none")
        /\ j \in cut \/ (stop = j /\ tasks[j] = "none") => j \in blind \/ proc[j] = "dead"

JobInv == FinalMeansOver /\ ToldOnce /\ WatchInv
=============================================================================
